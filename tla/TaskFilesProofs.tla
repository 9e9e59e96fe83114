---------------------------- MODULE TaskFilesProofs ----------------------------
(***************************************************************************)
(* For every number of requests, names, keys and failures: the files of a  *)
(* task and the rows agree, names are unique, and a key has one effect.    *)
(* IInv says of the rows of the transaction under way what it says of the  *)
(* stored ones, so that a commit is a matter of exchanging them; that a    *)
(* request which has not begun to work owns no row; and that the record of *)
(* a call that worked is there until it expires.  What an operation writes *)
(* is looked at once, where its transaction begins (Begins).               *)
(***************************************************************************)
EXTENDS TaskFiles, TLAPS

--------------------------------------------------------------------------------
(* The invariant *)

\* A set of rows and a state of the disk: no name is given twice on one side; a live row has
\* its files in their places, and a file a live row in its place, but for the files in T.
Place(r)     == IF r = "registered" THEN {"output", "artifact"} ELSE {"input"}
SameSide(q, r) == {q, r} \subseteq {"staged", "committed"} \/ {q, r} = {"registered"}

Unique(R)    == \A f, g \in Files : SameSide(R[f], R[g]) /\ Name(f) = Name(g) => f = g
Kept(R, D, T) == \A f \in Files : R[f] \in Live =>
                   f \in T \/ \A p \in Place(R[f]) : <<p, f>> \in D
Rowed(R, D, T) == \A f \in Files, p \in Places : <<p, f>> \in D =>
                   f \in T \/ (R[f] \in Live /\ p \in Place(R[f]))

Open(st) == st \in {"uploading", "running", "ended"}
Puts  == IF tx = None THEN {} ELSE tx.put
Drops == IF tx = None THEN {} ELSE tx.drop

\* The rows as they are, and as they will be when the transaction commits.
Stored ==
    /\ Unique(rows)
    /\ Open(status) => Kept(rows, disk, torn \cup Drops)
    /\ Rowed(rows, disk, torn \cup Puts)

Ready ==
    tx # None =>
       /\ Unique(tx.rows)
       /\ Open(tx.status) => Kept(tx.rows, disk, torn)
       /\ Rowed(tx.rows, disk, torn)
       /\ status # "deleted"

\* A request that has not begun to work has no rows.
FreshIn(R) == \A c \in Calls : calls[c].stage \in {"new", "asked"} =>
                                  \A n \in Names : R[<<c, n>>] = "none"
Fresh == FreshIn(rows) /\ (tx # None => FreshIn(tx.rows))

\* How far a request has got.
Progress ==
    \A c \in Calls :
       /\ calls[c].stage = "new" => calls[c].request = None
       /\ calls[c].stage \in {"new", "asked", "working", "cleaning"} => calls[c].result = None
       /\ calls[c].stage = "working" <=> tx # None /\ tx.call = c
       /\ calls[c].stage = "asked" => calls[c].request # None
       /\ calls[c].stage = "cleaning" => status = "deleted"

\* The call that worked is the one its record names, until the record has expired.
Effective(c) == Keyed(c) /\ (calls[c].result = c \/ calls[c].stage = "cleaning")

Recorded ==
    /\ \A s \in DOMAIN records : calls[records[s].result].stage # "new"
    /\ \A c \in Calls : Effective(c) =>
          \/ c \in lapsed
          \/ /\ Slot(c) \in DOMAIN records
             /\ records[Slot(c)].result = c /\ ~ records[Slot(c)].expired

IInv == TypeOK /\ Stored /\ Ready /\ Fresh /\ Progress /\ Recorded

--------------------------------------------------------------------------------
(* The lock is taken: what a transaction is going to write *)

\* What has to hold of the rows R, the files D and the new status of a transaction that begins.
Sound(R, st, put, drop, D) ==
    /\ R \in [Files -> RowStates] /\ st \in Statuses
    /\ put \subseteq Files /\ drop \subseteq Files /\ D \subseteq Places \X Files
    /\ Open(status) => Kept(rows, D, torn \cup drop)
    /\ Rowed(rows, D, torn \cup put)
    /\ Unique(R)
    /\ Open(st) => Kept(R, D, torn)
    /\ Rowed(R, D, torn)
    /\ status # "deleted"

\* The transaction of c begins, and writes rows of its own or rows there are.
Begins(c) ==
    \E R, st, put, drop :
       /\ tx = None /\ Work(c, R, st, put, drop) /\ Sound(R, st, put, drop, disk')
       /\ \A f \in Files : R[f] = rows[f] \/ rows[f] # "none" \/ f[1] = c

LEMMA FileParts ==
  ASSUME NEW f \in Files
  PROVE  f = <<f[1], f[2]>> /\ f[1] \in Calls \cup {Past} /\ f[2] \in Names
BY DEF Files

LEMMA UploadBegins ==
  ASSUME IInv, NEW c \in Calls, UploadFiles(c), ~ Refuse(c)
  PROVE  Begins(c)
<1>1. /\ tx = None /\ status = "uploading" /\ ~ NameTaken(c)
      /\ calls[c].request.op = "upload" /\ calls[c].stage = "asked"
      /\ disk' = disk \cup At({"input"}, Batch(c))
      /\ Work(c, [f \in Files |-> IF f \in Batch(c) THEN "staged" ELSE rows[f]],
              status, Batch(c), {})
  BY DEF UploadFiles, Locks
<1>2. PICK R : R = [f \in Files |-> IF f \in Batch(c) THEN "staged" ELSE rows[f]] OBVIOUS
<1>3. calls[c].request.of \subseteq Names
  <2>1. calls[c].request \in Requests BY <1>1 DEF IInv, TypeOK, Call, Progress
  <2> QED BY <1>1, <2>1 DEF Requests
<1>4. PICK B : B = Batch(c) OBVIOUS
<1>5. /\ B \subseteq Files /\ \A f \in B : f[1] = c /\ Name(f) \in calls[c].request.of
      /\ \A f, g \in B : Name(f) = Name(g) => f = g
      /\ \A f \in B : rows[f] = "none"
  BY <1>1, <1>3, <1>4 DEF Batch, Files, Name, IInv, Fresh, FreshIn
<1>6. /\ rows \in [Files -> RowStates] /\ disk \subseteq Places \X Files
      /\ Unique(rows) /\ Kept(rows, disk, torn) /\ Rowed(rows, disk, torn)
  BY <1>1 DEF IInv, TypeOK, Stored, Open, Puts, Drops
<1>7. R \in [Files -> RowStates] /\ \A f \in Files : R[f] = IF f \in B THEN "staged" ELSE rows[f]
  BY <1>2, <1>4, <1>6 DEF RowStates, Live
<1>8. PICK D : D = disk' OBVIOUS
<1>9. /\ D \subseteq Places \X Files
      /\ \A p, f : <<p, f>> \in D <=> <<p, f>> \in disk \/ (p = "input" /\ f \in B)
  BY <1>1, <1>4, <1>5, <1>6, <1>8 DEF At, Places
<1>10. Kept(rows, D, torn \cup {}) BY <1>6, <1>9 DEF Kept
<1>11. Rowed(rows, D, torn \cup B) BY <1>6, <1>9 DEF Rowed
<1>12. Unique(R)
  <2> SUFFICES ASSUME NEW f \in Files, NEW g \in Files, SameSide(R[f], R[g]), Name(f) = Name(g)
               PROVE  f = g
    BY DEF Unique
  <2>1. CASE f \in B /\ g \in B BY <1>5, <2>1
  <2>2. CASE f \notin B /\ g \notin B BY <1>6, <1>7, <2>2 DEF Unique
  <2>3. ASSUME NEW h \in Files \ B, R[h] \in {"staged", "committed"},
               NEW b \in B, Name(h) = Name(b)
        PROVE  FALSE
    <3>1. h \in Inputs BY <1>7, <2>3 DEF Inputs
    <3> QED BY <1>1, <1>5, <2>3, <3>1 DEF NameTaken
  <2>4. ASSUME NEW h \in Files, NEW b \in B, SameSide(R[h], R[b])
        PROVE  R[h] \in {"staged", "committed"}
    BY <1>5, <1>7, <2>4 DEF SameSide
  <2>5. SameSide(R[g], R[f]) BY DEF SameSide
  <2> QED BY <2>1, <2>2, <2>3, <2>4, <2>5
<1>13. Kept(R, D, torn) BY <1>6, <1>7, <1>9 DEF Kept, Place
<1>14. Rowed(R, D, torn) BY <1>5, <1>6, <1>7, <1>9 DEF Rowed, Place, Live
<1>15. Sound(R, status, B, {}, D)
  BY <1>1, <1>5, <1>7, <1>9, <1>10, <1>11, <1>12, <1>13, <1>14 DEF Sound, Statuses
<1>16. \A f \in Files : R[f] = rows[f] \/ rows[f] # "none" \/ f[1] = c BY <1>5, <1>7
<1> QED BY <1>1, <1>2, <1>4, <1>8, <1>15, <1>16 DEF Begins

LEMMA DeleteBegins ==
  ASSUME IInv, NEW c \in Calls, DeleteFile(c), ~ Refuse(c)
  PROVE  Begins(c)
<1>1. PICK f : f = calls[c].request.of OBVIOUS
<1>2. /\ tx = None /\ status = "uploading" /\ rows[f] = "staged"
      /\ calls[c].request.op = "delete" /\ calls[c].stage = "asked"
      /\ disk' = disk \ At({"input"}, {f})
      /\ Work(c, [rows EXCEPT ![f] = "deleted"], status, {}, {f})
  BY <1>1 DEF DeleteFile, Locks
<1>3. f \in Files
  <2>1. calls[c].request \in Requests BY <1>2 DEF IInv, TypeOK, Call, Progress
  <2> QED BY <1>1, <1>2, <2>1 DEF Requests
<1>4. PICK R : R = [rows EXCEPT ![f] = "deleted"] OBVIOUS
<1>5. /\ rows \in [Files -> RowStates] /\ disk \subseteq Places \X Files
      /\ Unique(rows) /\ Kept(rows, disk, torn) /\ Rowed(rows, disk, torn)
  BY <1>2 DEF IInv, TypeOK, Stored, Open, Puts, Drops
<1>6. R \in [Files -> RowStates] /\ \A g \in Files : R[g] = IF g = f THEN "deleted" ELSE rows[g]
  BY <1>3, <1>4, <1>5 DEF RowStates
<1>7. PICK D : D = disk' OBVIOUS
<1>8. /\ D \subseteq Places \X Files
      /\ \A p, g : <<p, g>> \in D <=> <<p, g>> \in disk /\ ~ (p = "input" /\ g = f)
  BY <1>2, <1>5, <1>7 DEF At
<1>9. Kept(rows, D, torn \cup {f}) BY <1>5, <1>8 DEF Kept
<1>10. Rowed(rows, D, torn \cup {}) BY <1>5, <1>8 DEF Rowed
<1>11. Unique(R) BY <1>5, <1>6 DEF Unique, SameSide
<1>12. Kept(R, D, torn) BY <1>5, <1>6, <1>8 DEF Kept, Live
<1>13. Rowed(R, D, torn) BY <1>2, <1>3, <1>5, <1>6, <1>8 DEF Rowed, Place
<1>14. Sound(R, status, {}, {f}, D)
  BY <1>2, <1>3, <1>6, <1>8, <1>9, <1>10, <1>11, <1>12, <1>13 DEF Sound, Statuses
<1>15. \A g \in Files : R[g] = rows[g] \/ rows[g] # "none" \/ g[1] = c BY <1>2, <1>6
<1> QED BY <1>2, <1>4, <1>7, <1>14, <1>15 DEF Begins

LEMMA CommitInputBegins ==
  ASSUME IInv, NEW c \in Calls, CommitInput(c), ~ Refuse(c)
  PROVE  Begins(c)
<1>1. PICK R : R = [f \in Files |-> IF rows[f] = "staged" THEN "committed" ELSE rows[f]] OBVIOUS
<1>2. /\ tx = None /\ status = "uploading" /\ disk' = disk
      /\ Work(c, R, "running", {}, {})
  BY <1>1 DEF CommitInput, Locks
<1>3. /\ rows \in [Files -> RowStates] /\ disk \subseteq Places \X Files
      /\ Unique(rows) /\ Kept(rows, disk, torn) /\ Rowed(rows, disk, torn)
  BY <1>2 DEF IInv, TypeOK, Stored, Open, Puts, Drops
<1>4. /\ R \in [Files -> RowStates]
      /\ \A g \in Files : R[g] = IF rows[g] = "staged" THEN "committed" ELSE rows[g]
  BY <1>1, <1>3 DEF RowStates, Live
<1>5. Unique(R) BY <1>3, <1>4 DEF Unique, SameSide
<1>6. Kept(R, disk, torn) BY <1>3, <1>4 DEF Kept, Live, Place
<1>7. Rowed(R, disk, torn) BY <1>3, <1>4 DEF Rowed, Live, Place
<1>8. torn \cup {} = torn OBVIOUS
<1>9. Sound(R, "running", {}, {}, disk)
  BY <1>2, <1>3, <1>4, <1>5, <1>6, <1>7, <1>8 DEF Sound, Statuses
<1>10. \A g \in Files : R[g] = rows[g] \/ rows[g] # "none" \/ g[1] = c BY <1>4
<1> QED BY <1>2, <1>9, <1>10 DEF Begins

LEMMA DeleteTaskBegins ==
  ASSUME IInv, NEW c \in Calls, DeleteTask(c), ~ Refuse(c)
  PROVE  Begins(c)
<1>1. /\ tx = None /\ status # "deleted" /\ disk' = disk
      /\ Work(c, rows, "deleted", {}, {})
  BY DEF DeleteTask, Locks
<1>2. /\ rows \in [Files -> RowStates] /\ disk \subseteq Places \X Files
      /\ Unique(rows) /\ (Open(status) => Kept(rows, disk, torn)) /\ Rowed(rows, disk, torn)
  BY <1>1 DEF IInv, TypeOK, Stored, Puts, Drops
<1>3. torn \cup {} = torn /\ ~ Open("deleted") BY DEF Open
<1>4. Sound(rows, "deleted", {}, {}, disk) BY <1>1, <1>2, <1>3 DEF Sound, Statuses
<1> QED BY <1>1, <1>4 DEF Begins

LEMMA RegisterBegins ==
  ASSUME IInv, NEW c \in Calls, NEW n \in Names, RegisterOutput(c, n), ~ Refuse(c)
  PROVE  Begins(c)
<1>1. PICK new : new = <<c, n>> OBVIOUS
<1>2. PICK old : old = {f \in Outputs : Name(f) = n} OBVIOUS
<1>3. PICK R : R = [f \in Files |-> IF f = new THEN "registered"
                                    ELSE IF f \in old THEN "deleted" ELSE rows[f]]
  OBVIOUS
<1>4. /\ tx = None /\ status = "running" /\ calls[c].stage = "new"
      /\ disk' = (disk \cup At({"output", "artifact"}, {new})) \ At({"output", "artifact"}, old)
      /\ Work(c, R, status, {new}, old)
  BY <1>1, <1>2, <1>3 DEF RegisterOutput
<1>5. /\ rows \in [Files -> RowStates] /\ disk \subseteq Places \X Files
      /\ Unique(rows) /\ Kept(rows, disk, torn) /\ Rowed(rows, disk, torn)
  BY <1>4 DEF IInv, TypeOK, Stored, Open, Puts, Drops
<1>6. /\ new \in Files /\ Name(new) = n /\ new[1] = c /\ rows[new] = "none"
      /\ old \subseteq Files /\ new \notin old
      /\ \A f \in Files : f \in old <=> rows[f] = "registered" /\ Name(f) = n
  BY <1>1, <1>2, <1>4 DEF Files, Name, IInv, Fresh, FreshIn, Outputs
<1>7. /\ R \in [Files -> RowStates]
      /\ \A f \in Files : R[f] = IF f = new THEN "registered"
                                 ELSE IF f \in old THEN "deleted" ELSE rows[f]
  BY <1>3, <1>5 DEF RowStates, Live
<1>8. PICK D : D = disk' OBVIOUS
<1>9. /\ D \subseteq Places \X Files
      /\ \A p, f : <<p, f>> \in D <=>
           \/ p \in {"output", "artifact"} /\ f = new
           \/ <<p, f>> \in disk /\ ~ (p \in {"output", "artifact"} /\ f \in old)
  BY <1>4, <1>5, <1>6, <1>8 DEF At, Places
<1>10. Kept(rows, D, torn \cup old) BY <1>5, <1>9 DEF Kept
<1>11. Rowed(rows, D, torn \cup {new}) BY <1>5, <1>9 DEF Rowed
<1>12. Unique(R)
  <2> SUFFICES ASSUME NEW f \in Files, NEW g \in Files, SameSide(R[f], R[g]), Name(f) = Name(g)
               PROVE  f = g
    BY DEF Unique
  <2>1. ASSUME NEW h \in Files, Name(h) = n, R[h] = "registered" PROVE h = new
    BY <1>6, <1>7, <2>1
  <2>2. CASE f = new \/ g = new BY <1>6, <1>7, <2>1, <2>2 DEF SameSide
  <2>3. CASE f # new /\ g # new
    <3>1. SameSide(rows[f], rows[g]) BY <1>7, <2>3 DEF SameSide
    <3> QED BY <1>5, <3>1 DEF Unique
  <2> QED BY <2>2, <2>3
<1>13. Kept(R, D, torn) BY <1>5, <1>6, <1>7, <1>9 DEF Kept, Place, Live
<1>14. Rowed(R, D, torn) BY <1>5, <1>6, <1>7, <1>9 DEF Rowed, Place, Live
<1>15. Sound(R, status, {new}, old, D)
  BY <1>4, <1>6, <1>7, <1>9, <1>10, <1>11, <1>12, <1>13, <1>14 DEF Sound, Statuses
<1>16. \A g \in Files : R[g] = rows[g] \/ rows[g] # "none" \/ g[1] = c BY <1>6, <1>7
<1> QED BY <1>4, <1>8, <1>15, <1>16 DEF Begins

--------------------------------------------------------------------------------
(* What the steps do to the calls *)

Outcomes == Calls \cup {None, "refused", "conflict", "error"}

\* Call c moves to a stage with a result, and no other call moves.
Moves(c, stage, result) ==
    /\ calls' \in [Calls -> Call]
    /\ calls'[c].stage = stage /\ calls'[c].result = result
    /\ calls'[c].request = calls[c].request /\ calls'[c].key = calls[c].key
    /\ \A d \in Calls : d # c => calls'[d] = calls[d]

LEMMA StageSet ==
  ASSUME NEW q \in Call, NEW stage \in {"working", "cleaning", "answered"}
  PROVE  LET r == [q EXCEPT !.stage = stage]
         IN  /\ r \in Call /\ r.stage = stage
             /\ r.result = q.result /\ r.request = q.request /\ r.key = q.key
BY DEF Call

LEMMA ResultSet ==
  ASSUME NEW q \in Call, NEW result \in Outcomes
  PROVE  LET r == [q EXCEPT !.result = result]
         IN  /\ r \in Call /\ r.result = result
             /\ r.stage = q.stage /\ r.request = q.request /\ r.key = q.key
BY DEF Call, Outcomes

LEMMA StageMoves ==
  ASSUME TypeOK, NEW c \in Calls, NEW stage \in {"working", "cleaning", "answered"},
         calls' = [calls EXCEPT ![c].stage = stage]
  PROVE  Moves(c, stage, calls[c].result)
<1>1. PICK q : q = [calls[c] EXCEPT !.stage = stage] OBVIOUS
<1>2. calls \in [Calls -> Call] /\ calls[c] \in Call BY DEF TypeOK
<1>3. /\ q \in Call /\ q.stage = stage /\ q.result = calls[c].result
      /\ q.request = calls[c].request /\ q.key = calls[c].key
  BY <1>1, <1>2, StageSet
<1>4. calls' = [calls EXCEPT ![c] = q] BY <1>1
<1> QED BY <1>2, <1>3, <1>4 DEF Moves

LEMMA AnswerMoves ==
  ASSUME TypeOK, NEW c \in Calls, NEW result \in Outcomes, Answer(c, result)
  PROVE  Moves(c, "answered", result)
<1>1. PICK q : q = [calls[c] EXCEPT !.stage = "answered"] OBVIOUS
<1>2. PICK r : r = [q EXCEPT !.result = result] OBVIOUS
<1>3. calls \in [Calls -> Call] /\ calls[c] \in Call BY DEF TypeOK
<1>4. /\ q \in Call /\ q.stage = "answered" /\ q.result = calls[c].result
      /\ q.request = calls[c].request /\ q.key = calls[c].key
  BY <1>1, <1>3, StageSet
<1>5. /\ r \in Call /\ r.result = result /\ r.stage = "answered"
      /\ r.request = calls[c].request /\ r.key = calls[c].key
  BY <1>2, <1>4, ResultSet
<1>6. calls' = [calls EXCEPT ![c] = r]
  <2>1. r = [calls[c] EXCEPT !.stage = "answered", !.result = result] BY <1>1, <1>2
  <2>2. PICK one : one = [calls EXCEPT ![c].stage = "answered"] OBVIOUS
  <2>3. one = [calls EXCEPT ![c] = q] BY <1>1, <2>2
  <2>4. calls' = [one EXCEPT ![c].result = result] BY <2>2 DEF Answer
  <2>5. one[c] = q /\ one \in [Calls -> Call] BY <1>3, <1>4, <2>3
  <2>6. calls' = [one EXCEPT ![c] = r] BY <1>2, <2>4, <2>5
  <2> QED BY <1>3, <2>3, <2>6
<1> QED BY <1>3, <1>5, <1>6 DEF Moves

\* A call is asked: it has a request and a key, and an answer if its record is there.
Asked(c, r, k, result) ==
    /\ calls' \in [Calls -> Call]
    /\ calls'[c].request = r /\ calls'[c].key = k
    /\ calls'[c].stage = (IF result = None THEN "asked" ELSE "answered")
    /\ calls'[c].result = result
    /\ \A d \in Calls : d # c => calls'[d] = calls[d]

Hit(s) == s \in DOMAIN records /\ ~ records[s].expired

LEMMA AskMoves ==
  ASSUME IInv, NEW c \in Calls, NEW r \in Requests, NEW k \in Keys, Ask(c, r, k)
  PROVE  /\ calls[c].stage = "new"
         /\ LET s == <<Route(r), k>>
            IN  Asked(c, r, k, IF ~ Hit(s) THEN None
                               ELSE IF records[s].request = r THEN records[s].result
                               ELSE "conflict")
<1>1. PICK s : s = <<Route(r), k>> OBVIOUS
<1>2. calls[c].stage = "new" /\ calls[c].result = None /\ calls[c] \in Call
      /\ calls \in [Calls -> Call]
  BY DEF Ask, IInv, TypeOK, Progress
<1>3. PICK q : q = [calls[c] EXCEPT !.request = r, !.key = k] OBVIOUS
<1>4. /\ q \in Call /\ q.request = r /\ q.key = k /\ q.result = None
  <2>1. PICK p : p = [calls[c] EXCEPT !.request = r] OBVIOUS
  <2>2. /\ p \in Call /\ p.request = r /\ p.result = None BY <1>2, <2>1 DEF Call
  <2>3. q = [p EXCEPT !.key = k] BY <1>3, <2>1
  <2> QED BY <2>2, <2>3 DEF Call
<1>5. CASE ~ Hit(s)
  <2>1. PICK n : n = [q EXCEPT !.stage = "asked"] OBVIOUS
  <2>2. n \in Call /\ n.stage = "asked" /\ n.request = r /\ n.key = k /\ n.result = None
    BY <1>4, <2>1 DEF Call
  <2>3. calls' = [calls EXCEPT ![c] = n] BY <1>1, <1>3, <1>5, <2>1 DEF Ask, Hit
  <2> QED BY <1>1, <1>2, <1>5, <2>2, <2>3 DEF Asked
<1>6. CASE Hit(s)
  <2>1. PICK result : result = IF records[s].request = r THEN records[s].result ELSE "conflict"
    OBVIOUS
  <2>2. result \in Outcomes /\ result # None
    BY <1>6, <2>1, FilesAssumption DEF Hit, IInv, TypeOK, Outcomes
  <2>3. PICK n : n = [q EXCEPT !.stage = "answered"] OBVIOUS
  <2>4. PICK m : m = [n EXCEPT !.result = result] OBVIOUS
  <2>5. /\ n \in Call /\ n.stage = "answered" /\ n.request = r /\ n.key = k
    BY <1>4, <2>3, StageSet
  <2>6. /\ m \in Call /\ m.stage = "answered" /\ m.request = r /\ m.key = k /\ m.result = result
    BY <2>2, <2>4, <2>5, ResultSet
  <2>7. m = [q EXCEPT !.stage = "answered", !.result = result] BY <2>3, <2>4
  <2>8. calls' = [calls EXCEPT ![c] = m] BY <1>1, <1>3, <1>6, <2>1, <2>7 DEF Ask, Hit
  <2> QED BY <1>1, <1>2, <1>6, <2>1, <2>2, <2>6, <2>8 DEF Asked
<1> QED BY <1>5, <1>6

\* A crash answers the calls that had begun.
LEMMA CrashMoves ==
  ASSUME TypeOK, Crash
  PROVE  /\ calls' \in [Calls -> Call]
         /\ \A c \in Calls :
              /\ calls'[c].request = calls[c].request /\ calls'[c].key = calls[c].key
              /\ IF calls[c].stage \in {"asked", "working", "cleaning"}
                 THEN calls'[c].stage = "answered" /\ calls'[c].result = "error"
                 ELSE calls'[c] = calls[c]
<1> DEFINE n(c) == IF calls[c].stage \in {"asked", "working", "cleaning"}
                   THEN [calls[c] EXCEPT !.stage = "answered", !.result = "error"] ELSE calls[c]
<1>1. calls' = [c \in Calls |-> n(c)] BY DEF Crash
<1>2. ASSUME NEW c \in Calls
      PROVE  /\ n(c) \in Call
             /\ n(c).request = calls[c].request /\ n(c).key = calls[c].key
             /\ IF calls[c].stage \in {"asked", "working", "cleaning"}
                THEN n(c).stage = "answered" /\ n(c).result = "error"
                ELSE n(c) = calls[c]
  <2>1. calls[c] \in Call BY DEF TypeOK
  <2>2. CASE calls[c].stage \in {"asked", "working", "cleaning"}
    <3>1. PICK q : q = [calls[c] EXCEPT !.stage = "answered"] OBVIOUS
    <3>2. PICK r : r = [q EXCEPT !.result = "error"] OBVIOUS
    <3>3. r = [calls[c] EXCEPT !.stage = "answered", !.result = "error"] BY <3>1, <3>2
    <3>4. /\ q \in Call /\ q.stage = "answered"
          /\ q.request = calls[c].request /\ q.key = calls[c].key
      BY <2>1, <3>1, StageSet
    <3>5. /\ r \in Call /\ r.stage = "answered" /\ r.result = "error"
          /\ r.request = calls[c].request /\ r.key = calls[c].key
      BY <3>2, <3>4, ResultSet DEF Outcomes
    <3>6. n(c) = r BY <2>2, <3>3
    <3> QED BY <2>2, <3>5, <3>6
  <2> QED BY <2>1, <2>2
<1> HIDE DEF n
<1> QED BY <1>1, <1>2

--------------------------------------------------------------------------------
(* What the steps do to the files *)

FilesTyped ==
    /\ status \in Statuses /\ rows \in [Files -> RowStates] /\ disk \subseteq Places \X Files
    /\ tx \in Transactions \cup {None} /\ torn \subseteq Files

FilesNext == FilesTyped' /\ Stored' /\ Ready'

LEMMA KeptMore ==
  ASSUME NEW R, NEW D, NEW T, NEW T2, T \subseteq T2, Kept(R, D, T)
  PROVE  Kept(R, D, T2)
BY DEF Kept

LEMMA RowedMore ==
  ASSUME NEW R, NEW D, NEW T, NEW T2, T \subseteq T2, Rowed(R, D, T)
  PROVE  Rowed(R, D, T2)
BY DEF Rowed

LEMMA SameFiles ==
  ASSUME IInv, UNCHANGED <<status, rows, disk, tx, torn>>
  PROVE  FilesNext
BY DEF FilesNext, FilesTyped, IInv, TypeOK, Stored, Ready, Puts, Drops

LEMMA BeginsFiles ==
  ASSUME IInv, NEW c \in Calls, Begins(c)
  PROVE  FilesNext
<1>1. PICK R, st, put, drop :
        tx = None /\ Work(c, R, st, put, drop) /\ Sound(R, st, put, drop, disk')
  BY DEF Begins
<1>2. PICK T : T = [call |-> c, rows |-> R, status |-> st, put |-> put, drop |-> drop] OBVIOUS
<1>3. /\ T \in Transactions /\ T # None /\ tx' = T
      /\ T.rows = R /\ T.status = st /\ T.put = put /\ T.drop = drop
  BY <1>1, <1>2, FilesAssumption DEF Transactions, Sound, Work
<1>4. Puts' = put /\ Drops' = drop BY <1>3 DEF Puts, Drops
<1>5. status' = status /\ rows' = rows /\ torn' = torn BY <1>1 DEF Work
<1>6. FilesTyped' BY <1>1, <1>3, <1>5 DEF FilesTyped, Sound, IInv, TypeOK
<1>7. Stored'
  <2>1. Unique(rows) BY DEF IInv, Stored
  <2> QED BY <1>1, <1>4, <1>5, <2>1 DEF Sound, Stored
<1>8. Ready' BY <1>1, <1>3, <1>5 DEF Sound, Ready
<1> QED BY <1>6, <1>7, <1>8 DEF FilesNext

LEMMA CommitFiles ==
  ASSUME IInv, Commit
  PROVE  FilesNext
<1>1. tx \in Transactions /\ tx # None /\ tx' = None BY DEF Commit, IInv, TypeOK
<1>2. rows' = tx.rows /\ status' = tx.status /\ disk' = disk /\ torn' = torn BY DEF Commit
<1>3. tx.rows \in [Files -> RowStates] /\ tx.status \in Statuses BY <1>1 DEF Transactions
<1>4. FilesTyped' BY <1>1, <1>2, <1>3 DEF FilesTyped, IInv, TypeOK
<1>5. torn \cup {} = torn /\ Puts' = {} /\ Drops' = {} BY <1>1 DEF Puts, Drops
<1>6. Stored' BY <1>1, <1>2, <1>5 DEF IInv, Ready, Stored
<1>7. Ready' BY <1>1 DEF Ready
<1> QED BY <1>4, <1>6, <1>7 DEF FilesNext

\* A rollback and a crash tear what the transaction has put and dropped.
LEMMA TornFiles ==
  ASSUME IInv, tx # None, tx' = None, UNCHANGED <<status, rows>>,
         torn' = torn \cup tx.put \cup tx.drop,
         NEW missing \in SUBSET tx.put, disk' = disk \ At(Places, missing)
  PROVE  FilesNext
<1>1. tx \in Transactions BY DEF IInv, TypeOK
<1>2. tx.put \subseteq Files /\ tx.drop \subseteq Files BY <1>1 DEF Transactions
<1>3. FilesTyped' BY <1>2 DEF FilesTyped, IInv, TypeOK
<1>4. torn' \cup {} = torn' /\ Puts' = {} /\ Drops' = {} BY DEF Puts, Drops
<1>5. \A p, f : <<p, f>> \in disk' <=> <<p, f>> \in disk /\ ~ (p \in Places /\ f \in missing)
  BY DEF At
<1>6. Unique(rows) /\ Rowed(rows, disk, torn \cup tx.put)
      /\ (Open(status) => Kept(rows, disk, torn \cup tx.drop))
  BY DEF IInv, Stored, Puts, Drops
<1>7. Open(status) => Kept(rows, disk', torn')
  BY <1>5, <1>6 DEF Kept
<1>8. Rowed(rows, disk', torn')
  BY <1>5, <1>6 DEF Rowed
<1>9. Stored' BY <1>4, <1>6, <1>7, <1>8 DEF Stored
<1>10. Ready' BY DEF Ready
<1> QED BY <1>3, <1>9, <1>10 DEF FilesNext

LEMMA RollbackFiles ==
  ASSUME IInv, tx # None, NEW result, Rollback(result)
  PROVE  FilesNext
<1>1. disk' = disk \ At(Places, {}) /\ {} \in SUBSET tx.put BY DEF Rollback, At
<1> QED BY <1>1, TornFiles DEF Rollback

LEMMA CrashFiles ==
  ASSUME IInv, Crash
  PROVE  FilesNext
<1>1. CASE tx = None BY <1>1, SameFiles DEF Crash
<1>2. CASE tx # None
  <2>1. PICK missing \in SUBSET tx.put : disk' = disk \ At(Places, missing)
    BY <1>2 DEF Crash
  <2> QED BY <1>2, <2>1, TornFiles DEF Crash
<1> QED BY <1>1, <1>2

\* A clean-up comes when nothing is open any more, and no transaction is under way.
LEMMA ClearedFiles ==
  ASSUME IInv, tx = None, disk' = {}, ~ Open(status'), status' \in Statuses,
         UNCHANGED <<rows, tx, torn>>
  PROVE  FilesNext
<1>1. FilesTyped' BY DEF FilesTyped, IInv, TypeOK
<1>2. Stored' BY DEF IInv, Stored, Rowed
<1>3. Ready' BY DEF Ready
<1> QED BY <1>1, <1>2, <1>3 DEF FilesNext

LEMMA EndFiles ==
  ASSUME IInv, EndTask
  PROVE  FilesNext
<1>1. /\ tx = None /\ status = "running" /\ status' = "ended"
      /\ UNCHANGED <<rows, disk, tx, torn>>
  BY DEF EndTask
<1>2. FilesTyped' BY <1>1 DEF FilesTyped, IInv, TypeOK, Statuses
<1>3. Stored' BY <1>1 DEF IInv, Stored, Puts, Drops, Open
<1>4. Ready' BY <1>1 DEF Ready
<1> QED BY <1>2, <1>3, <1>4 DEF FilesNext

\* A transaction begins, ends, or leaves the lock alone.
LEMMA NextFiles ==
  ASSUME IInv, [Next]_vars
  PROVE  FilesNext
<1>1. CASE UNCHANGED <<status, rows, disk, tx, torn>> BY <1>1, SameFiles
<1>2. ASSUME NEW c \in Calls, Begins(c) PROVE FilesNext BY <1>2, BeginsFiles
<1>3. ASSUME NEW c \in Calls, UploadFiles(c) \/ DeleteFile(c) \/ CommitInput(c) \/ DeleteTask(c)
      PROVE  FilesNext
  <2>1. CASE Refuse(c) BY <1>1, <2>1 DEF Refuse
  <2> QED BY <1>2, <1>3, <2>1, UploadBegins, DeleteBegins, CommitInputBegins, DeleteTaskBegins
<1>4. ASSUME NEW c \in Calls, NEW n \in Names, RegisterOutput(c, n) PROVE FilesNext
  <2>1. CASE Refuse(c) BY <1>1, <2>1 DEF Refuse
  <2> QED BY <1>2, <1>4, <2>1, RegisterBegins
<1>5. CASE Commit BY <1>5, CommitFiles
<1>6. CASE Conflict \/ DatabaseFails BY <1>6, RollbackFiles DEF Conflict, DatabaseFails
<1>7. CASE Crash BY <1>7, CrashFiles
<1>8. ASSUME NEW c \in Calls, CleanUp(c) PROVE FilesNext
  <2>1. status = "deleted" /\ tx = None BY <1>8 DEF CleanUp, IInv, Progress, Ready
  <2> QED BY <1>8, <2>1, ClearedFiles DEF CleanUp, Open, Statuses
<1>9. CASE Sweep BY <1>9, ClearedFiles DEF Sweep, Open, Statuses
<1>10. CASE EndTask BY <1>10, EndFiles
<1>11. ASSUME NEW c \in Calls, NEW r, NEW k, Ask(c, r, k) PROVE FilesNext BY <1>1, <1>11 DEF Ask
<1>12. ASSUME NEW c \in Calls, CreateTask(c) PROVE FilesNext BY <1>1, <1>12 DEF CreateTask
<1>13. ASSUME NEW s \in DOMAIN records, Expire(s) PROVE FilesNext BY <1>1, <1>13 DEF Expire
<1>14. CASE UNCHANGED vars BY <1>1, <1>14 DEF vars
<1> QED BY <1>3, <1>4, <1>5, <1>6, <1>7, <1>8, <1>9, <1>10, <1>11, <1>12, <1>13, <1>14 DEF Next

--------------------------------------------------------------------------------
(* The kinds of steps, for what does not depend on the files *)

\* A request is refused, or the task ends: no transaction is under way.
Refuses(c) == calls[c].stage \in {"new", "asked"} /\ tx = None /\ Refuse(c)

Ends ==
    /\ tx = None /\ status' \in Statuses /\ (status = "deleted" => status' = "deleted")
    /\ UNCHANGED <<rows, tx, calls, records, torn, lapsed, failures>>

CallStep(c) ==
    \/ calls[c].stage \in {"new", "asked"} /\ Begins(c)
    \/ Refuses(c) \/ CreateTask(c) \/ CleanUp(c)
    \/ \E r \in Requests, k \in Keys : Ask(c, r, k)

Kinds ==
    \/ \E c \in Calls : CallStep(c)
    \/ \E s \in DOMAIN records : Expire(s)
    \/ Commit \/ Conflict \/ DatabaseFails \/ Crash \/ Ends
    \/ UNCHANGED vars

LEMMA NextKinds ==
  ASSUME IInv, [Next]_vars
  PROVE  Kinds
<1>1. ASSUME NEW c \in Calls, UploadFiles(c) \/ DeleteFile(c) \/ CommitInput(c) \/ DeleteTask(c)
      PROVE  CallStep(c)
  <2>1. calls[c].stage = "asked" /\ tx = None
    BY <1>1 DEF UploadFiles, DeleteFile, CommitInput, DeleteTask, Locks
  <2>2. CASE Refuse(c) BY <2>1, <2>2 DEF CallStep, Refuses
  <2>3. CASE ~ Refuse(c)
    BY <1>1, <2>1, <2>3, UploadBegins, DeleteBegins, CommitInputBegins, DeleteTaskBegins
    DEF CallStep
  <2> QED BY <2>2, <2>3
<1>2. ASSUME NEW c \in Calls, NEW n \in Names, RegisterOutput(c, n) PROVE CallStep(c)
  <2>1. calls[c].stage = "new" /\ tx = None BY <1>2 DEF RegisterOutput
  <2>2. CASE Refuse(c) BY <2>1, <2>2 DEF CallStep, Refuses
  <2>3. CASE ~ Refuse(c) BY <1>2, <2>1, <2>3, RegisterBegins DEF CallStep
  <2> QED BY <2>2, <2>3
<1>3. ASSUME NEW c \in Calls, NEW r \in Requests, NEW k \in Keys, Ask(c, r, k)
      PROVE  CallStep(c)
  BY <1>3 DEF CallStep
<1>4. ASSUME NEW c \in Calls, CreateTask(c) \/ CleanUp(c) PROVE CallStep(c)
  BY <1>4 DEF CallStep
<1>5. CASE EndTask \/ Sweep BY <1>5 DEF EndTask, Sweep, Ends, Statuses, Kinds
<1> QED BY <1>1, <1>2, <1>3, <1>4, <1>5 DEF Kinds, Next

--------------------------------------------------------------------------------
(* What the steps do to the calls and to the rows *)

CallsNext == calls' \in [Calls -> Call] /\ Progress'

LEMMA TransactionOf ==
  ASSUME IInv, tx # None
  PROVE  tx.call \in Calls /\ calls[tx.call].stage = "working" /\ calls[tx.call].result = None
<1>1. tx \in Transactions BY DEF IInv, TypeOK
<1>2. tx.call \in Calls BY <1>1 DEF Transactions
<1> QED BY <1>2 DEF IInv, Progress

LEMMA BeginMoves ==
  ASSUME IInv, NEW c \in Calls, calls[c].stage \in {"new", "asked"}, Begins(c)
  PROVE  /\ Moves(c, "working", None)
         /\ tx = None /\ tx' # None /\ tx'.call = c
         /\ UNCHANGED <<status, rows, records, torn, lapsed, failures>>
<1>1. PICK R, st, put, drop :
        tx = None /\ Work(c, R, st, put, drop) /\ Sound(R, st, put, drop, disk')
  BY DEF Begins
<1>2. calls[c].result = None BY DEF IInv, Progress
<1>3. Moves(c, "working", None) BY <1>1, <1>2, StageMoves DEF Work, IInv
<1>4. PICK T : T = [call |-> c, rows |-> R, status |-> st, put |-> put, drop |-> drop] OBVIOUS
<1>5. T \in Transactions /\ T.call = c BY <1>1, <1>4 DEF Transactions, Sound
<1>6. tx' = T BY <1>1, <1>4 DEF Work
<1> QED BY <1>1, <1>3, <1>5, <1>6, FilesAssumption DEF Work

\* The call of the transaction that commits has worked, or goes on to clean up.
LEMMA CommitMoves ==
  ASSUME IInv, Commit
  PROVE  /\ tx # None /\ tx' = None /\ tx.call \in Calls
         /\ calls[tx.call].stage = "working"
         /\ status # "deleted" /\ status' = tx.status
         /\ \/ Moves(tx.call, "answered", tx.call)
            \/ Moves(tx.call, "cleaning", None) /\ status' = "deleted"
<1>1. tx # None /\ tx' = None /\ status' = tx.status BY DEF Commit
<1>2. status # "deleted" BY <1>1 DEF IInv, Ready
<1>3. TypeOK BY DEF IInv
<1>4. PICK c : c = tx.call OBVIOUS
<1>5. c \in Calls /\ calls[c].stage = "working" /\ calls[c].result = None
  BY <1>1, <1>4, TransactionOf
<1>6. CASE tx.status = "deleted"
  <2>1. calls' = [calls EXCEPT ![c].stage = "cleaning"] BY <1>2, <1>4, <1>6 DEF Commit
  <2>2. Moves(c, "cleaning", None) BY <1>3, <1>5, <2>1, StageMoves
  <2> QED BY <1>1, <1>2, <1>4, <1>5, <1>6, <2>2
<1>7. CASE tx.status # "deleted"
  <2>1. Answer(c, c) BY <1>4, <1>7 DEF Commit
  <2>2. Moves(c, "answered", c) BY <1>3, <1>5, <2>1, AnswerMoves DEF Outcomes
  <2> QED BY <1>1, <1>2, <1>4, <1>5, <2>2
<1> QED BY <1>6, <1>7

LEMMA RollbackMoves ==
  ASSUME IInv, tx # None, NEW result \in {"conflict", "error"}, Rollback(result)
  PROVE  /\ tx' = None /\ tx.call \in Calls
         /\ Moves(tx.call, "answered", result)
         /\ UNCHANGED <<status, rows, records, lapsed>>
BY TransactionOf, AnswerMoves DEF Rollback, Outcomes, IInv

LEMMA CreateMoves ==
  ASSUME IInv, NEW c \in Calls, CreateTask(c)
  PROVE  /\ calls[c].stage = "asked"
         /\ \/ Moves(c, "answered", "conflict") /\ UNCHANGED records
            \/ Moves(c, "answered", c) /\ ~ Taken(c) /\ Store(c)
         /\ UNCHANGED <<status, rows, disk, tx, torn, lapsed, failures>>
BY AnswerMoves DEF CreateTask, Outcomes, IInv

LEMMA RefuseMoves ==
  ASSUME IInv, NEW c \in Calls, Refuses(c)
  PROVE  /\ Moves(c, "answered", "refused")
         /\ calls[c].stage \in {"new", "asked"} /\ tx = None
         /\ UNCHANGED <<status, rows, tx, records, lapsed, failures>>
BY AnswerMoves DEF Refuses, Refuse, Outcomes, IInv

LEMMA CleanMoves ==
  ASSUME IInv, NEW c \in Calls, CleanUp(c)
  PROVE  /\ Moves(c, "answered", c)
         /\ calls[c].stage = "cleaning" /\ tx = None
         /\ UNCHANGED <<status, rows, tx, records, lapsed, failures>>
<1>1. status = "deleted" BY DEF CleanUp, IInv, Progress
<1>2. tx = None BY <1>1 DEF IInv, Ready
<1> QED BY <1>2, AnswerMoves DEF CleanUp, Outcomes, IInv

LEMMA NextCalls ==
  ASSUME IInv, [Next]_vars
  PROVE  CallsNext
<1> Kinds BY NextKinds
<1>1. ASSUME NEW c \in Calls, CallStep(c) PROVE CallsNext
  <2>1. CASE calls[c].stage \in {"new", "asked"} /\ Begins(c)
    BY <2>1, BeginMoves DEF CallsNext, Moves, IInv, Progress
  <2>2. CASE Refuses(c)
    BY <2>2, RefuseMoves DEF CallsNext, Moves, IInv, Progress
  <2>3. CASE CreateTask(c)
    BY <2>3, CreateMoves DEF CallsNext, Moves, IInv, Progress
  <2>4. CASE CleanUp(c)
    BY <2>4, CleanMoves DEF CallsNext, Moves, IInv, Progress
  <2>5. ASSUME NEW r \in Requests, NEW k \in Keys, Ask(c, r, k) PROVE CallsNext
    <3>1. calls[c].stage = "new" BY <2>5 DEF Ask
    <3>2. PICK result : Asked(c, r, k, result) BY <2>5, AskMoves
    <3>3. tx' = tx /\ status' = status BY <2>5 DEF Ask
    <3> QED BY <3>1, <3>2, <3>3, FilesAssumption DEF CallsNext, Asked, IInv, Progress
  <2> QED BY <1>1, <2>1, <2>2, <2>3, <2>4, <2>5 DEF CallStep
<1>2. CASE Commit BY <1>2, CommitMoves DEF CallsNext, Moves, IInv, Progress
<1>3. ASSUME tx # None, NEW result \in {"conflict", "error"}, Rollback(result) PROVE CallsNext
  BY <1>3, RollbackMoves DEF CallsNext, Moves, IInv, Progress
<1>4. CASE Crash
  <2>1. tx' = None /\ status' = status BY <1>4 DEF Crash
  <2> QED BY <1>4, <2>1, CrashMoves DEF CallsNext, IInv, Progress
<1>5. CASE Ends BY <1>5 DEF Ends, CallsNext, IInv, TypeOK, Progress
<1>6. CASE UNCHANGED <<calls, tx, status>> BY <1>6 DEF CallsNext, IInv, TypeOK, Progress
<1> QED BY <1>1, <1>2, <1>3, <1>4, <1>5, <1>6 DEF Kinds, Conflict, DatabaseFails, Expire, vars

\* A request that is to begin, or has begun, never goes back.
Onward == \A c \in Calls :
    /\ calls'[c].stage = "new" => calls[c].stage = "new"
    /\ calls'[c].stage \in {"new", "asked"} => calls[c].stage \in {"new", "asked"}

LEMMA NextOnward ==
  ASSUME IInv, [Next]_vars
  PROVE  Onward
<1> Kinds BY NextKinds
<1>1. ASSUME NEW c \in Calls, CallStep(c) PROVE Onward
  <2>1. ASSUME NEW stage \in {"working", "cleaning", "answered"}, NEW result,
               Moves(c, stage, result)
        PROVE  Onward
    BY <2>1 DEF Moves, Onward
  <2>2. ASSUME NEW r \in Requests, NEW k \in Keys, Ask(c, r, k) PROVE Onward
    <3>1. calls[c].stage = "new" BY <2>2 DEF Ask
    <3>2. PICK result : Asked(c, r, k, result) BY <2>2, AskMoves
    <3> QED BY <3>1, <3>2 DEF Asked, Onward
  <2> QED BY <1>1, <2>1, <2>2, BeginMoves, RefuseMoves, CreateMoves, CleanMoves DEF CallStep
<1>2. CASE Commit BY <1>2, CommitMoves DEF Moves, Onward
<1>3. ASSUME tx # None, NEW result \in {"conflict", "error"}, Rollback(result) PROVE Onward
  BY <1>3, RollbackMoves DEF Moves, Onward
<1>4. CASE Crash BY <1>4, CrashMoves DEF Onward, IInv
<1>5. CASE UNCHANGED calls BY <1>5 DEF Onward
<1> QED BY <1>1, <1>2, <1>3, <1>4, <1>5
        DEF Kinds, Conflict, DatabaseFails, Expire, Ends, vars

LEMMA NextFresh ==
  ASSUME IInv, [Next]_vars
  PROVE  Fresh'
<1> Kinds BY NextKinds
<1>1. ASSUME rows' = rows, tx' = tx \/ tx' = None PROVE Fresh'
  BY <1>1, NextOnward DEF IInv, Fresh, FreshIn, Onward
<1>2. ASSUME NEW c \in Calls, CallStep(c) PROVE Fresh'
  <2>1. CASE calls[c].stage \in {"new", "asked"} /\ Begins(c)
    <3>1. PICK R, st, put, drop :
            /\ tx = None /\ Work(c, R, st, put, drop) /\ Sound(R, st, put, drop, disk')
            /\ \A f \in Files : R[f] = rows[f] \/ rows[f] # "none" \/ f[1] = c
      BY <2>1 DEF Begins
    <3>2. PICK T : T = [call |-> c, rows |-> R, status |-> st, put |-> put, drop |-> drop] OBVIOUS
    <3>3. tx' = T /\ T.rows = R /\ rows' = rows BY <3>1, <3>2 DEF Work
    <3>4. calls'[c].stage = "working" BY <2>1, BeginMoves DEF Moves
    <3>5. ASSUME NEW d \in Calls, calls'[d].stage \in {"new", "asked"}, NEW n \in Names
          PROVE  rows[<<d, n>>] = "none" /\ R[<<d, n>>] = "none"
      <4>1. d # c /\ calls[d].stage \in {"new", "asked"} BY <3>4, <3>5, NextOnward DEF Onward
      <4>2. <<d, n>> \in Files BY DEF Files
      <4>3. rows[<<d, n>>] = "none" BY <4>1 DEF IInv, Fresh, FreshIn
      <4> QED BY <3>1, <4>1, <4>2, <4>3
    <3> QED BY <3>3, <3>5 DEF Fresh, FreshIn
  <2> QED BY <1>1, <1>2, <2>1, RefuseMoves, CreateMoves, CleanMoves DEF CallStep, Ask
<1>3. CASE Commit
  <2>1. tx # None /\ tx' = None /\ rows' = tx.rows BY <1>3 DEF Commit
  <2> QED BY <2>1, NextOnward DEF IInv, Fresh, FreshIn, Onward
<1>4. CASE Conflict \/ DatabaseFails \/ Crash
  BY <1>1, <1>4 DEF Conflict, DatabaseFails, Rollback, Crash
<1> QED BY <1>1, <1>2, <1>3, <1>4 DEF Kinds, Expire, Ends, vars

--------------------------------------------------------------------------------
(* What the steps do to the records *)

RecordsTyped ==
    /\ \A s \in DOMAIN records :
         records[s] \in [request : Requests, result : Calls, expired : BOOLEAN]
    /\ lapsed \subseteq Calls

RecordsNext == RecordsTyped' /\ Recorded'

\* Records may go when they have expired; no call becomes effective.
LEMMA RecordsStay ==
  ASSUME IInv, [Next]_vars, lapsed' = lapsed,
         \A s \in DOMAIN records' : s \in DOMAIN records /\ records'[s] = records[s],
         \A s \in DOMAIN records : ~ records[s].expired => s \in DOMAIN records',
         \A c \in Calls : Effective(c)' => Effective(c) /\ Slot(c)' = Slot(c)
  PROVE  RecordsNext
<1>1. RecordsTyped' BY DEF RecordsTyped, IInv, TypeOK
<1>2. ASSUME NEW s \in DOMAIN records' PROVE calls'[records'[s].result].stage # "new"
  BY <1>2, NextOnward DEF IInv, TypeOK, Recorded, Onward
<1>3. ASSUME NEW c \in Calls, Effective(c)'
      PROVE  c \in lapsed \/ (Slot(c) \in DOMAIN records' /\ records'[Slot(c)].result = c
                              /\ ~ records'[Slot(c)].expired)
  BY <1>3 DEF IInv, Recorded
<1>4. ASSUME NEW c \in Calls, Effective(c)' PROVE Slot(c)' = Slot(c) BY <1>4
<1>5. Recorded' BY <1>2, <1>3, <1>4 DEF Recorded
<1> QED BY <1>1, <1>5 DEF RecordsNext

\* The call that works stores its record, which no live one stands in the way of.
LEMMA RecordsGrow ==
  ASSUME IInv, [Next]_vars, NEW c \in Calls, lapsed' = lapsed,
         Store(c), ~ Taken(c), calls[c].request \in Requests,
         NEW stage \in {"answered", "cleaning"}, NEW result, Moves(c, stage, result)
  PROVE  RecordsNext
<1>1. PICK q : q = [request |-> calls[c].request, result |-> c, expired |-> FALSE] OBVIOUS
<1>2. PICK s0 : s0 = Slot(c) OBVIOUS
<1>3. /\ \A s : s \in DOMAIN records' <=> s \in DOMAIN records \/ s = s0
      /\ \A s \in DOMAIN records' : records'[s] = IF s = s0 THEN q ELSE records[s]
  BY <1>1, <1>2 DEF Store
<1>4. /\ q \in [request : Requests, result : Calls, expired : BOOLEAN]
      /\ q.result = c /\ q.expired = FALSE
  BY <1>1
<1>5. RecordsTyped' BY <1>3, <1>4 DEF RecordsTyped, IInv, TypeOK
<1>6. ASSUME NEW s \in DOMAIN records' PROVE calls'[records'[s].result].stage # "new"
  <2>1. CASE s = s0 BY <1>3, <1>4, <2>1 DEF Moves
  <2>2. CASE s # s0
    BY <1>3, <2>2, NextOnward DEF IInv, TypeOK, Recorded, Onward
  <2> QED BY <2>1, <2>2
<1>7. ASSUME NEW d \in Calls PROVE Slot(d)' = Slot(d)
  BY DEF Slot, Route, Moves
<1>8. ASSUME NEW d \in Calls, Effective(d)'
      PROVE  d \in lapsed \/ (Slot(d) \in DOMAIN records' /\ records'[Slot(d)].result = d
                              /\ ~ records'[Slot(d)].expired)
  <2>1. CASE d = c BY <1>2, <1>3, <1>4, <2>1
  <2>2. CASE d # c
    <3>1. Effective(d) BY <1>8, <2>2 DEF Effective, Keyed, Moves
    <3>2. CASE d \in lapsed BY <3>2
    <3>3. CASE d \notin lapsed
      <4>1. /\ Slot(d) \in DOMAIN records /\ records[Slot(d)].result = d
            /\ ~ records[Slot(d)].expired
        BY <3>1, <3>3 DEF IInv, Recorded
      <4>2. Slot(d) # s0 BY <1>2, <4>1 DEF Taken
      <4> QED BY <1>3, <4>1, <4>2
    <3> QED BY <3>2, <3>3
  <2> QED BY <2>1, <2>2
<1>9. Recorded' BY <1>6, <1>7, <1>8 DEF Recorded
<1> QED BY <1>5, <1>9 DEF RecordsNext

LEMMA RecordsExpire ==
  ASSUME IInv, [Next]_vars, NEW s \in DOMAIN records, Expire(s)
  PROVE  RecordsNext
<1>1. PICK q : q = [records[s] EXCEPT !.expired = TRUE] OBVIOUS
<1>2. records[s] \in [request : Requests, result : Calls, expired : BOOLEAN] BY DEF IInv, TypeOK
<1>3. /\ q \in [request : Requests, result : Calls, expired : BOOLEAN]
      /\ q.result = records[s].result
  BY <1>1, <1>2
<1>4. records' = [records EXCEPT ![s] = q] BY <1>1 DEF Expire
<1>5. /\ DOMAIN records' = DOMAIN records
      /\ \A t \in DOMAIN records : records'[t] = IF t = s THEN q ELSE records[t]
  BY <1>4
<1>6. calls' = calls /\ lapsed' = lapsed \cup {records[s].result} BY DEF Expire
<1>7. RecordsTyped' BY <1>2, <1>3, <1>5, <1>6 DEF RecordsTyped, IInv, TypeOK
<1>8. ASSUME NEW t \in DOMAIN records' PROVE calls'[records'[t].result].stage # "new"
  BY <1>3, <1>5, <1>6 DEF IInv, Recorded
<1>9. ASSUME NEW c \in Calls PROVE Slot(c)' = Slot(c) /\ (Effective(c)' <=> Effective(c))
  BY <1>6 DEF Slot, Effective, Keyed
<1>10. ASSUME NEW c \in Calls, Effective(c)
       PROVE  c \in lapsed' \/ (Slot(c) \in DOMAIN records' /\ records'[Slot(c)].result = c
                                /\ ~ records'[Slot(c)].expired)
  BY <1>5, <1>6, <1>10 DEF IInv, Recorded
<1>11. Recorded' BY <1>8, <1>9, <1>10 DEF Recorded
<1> QED BY <1>7, <1>11 DEF RecordsNext

LEMMA NextRecords ==
  ASSUME IInv, [Next]_vars
  PROVE  RecordsNext
<1> Kinds BY NextKinds
<1>1. ASSUME NEW c \in Calls, NEW stage \in {"working", "answered"}, NEW result, result \notin Calls,
             Moves(c, stage, result), lapsed' = lapsed, records' = records
      PROVE  RecordsNext
  <2>1. ASSUME NEW d \in Calls, Effective(d)' PROVE Effective(d) /\ Slot(d)' = Slot(d)
    BY <1>1, <2>1 DEF Effective, Keyed, Slot, Moves
  <2> QED BY <1>1, <2>1, RecordsStay
<1>2. None \notin Calls /\ "refused" \notin Calls /\ "conflict" \notin Calls /\ "error" \notin Calls
  BY FilesAssumption
<1>3. ASSUME NEW c \in Calls, CallStep(c) PROVE RecordsNext
  <2>1. CASE calls[c].stage \in {"new", "asked"} /\ Begins(c)
    BY <1>1, <1>2, <2>1, BeginMoves
  <2>2. CASE Refuses(c) BY <1>1, <1>2, <2>2, RefuseMoves
  <2>3. CASE CreateTask(c)
    <3>1. CASE Moves(c, "answered", "conflict") /\ UNCHANGED records
      BY <1>1, <1>2, <2>3, <3>1, CreateMoves
    <3>2. CASE Moves(c, "answered", c) /\ ~ Taken(c) /\ Store(c)
      <4>1. calls[c].request \in Requests
        BY <2>3, CreateMoves DEF IInv, TypeOK, Call, Progress
      <4>2. lapsed' = lapsed BY <2>3 DEF CreateTask
      <4> QED BY <3>2, <4>1, <4>2, RecordsGrow
    <3> QED BY <2>3, <3>1, <3>2, CreateMoves
  <2>4. CASE CleanUp(c)
    <3>1. /\ Moves(c, "answered", c) /\ calls[c].stage = "cleaning"
          /\ records' = records /\ lapsed' = lapsed
      BY <2>4, CleanMoves
    <3>2. ASSUME NEW d \in Calls, Effective(d)' PROVE Effective(d) /\ Slot(d)' = Slot(d)
      BY <3>1, <3>2 DEF Effective, Keyed, Slot, Moves
    <3> QED BY <3>1, <3>2, RecordsStay
  <2>5. ASSUME NEW r \in Requests, NEW k \in Keys, Ask(c, r, k) PROVE RecordsNext
    <3>1. PICK slot : slot = <<Route(r), k>> OBVIOUS
    <3>2. PICK result : /\ Asked(c, r, k, result)
                        /\ result = IF ~ Hit(slot) THEN None
                                    ELSE IF records[slot].request = r THEN records[slot].result
                                    ELSE "conflict"
      BY <2>5, <3>1, AskMoves
    <3>3. calls[c].stage = "new" BY <2>5 DEF Ask
    <3>4. result # c
      BY <1>2, <3>2, <3>3 DEF Hit, IInv, Recorded
    <3>5. ASSUME NEW d \in Calls, Effective(d)' PROVE Effective(d) /\ Slot(d)' = Slot(d)
      <4>1. d # c BY <3>2, <3>4, <3>5 DEF Effective, Asked
      <4> QED BY <3>2, <3>5, <4>1 DEF Effective, Keyed, Slot, Asked
    <3>6. lapsed' = lapsed BY <2>5 DEF Ask
    <3>7. records' = IF Hit(slot) THEN records
                     ELSE [s \in {s \in DOMAIN records : ~ records[s].expired} |-> records[s]]
      BY <2>5, <3>1 DEF Ask, Hit
    <3>8. /\ \A s \in DOMAIN records' : s \in DOMAIN records /\ records'[s] = records[s]
          /\ \A s \in DOMAIN records : ~ records[s].expired => s \in DOMAIN records'
      BY <3>7
    <3> QED BY <3>5, <3>6, <3>8, RecordsStay
  <2> QED BY <1>3, <2>1, <2>2, <2>3, <2>4, <2>5 DEF CallStep
<1>4. CASE Commit
  <2>1. PICK c : c = tx.call OBVIOUS
  <2>2. c \in Calls /\ lapsed' = lapsed BY <1>4, <2>1, CommitMoves DEF Commit
  <2>3. \/ Moves(c, "answered", c)
        \/ Moves(c, "cleaning", None)
    BY <1>4, <2>1, CommitMoves
  <2>4. CASE Keyed(c)
    <3>1. ~ Taken(c) /\ Store(c) BY <1>4, <2>1, <2>4 DEF Commit
    <3>2. calls[c].request \in Requests BY <2>2, <2>4 DEF Keyed, IInv, TypeOK, Call
    <3> QED BY <2>2, <2>3, <3>1, <3>2, RecordsGrow
  <2>5. CASE ~ Keyed(c)
    <3>1. records' = records BY <1>4, <2>1, <2>5 DEF Commit
    <3>2. ASSUME NEW d \in Calls, Effective(d)' PROVE Effective(d) /\ Slot(d)' = Slot(d)
      BY <2>3, <2>5, <3>2 DEF Effective, Keyed, Slot, Moves
    <3> QED BY <2>2, <3>1, <3>2, RecordsStay
  <2> QED BY <2>4, <2>5
<1>5. ASSUME tx # None, NEW result \in {"conflict", "error"}, Rollback(result)
      PROVE  RecordsNext
  BY <1>1, <1>2, <1>5, RollbackMoves
<1>6. CASE Crash
  <2>1. records' = records /\ lapsed' = lapsed BY <1>6 DEF Crash
  <2>2. ASSUME NEW d \in Calls, Effective(d)' PROVE Effective(d) /\ Slot(d)' = Slot(d)
    BY <1>2, <1>6, <2>2, CrashMoves DEF Effective, Keyed, Slot, IInv
  <2> QED BY <2>1, <2>2, RecordsStay
<1>7. CASE UNCHANGED <<calls, records, lapsed>>
  <2>1. ASSUME NEW d \in Calls, Effective(d)' PROVE Effective(d) /\ Slot(d)' = Slot(d)
    BY <1>7, <2>1 DEF Effective, Keyed, Slot
  <2> QED BY <1>7, <2>1, RecordsStay
<1> QED BY <1>3, <1>4, <1>5, <1>6, <1>7, RecordsExpire
        DEF Kinds, Conflict, DatabaseFails, Ends, vars

--------------------------------------------------------------------------------
(* The invariant holds *)

LEMMA InitInvariant == Init => IInv
<1> SUFFICES ASSUME Init PROVE IInv OBVIOUS
<1>1. PICK f \in {Past} \X Names, start \in {"uploading", "running"} :
        /\ status = start
        /\ rows = [g \in Files |-> IF g # f THEN "none"
                                   ELSE IF start = "uploading" THEN "staged" ELSE "registered"]
        /\ disk = At(IF start = "uploading" THEN {"input"} ELSE {"output", "artifact"}, {f})
  BY DEF Init
<1>2. f \in Files BY <1>1 DEF Files
<1>3. /\ rows \in [Files -> RowStates]
      /\ \A g \in Files : rows[g] = IF g # f THEN "none"
                                    ELSE IF start = "uploading" THEN "staged" ELSE "registered"
  BY <1>1 DEF RowStates, Live
<1>4. /\ disk \subseteq Places \X Files
      /\ \A p, g : <<p, g>> \in disk <=>
           g = f /\ p \in (IF start = "uploading" THEN {"input"} ELSE {"output", "artifact"})
  BY <1>1, <1>2 DEF At, Places
<1>5. tx = None /\ torn = {} /\ lapsed = {} /\ failures = 0 BY DEF Init
<1>6. /\ calls \in [Calls -> Call]
      /\ \A c \in Calls : calls[c].stage = "new" /\ calls[c].request = None /\ calls[c].result = None
  BY DEF Init, Call
<1>7. DOMAIN records = {} BY DEF Init
<1>8. TypeOK
  <2>1. failures \in 0 .. MaxFailures BY <1>5, FilesAssumption
  <2>2. status \in Statuses BY <1>1 DEF Statuses
  <2>3. \A s \in DOMAIN records :
          records[s] \in [request : Requests, result : Calls, expired : BOOLEAN]
    BY <1>7
  <2>4. tx \in Transactions \cup {None} /\ torn \subseteq Files /\ lapsed \subseteq Calls BY <1>5
  <2> QED BY <1>3, <1>4, <1>6, <2>1, <2>2, <2>3, <2>4 DEF TypeOK
<1>9. Stored
  <2>1. Unique(rows) BY <1>3 DEF Unique, SameSide
  <2>2. Kept(rows, disk, torn \cup Drops) BY <1>2, <1>3, <1>4 DEF Kept, Live, Place
  <2>3. Rowed(rows, disk, torn \cup Puts) BY <1>2, <1>3, <1>4 DEF Rowed, Live, Place
  <2> QED BY <2>1, <2>2, <2>3 DEF Stored
<1>10. Ready BY <1>5 DEF Ready
<1>11. Fresh
  <2>1. ASSUME NEW c \in Calls, NEW n \in Names PROVE rows[<<c, n>>] = "none"
    BY <1>1, <1>3, FilesAssumption DEF Files
  <2> QED BY <1>5, <2>1 DEF Fresh, FreshIn
<1>12. Progress BY <1>5, <1>6 DEF Progress
<1>13. Recorded BY <1>6, <1>7 DEF Recorded, Effective, Keyed
<1> QED BY <1>8, <1>9, <1>10, <1>11, <1>12, <1>13 DEF IInv

LEMMA NextInvariant == IInv /\ [Next]_vars => IInv'
<1> SUFFICES ASSUME IInv, [Next]_vars PROVE IInv' OBVIOUS
<1>1. FilesNext /\ CallsNext /\ Fresh' /\ RecordsNext
  BY NextFiles, NextCalls, NextFresh, NextRecords
<1>2. failures' \in 0 .. MaxFailures
  <2>1. failures \in 0 .. MaxFailures /\ MaxFailures \in Nat
    BY FilesAssumption DEF IInv, TypeOK
  <2>2. failures' = failures \/ (failures < MaxFailures /\ failures' = failures + 1)
    <3>1. Kinds BY NextKinds
    <3>2. ASSUME NEW c \in Calls, CallStep(c) PROVE failures' = failures
      BY <3>2, BeginMoves, RefuseMoves, CreateMoves, CleanMoves DEF CallStep, Ask
    <3> QED BY <3>1, <3>2
            DEF Kinds, Expire, Commit, Conflict, DatabaseFails, Crash, Ends, vars
  <2> QED BY <2>1, <2>2
<1>3. TypeOK'
  BY <1>1, <1>2 DEF FilesNext, FilesTyped, CallsNext, RecordsNext, RecordsTyped, TypeOK
<1> QED BY <1>1, <1>3 DEF FilesNext, CallsNext, RecordsNext, IInv

--------------------------------------------------------------------------------
(* The theorems *)

\* Whatever requests, sweeps, failures and crashes do, each variable keeps to its type: a
\* transaction is there or not, and a request has got to one stage of its path.
THEOREM TypeCorrect == Spec => []TypeOK
<1>1. IInv => TypeOK BY DEF IInv
<1> QED BY InitInvariant, NextInvariant, <1>1, PTL DEF Spec

\* _write_physical and register_output: for any number of requests, names and failures, a row
\* that can be listed has its files, but for those a rollback or a crash tore off or the
\* transaction that is under way has dropped.
THEOREM RowsKeepFiles == Spec => []RowsHaveFiles
<1>1. IInv => RowsHaveFiles
  <2> SUFFICES ASSUME IInv, Open(status), NEW f \in Inputs \cup Outputs
               PROVE  At(Where(f), {f}) \subseteq disk \/ f \in torn \/ (tx # None /\ f \in tx.drop)
    BY DEF RowsHaveFiles, Open
  <2>1. f \in Files /\ rows[f] \in Live BY DEF Inputs, Outputs, Live
  <2>2. f \in torn \cup Drops \/ \A p \in Place(rows[f]) : <<p, f>> \in disk
    BY <2>1 DEF IInv, Stored, Kept
  <2>3. Where(f) = Place(rows[f]) BY DEF Where, Place
  <2> QED BY <2>2, <2>3 DEF At, Drops
<1> QED BY InitInvariant, NextInvariant, <1>1, PTL DEF Spec

\* "no row, no file": every file there is has its live row, was torn off, or is of the
\* transaction that is under way.
THEOREM FilesKeepRows == Spec => []FilesHaveRows
<1>1. IInv => FilesHaveRows
  <2> SUFFICES ASSUME IInv, NEW d \in disk
               PROVE  rows[d[2]] \in Live \/ d[2] \in torn \/ (tx # None /\ d[2] \in tx.put)
    BY DEF FilesHaveRows
  <2>1. d[1] \in Places /\ d[2] \in Files /\ d = <<d[1], d[2]>> BY DEF IInv, TypeOK
  <2>2. d[2] \in torn \cup Puts \/ rows[d[2]] \in Live
    BY <2>1 DEF IInv, Stored, Rowed
  <2> QED BY <2>2 DEF Puts
<1> QED BY InitInvariant, NextInvariant, <1>1, PTL DEF Spec

\* upload_files and register_output: no two live rows of one side ever have one name, which
\* the lock on the task row gives though no unique index does.
THEOREM NamesStayUnique == Spec => []NamesAreUnique
<1>1. IInv => NamesAreUnique
  <2>1. ASSUME IInv PROVE Unique(rows) BY <2>1 DEF IInv, Stored
  <2>2. ASSUME IInv, NEW f \in Inputs, NEW g \in Inputs, Name(f) = Name(g) PROVE f = g
    BY <2>1, <2>2 DEF Unique, SameSide, Inputs
  <2>3. ASSUME IInv, NEW f \in Outputs, NEW g \in Outputs, Name(f) = Name(g) PROVE f = g
    BY <2>1, <2>3 DEF Unique, SameSide, Outputs
  <2> QED BY <2>2, <2>3 DEF NamesAreUnique
<1> QED BY InitInvariant, NextInvariant, <1>1, PTL DEF Spec

\* begin and store: any number of requests under one key have one effect, however lookups,
\* commits, conflicts and crashes interleave, until the record of the first expires.
THEOREM KeysAreExclusive == Spec => []OneEffectPerKey
<1>1. IInv => OneEffectPerKey
  <2> SUFFICES ASSUME IInv, NEW c \in Calls, NEW d \in Calls, Worked(c), Worked(d),
                      Slot(c) = Slot(d), c \notin lapsed, d \notin lapsed
               PROVE  c = d
    BY DEF OneEffectPerKey
  <2>1. Effective(c) /\ Effective(d) BY DEF Worked, Effective
  <2> QED BY <2>1 DEF IInv, Recorded
<1> QED BY InitInvariant, NextInvariant, <1>1, PTL DEF Spec

================================================================================
