-------------------------------- MODULE TaskFiles --------------------------------
(***************************************************************************)
(* The files of one task beside their rows, and the idempotent requests    *)
(* that change them.  A request looks its key up in a transaction of its   *)
(* own; it then locks the task, works, stores its answer under the key and *)
(* commits.  The file system takes part in no transaction: files appear    *)
(* and vanish while the lock is held, before the outcome is known, except  *)
(* that those of a deleted task go after the commit.  Sizes, quotas and    *)
(* the ledger are in TaskStore.                                            *)
(***************************************************************************)
EXTENDS Naturals, FiniteSets

CONSTANTS
    Calls,        \* requests; each is made once, a repetition is another call
    Names,        \* file names, normalised
    Keys,         \* idempotency keys
    Past,         \* stands for the call that put the file there is at the start
    None,
    MaxFailures   \* bound: transactions that fail at their end, and crashes

VARIABLES
    status,       \* tasks.status, as far as files depend on it
    rows,         \* task_files: the state of each row
    disk,         \* the files below tasks/<id> and artifacts/<id>
    tx,           \* the transaction that holds the lock of the task row
    calls,        \* what each request has got to
    records,      \* idempotency_records
    torn,         \* observer: files a rollback or a crash left unlike their rows
    lapsed,       \* observer: the calls whose record has expired
    failures

vars == <<status, rows, disk, tx, calls, records, torn, lapsed, failures>>

Files   == (Calls \cup {Past}) \X Names      \* uuid7: every call makes files of its own
Places  == {"input", "output", "artifact"}
Name(f) == f[2]

Live     == {"staged", "committed", "registered"}
Inputs   == {f \in Files : rows[f] \in {"staged", "committed"}}
Outputs  == {f \in Files : rows[f] = "registered"}
Where(f) == IF rows[f] = "registered" THEN {"output", "artifact"} ELSE {"input"}
At(places, fs) == places \X fs

Requests ==
    [op : {"upload"}, of : (SUBSET Names) \ {{}}]
      \cup [op : {"delete"}, of : Files]
      \cup [op : {"create", "commit", "remove"}, of : {None}]

Call == [stage   : {"new", "asked", "working", "cleaning", "answered"},
         request : Requests \cup {None},
         key     : Keys \cup {None},
         result  : Calls \cup {None, "refused", "conflict", "error"}]

RowStates == Live \cup {"none", "deleted"}
Statuses  == {"uploading", "running", "ended", "swept", "deleted"}

Transactions == [call : Calls, rows : [Files -> RowStates], status : Statuses,
                 put : SUBSET Files, drop : SUBSET Files]

ASSUME FilesAssumption ==
    /\ Past \notin Calls /\ None \notin Calls
    /\ "refused" \notin Calls /\ "conflict" \notin Calls /\ "error" \notin Calls
    /\ None \notin {"refused", "conflict", "error"}
    /\ None \notin Requests /\ None \notin Transactions
    /\ MaxFailures \in Nat

\* The path of a request; what is uploaded is in its body.
Route(r) == <<r.op, IF r.op = "delete" THEN r.of ELSE None>>

--------------------------------------------------------------------------------
(* Keys *)

Slot(c) == <<Route(calls[c].request), calls[c].key>>

Answer(c, result) == calls' = [calls EXCEPT ![c].stage = "answered", ![c].result = result]

\* begin: the answer is repeated whatever the state of the task has become since.
Ask(c, r, k) ==
    /\ calls[c].stage = "new"
    /\ LET slot == <<Route(r), k>>
           call == [calls[c] EXCEPT !.request = r, !.key = k]
       IN IF slot \in DOMAIN records /\ ~ records[slot].expired
          THEN calls' = [calls EXCEPT ![c] =
                 [call EXCEPT !.stage = "answered",
                              !.result = IF records[slot].request = r THEN records[slot].result
                                         ELSE "conflict"]]
          ELSE calls' = [calls EXCEPT ![c] = [call EXCEPT !.stage = "asked"]]
    \* a miss deletes every expired row, in a transaction that commits
    /\ records' = IF <<Route(r), k>> \in DOMAIN records /\ ~ records[<<Route(r), k>>].expired
                  THEN records
                  ELSE [s \in {s \in DOMAIN records : ~ records[s].expired} |-> records[s]]
    /\ UNCHANGED <<status, rows, disk, tx, torn, lapsed, failures>>

\* 24 hours pass.
Expire(s) ==
    /\ ~ records[s].expired
    /\ records' = [records EXCEPT ![s].expired = TRUE]
    /\ lapsed' = lapsed \cup {records[s].result}
    /\ UNCHANGED <<status, rows, disk, tx, calls, torn, failures>>

\* Mutant of Taken: the unique index is not there.
BugNoIndex(c) == FALSE

\* store: an expired row goes, a live one (written since the lookup) violates the index.
Taken(c) == Slot(c) \in DOMAIN records /\ ~ records[Slot(c)].expired

Store(c) ==
    records' = [s \in DOMAIN records \cup {Slot(c)} |->
                  IF s = Slot(c) THEN [request |-> calls[c].request, result |-> c, expired |-> FALSE]
                  ELSE records[s]]

\* create_task locks no row that a repetition would wait for: only the index decides.
CreateTask(c) ==
    /\ calls[c].stage = "asked" /\ calls[c].request.op = "create"
    /\ IF Taken(c) THEN Answer(c, "conflict") /\ UNCHANGED records
       ELSE Answer(c, c) /\ Store(c)
    /\ UNCHANGED <<status, rows, disk, tx, torn, lapsed, failures>>

--------------------------------------------------------------------------------
(* Work under the lock of the task row *)

Locks(c, op) == calls[c].stage = "asked" /\ calls[c].request.op = op /\ tx = None

Refuse(c) ==
    /\ Answer(c, "refused")
    /\ UNCHANGED <<status, rows, disk, tx, records, torn, lapsed, failures>>

\* The rows a transaction is going to write, and the files it has put and dropped.
Work(c, newRows, newStatus, put, drop) ==
    /\ tx' = [call |-> c, rows |-> newRows, status |-> newStatus, put |-> put, drop |-> drop]
    /\ calls' = [calls EXCEPT ![c].stage = "working"]
    /\ UNCHANGED <<status, rows, records, torn, lapsed, failures>>

Batch(c) == {c} \X calls[c].request.of

\* Mutant of NameTaken: names are compared within the batch only.
BugBatchOnly(c) == FALSE

NameTaken(c) == \E f \in Inputs : Name(f) \in calls[c].request.of

\* upload_files: staged and renamed before the rows are written.  An error of the file
\* system takes everything back.
UploadFiles(c) ==
    /\ Locks(c, "upload")
    /\ \/ Refuse(c)
       \/ /\ status = "uploading" /\ ~ NameTaken(c)
          /\ disk' = disk \cup At({"input"}, Batch(c))
          /\ Work(c, [f \in Files |-> IF f \in Batch(c) THEN "staged" ELSE rows[f]], status, Batch(c), {})

\* delete_file: the file is unlinked before the commit.
DeleteFile(c) ==
    /\ Locks(c, "delete")
    /\ LET f == calls[c].request.of IN
         IF status = "uploading" /\ rows[f] = "staged"
         THEN /\ disk' = disk \ At({"input"}, {f})
              /\ Work(c, [rows EXCEPT ![f] = "deleted"], status, {}, {f})
         ELSE Refuse(c)

CommitInput(c) ==
    /\ Locks(c, "commit")
    /\ IF status = "uploading"
       THEN /\ Work(c, [f \in Files |-> IF rows[f] = "staged" THEN "committed" ELSE rows[f]],
                    "running", {}, {})
            /\ UNCHANGED disk
       ELSE Refuse(c)

\* Mutant of DeleteTask: the files go before the commit, as those of delete_file do.
BugCleansFirst(c) ==
    /\ Locks(c, "remove")
    /\ IF status # "deleted" THEN Work(c, rows, "deleted", {}, {}) /\ disk' = {} ELSE Refuse(c)

DeleteTask(c) ==
    /\ Locks(c, "remove")
    /\ IF status # "deleted"
       THEN Work(c, rows, "deleted", {}, {}) /\ UNCHANGED disk
       ELSE Refuse(c)

\* Mutant of RegisterOutput: the files of the replaced row stay.
BugOldKept(c, n) ==
    /\ calls[c].stage = "new" /\ tx = None /\ status = "running"
    /\ disk' = disk \cup At({"output", "artifact"}, {<<c, n>>})
    /\ Work(c, [f \in Files |-> IF f = <<c, n>> THEN "registered"
                               ELSE IF f \in Outputs /\ Name(f) = n THEN "deleted" ELSE rows[f]],
            status, {<<c, n>>}, {})

\* register_output, from a container: no key.  The files of a row it replaces are
\* unlinked before the commit as well; a quota may refuse it.
RegisterOutput(c, n) ==
    /\ calls[c].stage = "new" /\ tx = None
    /\ \/ Refuse(c)
       \/ /\ status = "running"
          /\ LET new == <<c, n>>
                 old == {f \in Outputs : Name(f) = n}
             IN /\ disk' = (disk \cup At({"output", "artifact"}, {new})) \ At({"output", "artifact"}, old)
                /\ Work(c, [f \in Files |-> IF f = new THEN "registered"
                                            ELSE IF f \in old THEN "deleted" ELSE rows[f]],
                        status, {new}, old)

--------------------------------------------------------------------------------
(* The end of a transaction *)

Keyed(c) == calls[c].request # None

Commit ==
    /\ tx # None
    /\ LET c == tx.call IN
         /\ Keyed(c) => ~ Taken(c)
         /\ IF Keyed(c) THEN Store(c) ELSE UNCHANGED records
         /\ rows' = tx.rows /\ status' = tx.status
         /\ IF status # "deleted" /\ tx.status = "deleted"
            THEN calls' = [calls EXCEPT ![c].stage = "cleaning"]
            ELSE Answer(c, c)
    /\ tx' = None
    /\ UNCHANGED <<disk, torn, lapsed, failures>>

Rollback(result) ==
    /\ Answer(tx.call, result)
    /\ torn' = torn \cup tx.put \cup tx.drop
    /\ tx' = None
    /\ UNCHANGED <<status, rows, disk, records, lapsed>>

\* store finds the key taken, or the database fails at the flush or the commit.
Conflict ==
    /\ tx # None /\ Keyed(tx.call) /\ Taken(tx.call)
    /\ Rollback("conflict")
    /\ UNCHANGED failures

DatabaseFails ==
    /\ tx # None
    /\ failures < MaxFailures /\ failures' = failures + 1
    /\ Rollback("error")

\* The route of delete_task goes on after its commit: delete_task_storage.
CleanUp(c) ==
    /\ calls[c].stage = "cleaning"
    /\ disk' = {}
    /\ Answer(c, c)
    /\ UNCHANGED <<status, rows, tx, records, torn, lapsed, failures>>

\* The process dies: what was not committed is rolled back, what was to follow is lost;
\* it may not even have put all its files.
Crash ==
    /\ failures < MaxFailures /\ failures' = failures + 1
    /\ IF tx = None THEN UNCHANGED <<torn, disk>>
       ELSE /\ torn' = torn \cup tx.put \cup tx.drop
            /\ \E missing \in SUBSET tx.put : disk' = disk \ At(Places, missing)
    /\ tx' = None
    /\ calls' = [c \in Calls |-> IF calls[c].stage \in {"asked", "working", "cleaning"}
                                 THEN [calls[c] EXCEPT !.stage = "answered", !.result = "error"]
                                 ELSE calls[c]]
    /\ UNCHANGED <<status, rows, records, lapsed>>

\* The executor settles the last round.
EndTask ==
    /\ status = "running" /\ tx = None
    /\ status' = "ended"
    /\ UNCHANGED <<rows, disk, tx, calls, records, torn, lapsed, failures>>

\* Mutant of Sweep: deleted tasks are left to their route.
BugSweepEnded ==
    /\ status = "ended"
    /\ status' = "swept" /\ disk' = {}
    /\ UNCHANGED <<rows, tx, calls, records, torn, lapsed, failures>>

\* sweep_terminal_cleanup: the rows of the files stay.
Sweep ==
    /\ status \in {"ended", "deleted"} /\ tx = None
    /\ status' = IF status = "ended" THEN "swept" ELSE status
    /\ disk' = {}
    /\ UNCHANGED <<rows, tx, calls, records, torn, lapsed, failures>>

--------------------------------------------------------------------------------
Init ==
    /\ \E f \in {Past} \X Names, start \in {"uploading", "running"} :
         /\ status = start
         /\ rows = [g \in Files |-> IF g # f THEN "none"
                                    ELSE IF start = "uploading" THEN "staged" ELSE "registered"]
         /\ disk = At(IF start = "uploading" THEN {"input"} ELSE {"output", "artifact"}, {f})
    /\ tx = None
    /\ calls = [c \in Calls |-> [stage |-> "new", request |-> None, key |-> None, result |-> None]]
    /\ records = [s \in {} |-> None]
    /\ torn = {} /\ lapsed = {} /\ failures = 0

Next ==
    \/ \E c \in Calls :
         \/ \E r \in Requests, k \in Keys : (r.op = "delete" => rows[r.of] # "none") /\ Ask(c, r, k)
         \/ CreateTask(c) \/ UploadFiles(c) \/ DeleteFile(c) \/ CommitInput(c) \/ DeleteTask(c)
         \/ \E n \in Names : RegisterOutput(c, n)
         \/ CleanUp(c)
    \/ \E s \in DOMAIN records : Expire(s)
    \/ Commit \/ Conflict \/ DatabaseFails \/ Crash
    \/ EndTask \/ Sweep

Spec == Init /\ [][Next]_vars

\* The sweep is a job of dispatcher_loop, which goes on whatever one of its jobs raises;
\* a transaction ends one way or another.
FairSpec == Spec /\ WF_vars(Sweep) /\ WF_vars(Commit \/ Conflict)

--------------------------------------------------------------------------------
(* Properties *)

TypeOK ==
    /\ status \in Statuses
    /\ rows \in [Files -> RowStates]
    /\ disk \subseteq Places \X Files
    /\ tx \in Transactions \cup {None}
    /\ calls \in [Calls -> Call]
    /\ \A s \in DOMAIN records :
         records[s] \in [request : Requests, result : Calls, expired : BOOLEAN]
    /\ torn \subseteq Files /\ lapsed \subseteq Calls
    /\ failures \in 0 .. MaxFailures

\* _write_physical: "rows and ledger go with the transaction".  A row that can be
\* listed has all its files, but for those a rollback or a crash has torn apart.
RowsHaveFiles ==
    status \in {"uploading", "running", "ended"} =>
       \A f \in Inputs \cup Outputs :
          At(Where(f), {f}) \subseteq disk \/ f \in torn \/ (tx # None /\ f \in tx.drop)

\* upload_files: "no row, no file".  A file without a row is a transaction's that is
\* under way, waits for the clean-up of its deleted task, or was torn off.
FilesHaveRows ==
    \A d \in disk :
       \/ rows[d[2]] \in Live
       \/ d[2] \in torn
       \/ tx # None /\ d[2] \in tx.put

\* read_input_bytes finds its row by name with scalar_one_or_none: two concurrent
\* uploads, or two containers, never leave two rows of one name on one side.
NamesAreUnique ==
    \A fs \in {Inputs, Outputs} : \A f, g \in fs : Name(f) = Name(g) => f = g

\* Two calls with one key have one effect, unless the record of the first had expired:
\* a repetition answers with the result of the call that worked, or with a conflict.
Worked(c) == calls[c].result = c /\ Keyed(c)

OneEffectPerKey ==
    \A c, d \in Calls :
       Worked(c) /\ Worked(d) /\ c # d /\ Slot(c) = Slot(d) => c \in lapsed \/ d \in lapsed

\* A deleted task leaves nothing behind, even if the process died between the commit
\* and the clean-up, and no late upload or output brings a file back.
DeletedIsCleared == status = "deleted" ~> [](disk = {})

================================================================================
