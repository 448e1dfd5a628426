---------------------------- MODULE ImportJobs ----------------------------
(***************************************************************************)
(* ImportService.import_asb (modules/imports/service.py): each request     *)
(* inserts a job row, marks it running, fetches a bundle from ASB without  *)
(* holding a transaction, applies the bundle in one transaction together   *)
(* with the job's completion and its audit entry, and on an error records  *)
(* the failure.  Requests run concurrently and share one SQLite database.  *)
(*                                                                         *)
(* A bundle is the sequence of external identities (competition, venues,   *)
(* matches, standings pair) that AsbImportApplier.apply upserts, each with *)
(* the content ASB reports for it.  A row's columns are one content value, *)
(* its soft-delete flag, and the request that last wrote it.               *)
(***************************************************************************)
EXTENDS SqliteUnitOfWork, Naturals, Sequences

CONSTANTS
    Targets,        \* (provider, team_slug, competition_external_id)
    Target,         \* the target each request names
    Items,          \* external identities
    Venues,         \* the items that are venues
    Tables,         \* the items that are current standings of a pair
    Contents,       \* what an item may say
    Plan,           \* per request, the items of its bundle in apply order
    Bundle,         \* per request, what ASB reports for each item
    NoRow,          \* an item with no row
    Catalogues,     \* bound: the rows there may be before the first import
    Faults          \* which of {"busy", "crash"} the environment may cause

Row == [content : Contents, deleted : BOOLEAN, by : Requests \cup {NoRequest}]

ASSUME ImportAssumption ==
    /\ Target \in [Requests -> Targets]
    /\ Venues \subseteq Items
    /\ Tables \subseteq Items
    /\ Plan \in [Requests -> Seq(Items)]
    /\ Bundle \in [Requests -> [Items -> Contents]]
    /\ NoRow \notin Row
    /\ Catalogues \subseteq [Items -> [content : Contents, deleted : BOOLEAN, by : {NoRequest}]
                                          \cup {NoRow}]
    /\ Faults \subseteq {"busy", "crash"}

VARIABLES
    pc,     \* where each request is
    idx,    \* position in Plan of the item being applied
    seen    \* the row the last lookup returned to the request

vars == <<storeVars, pc, idx, seen>>

(* ImportStatus, and "none" for a request that has no job row. *)
Status == {"none", "pending", "running", "completed", "failed"}
Active == {"pending", "running"}

(* How a request ended: 201, 409, an error whose job is FAILED, any other  *)
(* exception, or it was cancelled, "unanswered" if during a COMMIT.        *)
Ended == {"done", "conflict", "reported", "broken", "crashed", "unanswered"}

(* Between a flush that wrote and the commit that follows it. *)
Flushed == {"jobAdded", "runningSaved", "auditing", "committing", "failedSaved"}

Applying == {"lookup", "upsert", "complete"}

PC == {"idle", "submitted", "created", "fetching", "handling", "recording"}
        \cup Applying \cup Flushed \cup Ended

InProgress == PC \ (Ended \cup {"idle", "submitted"})

Database == [jobs : [Requests -> Status],
             rows : [Items -> Row \cup {NoRow}],
             audit : SUBSET Requests]

(* No job yet, and a catalogue the administrators have built.              *)
Init ==
    /\ \E rows \in Catalogues :
         StoreInit([jobs |-> [r \in Requests |-> "none"], rows |-> rows, audit |-> {}])
    /\ pc = [r \in Requests |-> "idle"]
    /\ idx = [r \in Requests |-> 1]
    /\ seen = [r \in Requests |-> NoRow]

-----------------------------------------------------------------------------
Goto(r, label) ==
    /\ pc' = [pc EXCEPT ![r] = label]
    /\ UNCHANGED <<idx, seen>>

SetJob(r, status) == [View(r) EXCEPT !.jobs[r] = status]

(* Mutant: an index that covers running jobs only. *)
TargetTakenRunningOnly(r) ==
    \E q \in Requests \ {r} : Target[q] = Target[r] /\ View(r).jobs[q] = "running"

(* The partial unique index uq_import_jobs_active_target. *)
TargetTaken(r) ==
    \E q \in Requests \ {r} : Target[q] = Target[r] /\ View(r).jobs[q] \in Active

(* The router has authorised the administrator and calls import_asb. *)
Submit(r) ==
    /\ pc[r] = "idle"
    /\ Goto(r, "submitted")
    /\ UNCHANGED storeVars

(* _create_job: INSERT, refused by the unique index, or lock not obtained. *)
AddJob(r) ==
    /\ pc[r] = "submitted"
    /\ ~TargetTaken(r)
    /\ Write(r, SetJob(r, "pending"))
    /\ Goto(r, "jobAdded")

AddJobConflict(r) ==
    /\ pc[r] = "submitted"
    /\ LockFree(r)
    /\ TargetTaken(r)
    /\ FlushError(r)
    /\ Goto(r, "conflict")

CommitJob(r) ==
    /\ pc[r] = "jobAdded"
    /\ Commit(r)
    /\ Goto(r, "created")

MarkRunning(r) ==
    /\ pc[r] = "created"
    /\ Write(r, SetJob(r, "running"))
    /\ Goto(r, "runningSaved")

(* Mutant: the fetch happens inside the transaction. *)
CommitRunningNever(r) ==
    /\ pc[r] = "runningSaved"
    /\ Goto(r, "fetching")
    /\ UNCHANGED storeVars

CommitRunning(r) ==
    /\ pc[r] = "runningSaved"
    /\ Commit(r)
    /\ Goto(r, "fetching")

(* fetch_import returns a bundle, or raises one of the Asb errors. *)
FetchBundle(r) ==
    /\ pc[r] = "fetching"
    /\ Goto(r, "lookup")
    /\ UNCHANGED storeVars

FetchFails(r) ==
    /\ pc[r] = "fetching"
    /\ Goto(r, "handling")
    /\ UNCHANGED storeVars

-----------------------------------------------------------------------------
(* AsbImportApplier.apply, item by item. *)
Item(r) == Plan[r][idx[r]]

(* Deleted competitions and matches are found again by their external      *)
(* identity; deleted venues and snapshots are filtered out.                *)
Found(r) ==
    LET row == View(r).rows[Item(r)]
    IN  IF row # NoRow /\ row.deleted /\ Item(r) \in Venues \cup Tables THEN NoRow ELSE row

Lookup(r) ==
    /\ pc[r] = "lookup"
    /\ idx[r] <= Len(Plan[r])
    /\ seen' = [seen EXCEPT ![r] = Found(r)]
    /\ pc' = [pc EXCEPT ![r] = "upsert"]
    /\ UNCHANGED <<storeVars, idx>>

(* The team is unknown (before the first item), a game's date cannot be    *)
(* parsed, or the standings fail validation.                               *)
ApplyRejected(r) ==
    /\ pc[r] = "lookup"
    /\ idx[r] <= Len(Plan[r])
    /\ idx[r] = 1 \/ Item(r) \notin Venues
    /\ ExitWithError(r)
    /\ Goto(r, "handling")

NextItem(r) ==
    /\ pc' = [pc EXCEPT ![r] = "lookup"]
    /\ idx' = [idx EXCEPT ![r] = @ + 1]
    /\ seen' = [seen EXCEPT ![r] = NoRow]

Imported(r) == [content |-> Bundle[r][Item(r)], deleted |-> FALSE, by |-> r]

PutRow(r, row) == Write(r, [View(r) EXCEPT !.rows[Item(r)] = row])

Insert(r) ==
    /\ pc[r] = "upsert"
    /\ seen[r] = NoRow
    /\ View(r).rows[Item(r)] = NoRow \/ Item(r) \in Tables
    /\ PutRow(r, Imported(r))
    /\ NextItem(r)

(* A unique index on (source, external_id) refuses the row: a soft-deleted *)
(* venue still has it, or another import inserted it after the lookup.     *)
InsertConflict(r) ==
    /\ pc[r] = "upsert"
    /\ seen[r] = NoRow
    /\ Item(r) \notin Tables
    /\ LockFree(r)
    /\ View(r).rows[Item(r)] # NoRow
    /\ FlushError(r)
    /\ Goto(r, "handling")

SameAsBundle(r) == seen[r].content = Bundle[r][Item(r)]

NothingDirty(r) == seen[r] # NoRow /\ SameAsBundle(r) /\ ~seen[r].deleted

(* The UPDATE names only the columns that differ from what was read. *)
Merge(r) ==
    LET row == View(r).rows[Item(r)]
    IN  [content |-> IF SameAsBundle(r) THEN row.content ELSE Bundle[r][Item(r)],
         deleted |-> IF seen[r].deleted THEN FALSE ELSE row.deleted,
         by |-> r]

Update(r) ==
    /\ pc[r] = "upsert"
    /\ seen[r] # NoRow
    /\ Item(r) \notin Tables
    /\ ~NothingDirty(r)
    /\ PutRow(r, Merge(r))
    /\ NextItem(r)

(* The current snapshot says something else: archive it and add a new one. *)
ReplaceTable(r) ==
    /\ pc[r] = "upsert"
    /\ seen[r] # NoRow
    /\ Item(r) \in Tables
    /\ ~NothingDirty(r)
    /\ PutRow(r, Imported(r))
    /\ NextItem(r)

(* Nothing is dirty, so the flush sends no statement. *)
Unchanged(r) ==
    /\ pc[r] = "upsert"
    /\ NothingDirty(r)
    /\ NextItem(r)
    /\ UNCHANGED storeVars

ApplyDone(r) ==
    /\ pc[r] = "lookup"
    /\ idx[r] > Len(Plan[r])
    /\ Goto(r, "complete")
    /\ UNCHANGED storeVars

SaveCompleted(r) ==
    /\ pc[r] = "complete"
    /\ Write(r, SetJob(r, "completed"))
    /\ Goto(r, "auditing")

(* Mutant: the audit entry is forgotten. *)
RecordAuditForgotten(r) ==
    /\ pc[r] = "auditing"
    /\ Write(r, View(r))
    /\ Goto(r, "committing")

RecordAudit(r) ==
    /\ pc[r] = "auditing"
    /\ Write(r, [View(r) EXCEPT !.audit = @ \cup {r}])
    /\ Goto(r, "committing")

CommitImport(r) ==
    /\ pc[r] = "committing"
    /\ Commit(r)
    /\ Goto(r, "done")

-----------------------------------------------------------------------------
(* Mutant: the error is raised again before the job is marked. *)
HandleFailureUnrecorded(r) ==
    /\ pc[r] = "handling"
    /\ session[r] = "loaded"
    /\ Goto(r, "reported")
    /\ UNCHANGED storeVars

(* The except clauses start by reading job.id, which raises when the job   *)
(* object was expired or its session's transaction is inactive.            *)
HandleFailure(r) ==
    /\ pc[r] = "handling"
    /\ session[r] = "loaded"
    /\ Goto(r, "recording")
    /\ UNCHANGED storeVars

HandlerRaises(r) ==
    /\ pc[r] = "handling"
    /\ session[r] # "loaded"
    /\ Goto(r, "broken")
    /\ UNCHANGED storeVars

(* Mutant: a status that ImportStatus does not have. *)
SaveFailedUnknown(r) ==
    /\ pc[r] = "recording"
    /\ Write(r, SetJob(r, "error"))
    /\ Goto(r, "failedSaved")

SaveFailed(r) ==
    /\ pc[r] = "recording"
    /\ Write(r, SetJob(r, "failed"))
    /\ Goto(r, "failedSaved")

CommitFailed(r) ==
    /\ pc[r] = "failedSaved"
    /\ Commit(r)
    /\ Goto(r, "reported")

(* The request's next statement is an INSERT or UPDATE. *)
AboutToWrite(r) ==
    \/ pc[r] \in {"submitted", "created", "complete", "recording"}
    \/ pc[r] = "upsert" /\ ~NothingDirty(r)

(* OperationalError "database is locked" from a flush, after busy_timeout. *)
Busy(r) ==
    /\ "busy" \in Faults
    /\ AboutToWrite(r)
    /\ LockBusy(r)
    /\ FlushError(r)
    /\ Goto(r, IF pc[r] \in {"submitted", "recording"} THEN "broken" ELSE "handling")

(* The request's task is cancelled, or the process dies, at an await. *)
Crash(r) ==
    /\ "crash" \in Faults
    /\ pc[r] \in InProgress \cup {"submitted"}
    /\ Abandon(r)
    /\ Goto(r, "crashed")

(* The same while one of its COMMITs runs in the driver's thread.          *)
CancelCommit(r) ==
    /\ "crash" \in Faults
    /\ pc[r] \in {"jobAdded", "runningSaved", "committing", "failedSaved"}
    /\ Commit(r)
    /\ Goto(r, "unanswered")

(* DELETE of a competition, venue or match, or of a standings snapshot, by *)
(* an administrator: one transaction of another request.                   *)
AdminDelete(i) ==
    /\ writer = NoRequest
    /\ db.rows[i] # NoRow
    /\ ~db.rows[i].deleted
    /\ db' = [db EXCEPT !.rows[i] =
                 IF i \in Tables THEN NoRow
                                 ELSE [@ EXCEPT !.deleted = TRUE, !.by = NoRequest]]
    /\ tx' = db'
    /\ UNCHANGED <<writer, session, pc, idx, seen>>

-----------------------------------------------------------------------------
Step(r) ==
    \/ AddJob(r) \/ AddJobConflict(r) \/ CommitJob(r)
    \/ MarkRunning(r) \/ CommitRunning(r)
    \/ FetchBundle(r) \/ FetchFails(r)
    \/ Lookup(r) \/ ApplyRejected(r)
    \/ Insert(r) \/ InsertConflict(r) \/ Update(r) \/ ReplaceTable(r) \/ Unchanged(r)
    \/ ApplyDone(r) \/ SaveCompleted(r) \/ RecordAudit(r) \/ CommitImport(r)
    \/ HandleFailure(r) \/ HandlerRaises(r) \/ SaveFailed(r) \/ CommitFailed(r)
    \/ Busy(r)

Next ==
    \/ \E r \in Requests : Submit(r) \/ Step(r) \/ Crash(r) \/ CancelCommit(r)
    \/ \E i \in Items : AdminDelete(i)

Spec == Init /\ [][Next]_vars

(* asyncio runs every ready task: a request that can go on does go on.     *)
FairSpec == Spec /\ \A r \in Requests : WF_vars(Step(r))

-----------------------------------------------------------------------------
TypeOK ==
    /\ db \in Database
    /\ tx \in Database
    /\ writer \in Requests \cup {NoRequest}
    /\ session \in [Requests -> SessionState]
    /\ pc \in [Requests -> PC]
    /\ idx \in [Requests -> Nat \ {0}]
    /\ seen \in [Requests -> Row \cup {NoRow}]

(* At most one committed job of a target is pending or running, although   *)
(* its three transactions interleave with those of the other requests.     *)
OneActivePerTarget ==
    \A q, r \in Requests :
        q # r /\ Target[q] = Target[r]
            => ~(db.jobs[q] \in Active /\ db.jobs[r] \in Active)

(* "one atomic data application": a row an import wrote, its audit entry   *)
(* and its completed job become visible together, and an import that       *)
(* failed, crashed or is still running has left no row behind.             *)
AppliedWithJobAndAudit ==
    /\ \A r \in Requests : r \in db.audit <=> db.jobs[r] = "completed"
    /\ \A i \in Items : \A r \in Requests :
          db.rows[i] # NoRow /\ db.rows[i].by = r => db.jobs[r] = "completed"

(* What the caller was told is what the job history says: 201 and a        *)
(* completed job, an ASB error and a failed job, 409 and no job at all.    *)
(* The other way round, a job that is completed or failed was answered so, *)
(* or its task was cancelled while that COMMIT ran; a caller who got any   *)
(* other error has not imported anything.                                  *)
ResponseMatchesJob ==
    \A r \in Requests :
        /\ pc[r] = "done" => db.jobs[r] = "completed"
        /\ pc[r] = "reported" => db.jobs[r] = "failed"
        /\ pc[r] = "conflict" => db.jobs[r] = "none"
        /\ db.jobs[r] = "completed" => pc[r] \in {"done", "unanswered"}
        /\ db.jobs[r] = "failed" => pc[r] \in {"reported", "unanswered"}

(* A request that has ended, however it ended, does not hold the write     *)
(* lock, and neither does one that waits for ASB: nobody else would be     *)
(* able to write.                                                          *)
LockReleased ==
    /\ \A r \in Requests :
         pc[r] \in Ended \cup {"idle", "submitted", "created", "fetching", "handling", "recording"}
             => writer # r
    /\ NothingPendingWithoutWriter

(* The committed rows, jobs and audit log behave as the ledger: jobs only  *)
(* move pending -> running -> completed or failed, one in flight per       *)
(* target, and an import becomes visible in one step or not at all.        *)
Ledger == INSTANCE ImportLedger WITH jobs <- db.jobs, rows <- db.rows, audit <- db.audit

ImplementsLedger == Ledger!Spec

(* Every submitted import is answered, whatever the other requests do.     *)
EveryImportEnds ==
    \A r \in Requests : pc[r] = "submitted" ~> pc[r] \in Ended

(* An import whose ASB fetch failed ends as a FAILED job of the history,   *)
(* unless it is cancelled on the way.                                      *)
FetchFailureRecorded ==
    \A r \in Requests :
        pc[r] = "handling" /\ session[r] = "loaded"
            ~> db.jobs[r] = "failed" \/ pc[r] = "crashed"

(* The 409 of _create_job says "An ASB import for this target is already   *)
(* running": when it is sent, another request is working on the target.    *)
ConflictMeansRunning ==
    [][\A r \in Requests :
          pc[r] = "submitted" /\ pc'[r] = "conflict"
              => \E q \in Requests \ {r} : Target[q] = Target[r] /\ pc[q] \in InProgress]_vars

-----------------------------------------------------------------------------
(* The inductive invariant behind the safety properties. *)

(* The status a job row has when its request is at a place. *)
JobAt(place) ==
    CASE place \in {"idle", "submitted", "jobAdded", "conflict"} -> {"none"}
      [] place \in {"created", "runningSaved"} -> {"pending"}
      [] place \in {"fetching", "recording", "failedSaved"} \cup Applying
                  \cup {"auditing", "committing"} -> {"running"}
      [] place = "handling" -> {"pending", "running"}
      [] place = "done" -> {"completed"}
      [] place = "reported" -> {"failed"}
      [] place = "unanswered" -> Status \ {"none"}
      [] OTHER -> {"none", "pending", "running"}

(* The status the job row has inside the writer's transaction. *)
PendingJobAt(place) ==
    CASE place = "jobAdded" -> "pending"
      [] place = "failedSaved" -> "failed"
      [] place \in {"auditing", "committing"} -> "completed"
      [] OTHER -> "running"

WriterInv ==
    /\ writer = NoRequest => tx = db
    /\ \A r \in Requests : pc[r] \in Flushed => writer = r
    /\ \A r \in Requests : writer = r => pc[r] \in Flushed \cup Applying
    /\ \A r \in Requests :
         pc[r] \in PC \ (Ended \cup {"handling"}) => session[r] = "loaded"
    /\ \A r \in Requests :
         pc[r] = "handling" /\ session[r] = "loaded" => db.jobs[r] = "running"

(* What a transaction may hold that is not committed yet: the writer's own *)
(* job, audit entry and rows.                                              *)
PendingOf(r) ==
    /\ \A q \in Requests \ {r} : tx.jobs[q] = db.jobs[q]
    /\ tx.jobs[r] = PendingJobAt(pc[r])
    /\ tx.audit = IF pc[r] = "committing" THEN db.audit \cup {r} ELSE db.audit
    /\ \A i \in Items : tx.rows[i] # db.rows[i] => tx.rows[i] # NoRow /\ tx.rows[i].by = r
    /\ pc[r] \notin Applying \cup {"auditing", "committing"} => tx.rows = db.rows

PendingInv == \A r \in Requests : writer = r => PendingOf(r)

NoTwoActive(d) ==
    \A q, r \in Requests :
        q # r /\ Target[q] = Target[r] => ~(d.jobs[q] \in Active /\ d.jobs[r] \in Active)

JobInv ==
    /\ \A r \in Requests : db.jobs[r] \in JobAt(pc[r])
    /\ NoTwoActive(db) /\ NoTwoActive(tx)
    /\ AppliedWithJobAndAudit

(* The row an UPDATE is about to change is still there: no handler removes *)
(* the row of a competition, venue or match.                               *)
SeenInv ==
    \A r \in Requests : pc[r] = "upsert" =>
        /\ idx[r] <= Len(Plan[r])
        /\ seen[r] # NoRow /\ Item(r) \notin Tables => View(r).rows[Item(r)] # NoRow

IInv == TypeOK /\ SeenInv /\ WriterInv /\ PendingInv /\ JobInv
=============================================================================
