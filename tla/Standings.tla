----------------------------- MODULE Standings -----------------------------
(***************************************************************************)
(* StandingsService.publish and delete (modules/standings/service.py) and  *)
(* the publication of an import (imports/asb_applier.py), running at the   *)
(* same time over one SQLite database.                                     *)
(*                                                                         *)
(* A snapshot belongs to a (team, competition) pair and says one content;  *)
(* neither changes.  What changes is its is_current and is_deleted flags,  *)
(* here one state.  The snapshot a request publishes is named by the       *)
(* request.                                                                *)
(***************************************************************************)
EXTENDS SqliteUnitOfWork

CONSTANTS
    Publishers,     \* POST /admin/standings
    Deleters,       \* DELETE /admin/standings/{snapshot_id}
    Imports,        \* imports that reached their standings
    Old,            \* the snapshots that are there already
    Pairs,          \* (team_id, competition_id)
    PairOf,         \* per snapshot
    Contents,       \* rows, source and source_reference
    ContentOf,      \* per snapshot
    Victim,         \* per deleter, the snapshot in the URL
    Faults          \* which of {"busy", "crash"} the environment may cause

Snapshots == Old \cup Publishers \cup Imports

ASSUME StandingsAssumption ==
    /\ Requests = Publishers \cup Deleters \cup Imports
    /\ Publishers \cap Deleters = {}
    /\ Publishers \cap Imports = {}
    /\ Deleters \cap Imports = {}
    /\ Old \cap Requests = {}
    /\ PairOf \in [Snapshots -> Pairs]
    /\ ContentOf \in [Snapshots -> Contents]
    /\ Victim \in [Deleters -> Snapshots]
    /\ Faults \subseteq {"busy", "crash"}

VARIABLES
    pc,     \* where each request is
    seen    \* the state in which a deleter read its snapshot

vars == <<storeVars, pc, seen>>

SnapshotState == {"absent", "current", "archived", "deleted"}

(* "unanswered": cancelled during its COMMIT. *)
Ended == {"done", "notFound", "failed", "crashed", "unanswered"}

(* A flush has written; the transaction is open until its commit. *)
Flushed == {"adding", "auditing", "committing"}

InFlight == {"checking", "archiving", "reading", "deleting",
             "importing", "comparing", "completing"} \cup Flushed

PC == {"idle"} \cup InFlight \cup Ended

Entry == [action : {"publish", "delete"}, snapshot : Snapshots,
          by : Requests, before : SnapshotState]

Database == [state : [Snapshots -> SnapshotState],
             withdrawn : SUBSET Pairs,
             log : SUBSET Entry]

(* The partial unique index of standings_snapshots. *)
OneCurrent(states) ==
    \A s, t \in Snapshots :
        s # t /\ PairOf[s] = PairOf[t] => ~(states[s] = "current" /\ states[t] = "current")

Init ==
    /\ \E states \in [Snapshots -> {"absent", "current", "archived"}] :
       \E withdrawn \in SUBSET Pairs :
         /\ \A s \in Snapshots : states[s] # "absent" <=> s \in Old
         /\ OneCurrent(states)
         /\ StoreInit([state |-> states, withdrawn |-> withdrawn, log |-> {}])
    /\ pc = [r \in Requests |-> "idle"]
    /\ seen = [r \in Deleters |-> "absent"]

-----------------------------------------------------------------------------
Goto(r, label) ==
    /\ pc' = [pc EXCEPT ![r] = label]
    /\ UNCHANGED seen

(* Mutant: the imports of a pair are not serialized. *)
MayBeginAlways(r) == TRUE

(* uq_import_jobs_active_target: the imports of a pair do not overlap. *)
MayBegin(r) ==
    r \in Imports =>
        \A q \in Imports \ {r} : PairOf[q] = PairOf[r] => pc[q] \notin InFlight

Begin(r) ==
    /\ pc[r] = "idle"
    /\ MayBegin(r)
    /\ Goto(r, IF r \in Publishers THEN "checking"
               ELSE IF r \in Deleters THEN "reading" ELSE "importing")
    /\ UNCHANGED storeVars

-----------------------------------------------------------------------------
(* Publication. *)
CheckPair(r) ==
    /\ pc[r] = "checking"
    /\ PairOf[r] \notin View(r).withdrawn
    /\ Goto(r, "archiving")
    /\ UNCHANGED storeVars

PairNotFound(r) ==
    /\ pc[r] = "checking"
    /\ PairOf[r] \in View(r).withdrawn
    /\ ExitWithError(r)
    /\ Goto(r, "notFound")

(* Mutant: only the snapshots of one content are archived. *)
ArchivedSameContent(states, r) ==
    [s \in Snapshots |->
        IF PairOf[s] = PairOf[r] /\ ContentOf[s] = ContentOf[r] /\ states[s] = "current"
        THEN "archived" ELSE states[s]]

(* archive_current: a bulk UPDATE over the rows as they are now. *)
Archived(states, r) ==
    [s \in Snapshots |-> IF PairOf[s] = PairOf[r] /\ states[s] = "current"
                         THEN "archived" ELSE states[s]]

ArchiveCurrent(r) ==
    /\ pc[r] = "archiving"
    /\ Write(r, [View(r) EXCEPT !.state = Archived(@, r)])
    /\ Goto(r, "adding")

AddSnapshot(r) ==
    /\ pc[r] = "adding"
    /\ Write(r, [View(r) EXCEPT !.state[r] = "current"])
    /\ Goto(r, IF r \in Imports THEN "completing" ELSE "auditing")

-----------------------------------------------------------------------------
(* Deletion. *)
FindSnapshot(r) ==
    /\ pc[r] = "reading"
    /\ View(r).state[Victim[r]] \in {"current", "archived"}
    /\ seen' = [seen EXCEPT ![r] = View(r).state[Victim[r]]]
    /\ pc' = [pc EXCEPT ![r] = "deleting"]
    /\ UNCHANGED storeVars

SnapshotNotFound(r) ==
    /\ pc[r] = "reading"
    /\ View(r).state[Victim[r]] \in {"absent", "deleted"}
    /\ ExitWithError(r)
    /\ Goto(r, "notFound")

(* Mutant: deleting the current snapshot makes the archived one current. *)
RemovedRestoring(states, s) ==
    [t \in Snapshots |->
        IF t = s THEN "deleted"
        ELSE IF PairOf[t] = PairOf[s] /\ states[s] = "current" /\ states[t] = "archived"
        THEN "current" ELSE states[t]]

(* soft_delete: the UPDATE sets is_deleted, and is_current only if it was  *)
(* read as true; either way the row is then neither current nor visible.   *)
Removed(states, s) == [states EXCEPT ![s] = "deleted"]

SoftDelete(r) ==
    /\ pc[r] = "deleting"
    /\ Write(r, [View(r) EXCEPT !.state = Removed(@, Victim[r])])
    /\ Goto(r, "auditing")

-----------------------------------------------------------------------------
(* Mutant: written in the name of "system". *)
EntryOfSystem(r) ==
    IF r \in Deleters
    THEN [action |-> "delete", snapshot |-> Victim[r], by |-> NoRequest, before |-> seen[r]]
    ELSE [action |-> "publish", snapshot |-> r, by |-> NoRequest, before |-> "absent"]

(* The audit entry of a publication or deletion, in its transaction. The   *)
(* `before' of a deletion was read before the transaction held the lock.   *)
EntryOf(r) ==
    IF r \in Deleters
    THEN [action |-> "delete", snapshot |-> Victim[r], by |-> r, before |-> seen[r]]
    ELSE [action |-> "publish", snapshot |-> r, by |-> r, before |-> "absent"]

(* Mutant: the entry is written by a transaction of its own, afterwards. *)
RecordAuditLater(r) ==
    /\ pc[r] = "auditing"
    /\ Write(r, View(r))
    /\ Goto(r, "committing")

RecordAudit(r) ==
    /\ pc[r] = "auditing"
    /\ Write(r, [View(r) EXCEPT !.log = @ \cup {EntryOf(r)}])
    /\ Goto(r, "committing")

CommitChange(r) ==
    /\ pc[r] = "committing"
    /\ Commit(r)
    /\ Goto(r, "done")

-----------------------------------------------------------------------------
(* An import: its competition, venues and matches come first.  They may    *)
(* all be unchanged, and then the transaction has not written anything     *)
(* when the current snapshot is read.  A deleted competition is restored.  *)
ApplyEarlierItems(r) ==
    /\ pc[r] = "importing"
    /\ Write(r, [View(r) EXCEPT !.withdrawn = @ \ {PairOf[r]}])
    /\ Goto(r, "comparing")

EarlierItemsUnchanged(r) ==
    /\ pc[r] = "importing"
    /\ PairOf[r] \notin View(r).withdrawn
    /\ Goto(r, "comparing")
    /\ UNCHANGED storeVars

(* Mutant: an unchanged table is published again. *)
AlreadyCurrentNever(r) == FALSE

AlreadyCurrent(r) ==
    \E s \in Snapshots :
        /\ PairOf[s] = PairOf[r]
        /\ View(r).state[s] = "current"
        /\ ContentOf[s] = ContentOf[r]

TableChanged(r) ==
    /\ pc[r] = "comparing"
    /\ ~AlreadyCurrent(r)
    /\ Goto(r, "archiving")
    /\ UNCHANGED storeVars

TableUnchanged(r) ==
    /\ pc[r] = "comparing"
    /\ AlreadyCurrent(r)
    /\ Goto(r, "completing")
    /\ UNCHANGED storeVars

(* The rows ASB sent fail the validation of StandingsPublish. *)
TableInvalid(r) ==
    /\ pc[r] = "comparing"
    /\ ExitWithError(r)
    /\ Goto(r, "failed")

(* The job is saved as completed and the import's own audit entry added.   *)
CompleteImport(r) ==
    /\ pc[r] = "completing"
    /\ Write(r, View(r))
    /\ Goto(r, "committing")

-----------------------------------------------------------------------------
AboutToWrite(r) ==
    pc[r] \in {"archiving", "adding", "deleting", "auditing", "importing", "completing"}

(* "database is locked" after busy_timeout. *)
Busy(r) ==
    /\ "busy" \in Faults
    /\ AboutToWrite(r)
    /\ LockBusy(r)
    /\ FlushError(r)
    /\ Goto(r, "failed")

Crash(r) ==
    /\ "crash" \in Faults
    /\ pc[r] \in InFlight
    /\ Abandon(r)
    /\ Goto(r, "crashed")

(* Its task is cancelled while COMMIT runs in the driver's thread.         *)
CancelCommit(r) ==
    /\ "crash" \in Faults
    /\ pc[r] = "committing"
    /\ Commit(r)
    /\ Goto(r, "unanswered")

(* DELETE of the competition by another request. *)
Withdraw(p) ==
    /\ writer = NoRequest
    /\ p \notin db.withdrawn
    /\ db' = [db EXCEPT !.withdrawn = @ \cup {p}]
    /\ tx' = db'
    /\ UNCHANGED <<writer, session, pc, seen>>

-----------------------------------------------------------------------------
Step(r) ==
    \/ /\ r \in Publishers
       /\ CheckPair(r) \/ PairNotFound(r)
    \/ /\ r \in Deleters
       /\ FindSnapshot(r) \/ SnapshotNotFound(r) \/ SoftDelete(r)
    \/ /\ r \in Imports
       /\ \/ ApplyEarlierItems(r) \/ EarlierItemsUnchanged(r)
          \/ TableChanged(r) \/ TableUnchanged(r) \/ TableInvalid(r) \/ CompleteImport(r)
    \/ /\ r \in Publishers \cup Imports
       /\ ArchiveCurrent(r) \/ AddSnapshot(r)
    \/ /\ r \in Publishers \cup Deleters
       /\ RecordAudit(r)
    \/ CommitChange(r)
    \/ Busy(r)

Next ==
    \/ \E r \in Requests : Begin(r) \/ Step(r) \/ Crash(r) \/ CancelCommit(r)
    \/ \E p \in Pairs : Withdraw(p)

Spec == Init /\ [][Next]_vars

-----------------------------------------------------------------------------
TypeOK ==
    /\ db \in Database
    /\ tx \in Database
    /\ writer \in Requests \cup {NoRequest}
    /\ session \in [Requests -> SessionState]
    /\ pc \in [Requests -> PC]
    /\ seen \in [Deleters -> SnapshotState]

(* A pair has at most one current snapshot, and the unique index never has *)
(* to refuse one: whenever a publication inserts, its transaction sees no  *)
(* current snapshot of the pair.                                           *)
OneCurrentPerPair ==
    /\ OneCurrent(db.state)
    /\ \A r \in Publishers \cup Imports : pc[r] = "adding" =>
         \A s \in Snapshots : PairOf[s] = PairOf[r] => View(r).state[s] # "current"

(* An administrator's publication and its audit entry are visible together *)
(* or not at all, and so are a deletion and its entry.                     *)
ChangesAudited ==
    /\ \A s \in Publishers :
         db.state[s] # "absent" <=> \E e \in db.log : e.action = "publish" /\ e.snapshot = s
    /\ \A s \in Snapshots :
         db.state[s] = "deleted" <=> \E e \in db.log : e.action = "delete" /\ e.snapshot = s

(* "repeating an import does not duplicate unchanged snapshots": an import *)
(* never replaces the current snapshot of another import that says the     *)
(* same, although it compares before it holds the lock.                    *)
RepeatedImportKeepsSnapshot ==
    [][\A r, s \in Imports :
          /\ db.state[r] = "absent" /\ db'.state[r] = "current"
          /\ db.state[s] = "current" /\ db'.state[s] = "archived"
          => ContentOf[r] # ContentOf[s]]_vars

History == INSTANCE StandingsHistory WITH
    state <- db.state, log <- db.log, Manual <- Publishers, Entries <- Entry

(* The committed snapshots and the audit log behave as the history: one    *)
(* step archives and publishes, and nothing comes back.                    *)
ImplementsHistory == History!Spec

-----------------------------------------------------------------------------
(* The inductive invariant. *)

(* States a request holds or may hold the lock in. *)
MayHold == Flushed \cup {"comparing", "archiving", "completing"}

PlaceInv ==
    \A r \in Requests :
        /\ pc[r] = "checking" => r \in Publishers
        /\ pc[r] \in {"reading", "deleting"} => r \in Deleters
        /\ pc[r] \in {"importing", "comparing", "completing"} => r \in Imports
        /\ pc[r] \in {"archiving", "adding"} => r \in Publishers \cup Imports
        /\ pc[r] = "auditing" => r \in Publishers \cup Deleters

LockInv ==
    /\ NothingPendingWithoutWriter
    /\ \A r \in Requests : pc[r] \in Flushed => writer = r
    /\ \A r \in Requests : writer = r => pc[r] \in MayHold

Published(states, r) ==
    [s \in Snapshots |-> IF s = r THEN "current" ELSE Archived(states, r)[s]]

(* What the writer changed so far. *)
PendingStates(r) ==
    CASE pc[r] = "adding" -> {Archived(db.state, r)}
      [] pc[r] \in {"auditing", "committing"} /\ r \in Publishers -> {Published(db.state, r)}
      [] pc[r] \in {"auditing", "committing"} /\ r \in Deleters -> {Removed(db.state, Victim[r])}
      [] pc[r] \in {"completing", "committing"} /\ r \in Imports ->
            {db.state, Published(db.state, r)}
      [] OTHER -> {db.state}

PendingLog(r) ==
    IF pc[r] = "committing" /\ r \in Publishers \cup Deleters
    THEN db.log \cup {EntryOf(r)} ELSE db.log

PendingInv ==
    \A r \in Requests : writer = r => /\ tx.state \in PendingStates(r)
                                      /\ tx.log = PendingLog(r)

Committed(r) == pc[r] \in {"done", "unanswered"}

SnapshotInv ==
    /\ OneCurrent(db.state)
    /\ \A s \in Old : db.state[s] # "absent"
    /\ \A s \in Publishers \cup Imports : ~Committed(s) => db.state[s] = "absent"
    /\ \A r \in Deleters : pc[r] \in {"deleting", "auditing", "committing"} =>
          /\ seen[r] \in {"current", "archived"}
          /\ db.state[Victim[r]] # "absent"

(* Nobody's entry is in the log before its transaction commits. *)
LogInv ==
    /\ \A e \in db.log : Committed(e.by)
    /\ ChangesAudited

ImportInv ==
    /\ \A q, r \in Imports :
         q # r /\ PairOf[q] = PairOf[r] => ~(pc[q] \in InFlight /\ pc[r] \in InFlight)
    /\ \A r, s \in Imports :
         /\ \/ pc[r] \in {"archiving", "adding"}
            \/ pc[r] \in {"completing", "committing"} /\ writer = r /\ tx.state # db.state
         /\ PairOf[r] = PairOf[s] /\ db.state[s] = "current"
         => ContentOf[r] # ContentOf[s]

IInv == TypeOK /\ PlaceInv /\ LockInv /\ PendingInv /\ SnapshotInv /\ LogInv /\ ImportInv
=============================================================================
