------------------------- MODULE SqliteUnitOfWork -------------------------
(***************************************************************************)
(* One SQLite database and the AsyncSession of every request that uses it. *)
(*                                                                         *)
(* Every HTTP request gets an AsyncSession of its own and a                *)
(* SqlAlchemyUnitOfWork over it (db/uow.py, api/dependency_injection.py).  *)
(* Under the sqlite driver a SELECT issued before the first INSERT or      *)
(* UPDATE of a transaction takes no lasting lock and reads what is         *)
(* committed; the first INSERT or UPDATE takes the one write lock of the   *)
(* database and keeps it until commit or rollback.  SELECT ... FOR UPDATE  *)
(* locks nothing.  The component that EXTENDS this module chooses what     *)
(* `db' is.                                                                *)
(***************************************************************************)
CONSTANTS
    Requests,   \* the requests, each with one AsyncSession
    NoRequest   \* nobody holds the write lock

ASSUME NoRequestAssumption == NoRequest \notin Requests

VARIABLES
    db,         \* what is committed
    writer,     \* the request whose transaction holds the write lock
    tx,         \* the database as the writer sees it; equal to db if nobody writes
    session     \* per request, whether the ORM objects it holds can still be read

storeVars == <<db, writer, tx, session>>

(* A rollback expires every object the session holds, whatever             *)
(* expire_on_commit says, so that reading one needs a SELECT the event     *)
(* loop's thread may not issue; an error inside flush leaves the whole     *)
(* transaction inactive.                                                   *)
SessionState == {"loaded", "expired", "inactive"}

StoreInit(contents) ==
    /\ db = contents
    /\ tx = contents
    /\ writer = NoRequest
    /\ session = [r \in Requests |-> "loaded"]

(* What a SELECT of request r returns. *)
View(r) == IF writer = r THEN tx ELSE db

LockFree(r) == writer \in {r, NoRequest}

(* The lock is somebody else's for longer than PRAGMA busy_timeout. *)
LockBusy(r) == ~LockFree(r)

(* INSERT or UPDATE sent by session.flush(). *)
Write(r, contents) ==
    /\ LockFree(r)
    /\ writer' = r
    /\ tx' = contents
    /\ UNCHANGED <<db, session>>

Commit(r) ==
    /\ db' = View(r)
    /\ writer' = IF writer = r THEN NoRequest ELSE writer
    /\ UNCHANGED <<tx, session>>

(* The transaction's changes and its lock are gone. *)
Discard(r) ==
    /\ tx' = IF writer = r THEN db ELSE tx
    /\ writer' = IF writer = r THEN NoRequest ELSE writer
    /\ UNCHANGED db

(* Mutant: the lock survives an error inside flush. *)
FlushErrorKeepsLock(r) ==
    /\ UNCHANGED <<db, tx, writer>>
    /\ session' = [session EXCEPT ![r] = "inactive"]

(* flush() raises: SQLAlchemy rolls the connection back by itself and      *)
(* __aexit__, finding the transaction inactive, does nothing more.         *)
FlushError(r) ==
    /\ Discard(r)
    /\ session' = [session EXCEPT ![r] = "inactive"]

(* Mutant: __aexit__ commits whatever the block did. *)
ExitWithErrorCommits(r) ==
    /\ db' = View(r)
    /\ writer' = IF writer = r THEN NoRequest ELSE writer
    /\ UNCHANGED tx
    /\ session' = [session EXCEPT ![r] = "expired"]

(* An exception of the block itself leaves `async with unit_of_work'.      *)
ExitWithError(r) ==
    /\ Discard(r)
    /\ session' = [session EXCEPT ![r] = IF @ = "inactive" THEN @ ELSE "expired"]

(* Mutant: the transaction of a cancelled task stays open. *)
AbandonKeepsLock(r) == UNCHANGED storeVars

(* The task is cancelled or the process dies, and no COMMIT was sent.  One *)
(* that was sent is carried out by the driver's thread all the same: then  *)
(* the request ends with a Commit that it never hears of.                  *)
Abandon(r) ==
    /\ Discard(r)
    /\ UNCHANGED session

(* The part of every component's invariant that is about the lock. *)
NothingPendingWithoutWriter == writer = NoRequest => tx = db
=============================================================================
