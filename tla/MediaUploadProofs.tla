------------------------- MODULE MediaUploadProofs -------------------------
(* Theorems about MediaUpload for any uploads, images and faults.          *)
EXTENDS MediaUpload, TLAPS

USE NoRequestAssumption, MediaAssumption

-----------------------------------------------------------------------------
(* One request moves, and touches no file but its own. *)
Moves(r, place) ==
    /\ pc' = [pc EXCEPT ![r] = place]
    /\ place \in PC
    /\ files' \subseteq Uploads
    /\ \A a \in Uploads \ {r} : a \in files' <=> a \in files

Committed == {"done", "undoing", "undone", "leaked", "crashed"}

(* FileInv, request by request. *)
FileOf(r) ==
    /\ pc[r] \in {"adding", "deleting", "undoing", "done", "leaked"} \cup Flushed => r \in files
    /\ pc[r] \in {"done", "undoing", "undone"} => r \in db.assets
    /\ pc[r] \in {"idle", "submitted", "processed", "found", "storing",
                  "answered", "refused", "broken", "undone"} => r \notin files

LEMMA PlaceStep ==
    ASSUME TypeOK, NEW r \in Requests, NEW place, Moves(r, place)
    PROVE  /\ pc' \in [Requests -> PC] /\ pc'[r] = place
           /\ \A q \in Requests \ {r} : pc'[q] = pc[q]
BY DEF Moves, TypeOK

(* Where the others are and what they have stored stays as it was. *)
LEMMA FileStep ==
    ASSUME TypeOK, FileInv, NEW r \in Requests, NEW place, Moves(r, place),
           db.assets \subseteq db'.assets, FileOf(r)'
    PROVE  FileInv'
<1>1. \A q \in Requests \ {r} : pc'[q] = pc[q] /\ (q \in files' <=> q \in files)
  BY PlaceStep DEF Moves, Uploads
<1>2. Old \subseteq files'
  BY DEF FileInv, Moves, Uploads
<1>3. ASSUME NEW q \in Requests PROVE FileOf(q)'
  <2>1. CASE q = r
    BY <2>1
  <2>2. CASE q # r
    BY <2>2, <1>1 DEF FileInv, FileOf
  <2> QED
    BY <2>1, <2>2
<1> QED
  BY <1>2, <1>3 DEF FileInv, FileOf

(* A request is at a place where it wrote exactly if it has the lock. *)
LEMMA WriterWrote ==
    ASSUME IInv, NEW r \in Requests
    PROVE  /\ pc[r] \in Flushed <=> writer = r
           /\ writer = r => /\ tx.assets = db.assets \cup {r}
                            /\ \A a \in db.assets : ImageOf[a] # ImageOf[r]
           /\ pc[r] \notin Committed => r \notin db.assets
BY DEF IInv, LockInv, PendingInv, AssetInv, Committed

-----------------------------------------------------------------------------
(* A step that sends no statement, a SELECT, or the end of a transaction   *)
(* that is rolled back.                                                    *)
LEMMA DiscardStep ==
    ASSUME IInv, NEW r \in Requests, NEW place, Moves(r, place), Discard(r),
           session' \in [Requests -> SessionState],
           place \notin Flushed, FileOf(r)', r \in db.assets => place \in Committed
    PROVE  IInv'
<1> USE DEF IInv
<1>1. /\ pc' \in [Requests -> PC] /\ pc'[r] = place
      /\ \A q \in Requests \ {r} : pc'[q] = pc[q]
  BY PlaceStep
<1>2. /\ db' = db
      /\ writer = r => writer' = NoRequest /\ tx' = db
      /\ writer # r => writer' = writer /\ tx' = tx
  BY DEF Discard
<1>3. TypeOK'
  BY <1>1, <1>2 DEF TypeOK, Moves
<1>4. LockInv'
  BY <1>1, <1>2 DEF LockInv, NothingPendingWithoutWriter
<1>5. PendingInv'
  BY <1>1, <1>2 DEF PendingInv
<1>6. AssetInv'
  BY <1>1, <1>2 DEF AssetInv, Committed
<1>7. FileInv'
  BY <1>2, FileStep
<1> QED
  BY <1>3, <1>4, <1>5, <1>6, <1>7

(* A step that writes nothing is one of those if no transaction is open. *)
LEMMA QuietStep ==
    ASSUME IInv, NEW r \in Requests, NEW place, Moves(r, place), UNCHANGED storeVars,
           pc[r] \notin Flushed, place \notin Flushed, FileOf(r)',
           r \in db.assets => place \in Committed
    PROVE  IInv'
<1>1. Discard(r)
  BY WriterWrote DEF Discard, storeVars
<1>2. session' \in [Requests -> SessionState]
  BY DEF IInv, TypeOK, storeVars
<1> QED
  BY <1>1, <1>2, DiscardStep

(* A flush: what is pending is the request's own asset and entry. *)
LEMMA WriteStep ==
    ASSUME IInv, NEW r \in Requests, NEW place, NEW contents, Moves(r, place),
           Write(r, contents), contents \in Database, place \in Flushed,
           pc[r] \in {"adding"} \cup Flushed, files' = files,
           contents.assets = db.assets \cup {r},
           contents.audit = (IF place = "committing" THEN db.audit \cup {r} ELSE db.audit),
           \A a \in db.assets : ImageOf[a] # ImageOf[r]
    PROVE  IInv'
<1> USE DEF IInv
<1>1. /\ pc' \in [Requests -> PC] /\ pc'[r] = place
      /\ \A q \in Requests \ {r} : pc'[q] = pc[q]
  BY PlaceStep
<1>2. /\ writer' = r /\ tx' = contents /\ db' = db /\ session' = session
      /\ \A q \in Requests \ {r} : writer # q
  BY DEF Write, LockFree
<1>3. TypeOK'
  BY <1>1, <1>2 DEF TypeOK, Moves
<1>4. LockInv'
  BY <1>1, <1>2 DEF LockInv, NothingPendingWithoutWriter
<1>5. PendingInv'
  BY <1>1, <1>2 DEF PendingInv
<1>6. AssetInv'
  <2>1. r \notin db.assets
    BY WriterWrote DEF Committed, Flushed
  <2> QED
    BY <1>1, <1>2, <2>1 DEF AssetInv
<1>7. FileInv'
  <2>1. r \in files
    BY DEF FileInv
  <2>2. FileOf(r)'
    BY <1>1, <2>1 DEF FileOf, Flushed
  <2> QED
    BY <1>2, <2>2, FileStep
<1> QED
  BY <1>3, <1>4, <1>5, <1>6, <1>7

(* A commit adds one new image with its entry. *)
LEMMA CommitFacts ==
    ASSUME IInv, NEW r \in Requests, pc[r] = "committing", Commit(r)
    PROVE  /\ writer = r /\ writer' = NoRequest /\ db' = tx /\ tx' = tx /\ session' = session
           /\ r \notin db.assets
           /\ db'.assets = db.assets \cup {r}
           /\ db'.audit = db.audit \cup {r}
           /\ \A a \in db.assets : ImageOf[a] # ImageOf[r]
<1>1. writer = r /\ r \notin db.assets
  BY WriterWrote DEF Flushed, Committed
<1> QED
  BY <1>1 DEF IInv, PendingInv, Commit, View

LEMMA CommitStep ==
    ASSUME IInv, NEW r \in Requests, NEW place, Moves(r, place), files' = files,
           pc[r] = "committing", Commit(r), place \in {"done", "undoing"}
    PROVE  IInv'
<1> USE DEF IInv
<1>1. /\ pc' \in [Requests -> PC] /\ pc'[r] = place
      /\ \A q \in Requests \ {r} : pc'[q] = pc[q]
  BY PlaceStep
<1>2. TypeOK'
  BY <1>1, CommitFacts DEF TypeOK, Moves
<1>3. LockInv'
  <2>1. \A q \in Requests \ {r} : pc[q] \notin Flushed
    BY CommitFacts DEF LockInv
  <2> QED
    BY <2>1, <1>1, CommitFacts DEF LockInv, NothingPendingWithoutWriter, Flushed
<1>4. PendingInv'
  BY CommitFacts DEF PendingInv
<1>5. AssetInv'
  BY <1>1, CommitFacts DEF AssetInv, Uploads
<1>6. FileInv'
  <2>1. r \in files
    BY DEF FileInv, Flushed
  <2>2. FileOf(r)'
    BY <1>1, <2>1, CommitFacts DEF FileOf, Flushed
  <2> QED
    BY <2>2, FileStep, CommitFacts
<1> QED
  BY <1>2, <1>3, <1>4, <1>5, <1>6

-----------------------------------------------------------------------------
(* Every action is one of these steps. *)

LEMMA InitInv == Init => IInv
<1> SUFFICES ASSUME Init PROVE IInv
  OBVIOUS
<1> USE DEF Init, StoreInit
<1>1. TypeOK
  BY DEF TypeOK, Database, Uploads, SessionState, PC
<1>2. LockInv /\ PendingInv
  BY DEF LockInv, PendingInv, NothingPendingWithoutWriter, Flushed
<1>3. AssetInv
  BY DEF AssetInv
<1>4. FileInv
  BY DEF FileInv, Flushed
<1> QED
  BY <1>1, <1>2, <1>3, <1>4 DEF IInv

(* What a request reads and may make of it. *)
LEMMA ViewType ==
    ASSUME IInv, NEW r \in Requests
    PROVE  /\ View(r) \in Database
           /\ [View(r) EXCEPT !.assets = @ \cup {r}] \in Database
           /\ [View(r) EXCEPT !.audit = @ \cup {r}] \in Database
BY DEF IInv, TypeOK, View, Database, Uploads

(* Before the file is stored: nothing is written, nothing is there. *)
LEMMA EarlyStep ==
    ASSUME IInv, NEW r \in Requests,
           Begin(r) \/ Reject(r) \/ Process(r) \/ FindExisting(r) \/ FindNothing(r)
             \/ Respond(r) \/ PutFails(r)
    PROVE  IInv'
<1> DEFINE place == pc'[r]
           early == {"idle", "submitted", "processed", "found", "storing"}
<1>1. /\ pc[r] \in early /\ files' = files
      /\ pc' = [pc EXCEPT ![r] = place]
      /\ place \in early \cup {"answered", "refused", "broken"}
      /\ UNCHANGED storeVars \/ ExitWithError(r)
  BY DEF Begin, Reject, Process, FindExisting, FindNothing, Respond, PutFails, Goto,
         IInv, TypeOK
<1> HIDE DEF place
<1>2. Moves(r, place)
  BY <1>1 DEF Moves, PC, Ended, IInv, TypeOK
<1>3. r \notin files /\ r \notin db.assets
  BY <1>1, WriterWrote DEF IInv, FileInv, Committed
<1>4. pc[r] \notin Flushed /\ place \notin Flushed
  BY <1>1 DEF Flushed
<1>5. FileOf(r)'
  BY <1>1, <1>3 DEF FileOf, Flushed, IInv, TypeOK
<1>6. CASE UNCHANGED storeVars
  BY <1>2, <1>3, <1>4, <1>5, <1>6, QuietStep
<1>7. CASE ExitWithError(r)
  <2>1. session' \in [Requests -> SessionState]
    BY <1>7 DEF ExitWithError, IInv, TypeOK, SessionState
  <2> QED
    BY <1>2, <1>3, <1>4, <1>5, <1>7, <2>1, DiscardStep DEF ExitWithError
<1> QED
  BY <1>1, <1>6, <1>7

LEMMA PutFileStep ==
    ASSUME IInv, NEW r \in Requests, PutFile(r)
    PROVE  IInv'
<1>1. r \notin db.assets
  BY WriterWrote DEF PutFile, Committed
<1>2. Moves(r, "adding")
  BY DEF Moves, PutFile, Goto, PC, Ended, Uploads, IInv, TypeOK
<1>3. FileOf(r)'
  BY DEF FileOf, PutFile, Goto, IInv, TypeOK, Flushed
<1> QED
  BY <1>1, <1>2, <1>3, QuietStep DEF PutFile, Flushed

LEMMA AddAssetStep ==
    ASSUME IInv, NEW r \in Requests, AddAsset(r)
    PROVE  IInv'
<1> DEFINE contents == [View(r) EXCEPT !.assets = @ \cup {r}]
<1>1. writer # r
  BY WriterWrote DEF AddAsset, Flushed
<1>2. View(r) = db /\ \A a \in db.assets : ImageOf[a] # ImageOf[r]
  BY <1>1 DEF AddAsset, SameImage, View
<1>3. contents \in Database /\ contents.assets = db.assets \cup {r} /\ contents.audit = db.audit
  BY <1>2, ViewType DEF IInv, TypeOK, Database
<1>4. Moves(r, "auditing") /\ Write(r, contents) /\ files' = files
  BY DEF Moves, AddAsset, Goto, PC, Flushed, IInv, TypeOK
<1>5. pc[r] = "adding"
  BY DEF AddAsset
<1> HIDE DEF contents
<1> QED
  BY <1>2, <1>3, <1>4, <1>5, WriteStep DEF Flushed

LEMMA RecordAuditStep ==
    ASSUME IInv, NEW r \in Requests, RecordAudit(r)
    PROVE  IInv'
<1> DEFINE contents == [View(r) EXCEPT !.audit = @ \cup {r}]
<1>1. pc[r] = "auditing" /\ writer = r
  BY WriterWrote DEF RecordAudit, Flushed
<1>2. View(r) = tx /\ tx.assets = db.assets \cup {r} /\ tx.audit = db.audit
      /\ \A a \in db.assets : ImageOf[a] # ImageOf[r]
  BY <1>1 DEF View, IInv, PendingInv
<1>3. /\ contents \in Database /\ contents.assets = db.assets \cup {r}
      /\ contents.audit = db.audit \cup {r}
  BY <1>2, ViewType DEF IInv, TypeOK, Database
<1>4. Moves(r, "committing") /\ Write(r, contents) /\ files' = files
  BY DEF Moves, RecordAudit, Goto, PC, Flushed, IInv, TypeOK
<1> HIDE DEF contents
<1> QED
  BY <1>1, <1>2, <1>3, <1>4, WriteStep DEF Flushed

LEMMA CommitUploadStep ==
    ASSUME IInv, NEW r \in Requests, CommitUpload(r) \/ CancelCommit(r)
    PROVE  IInv'
<1> USE DEF CommitUpload, CancelCommit, Goto
<1>1. PICK place \in {"done", "undoing"} : pc' = [pc EXCEPT ![r] = place]
  OBVIOUS
<1>2. Moves(r, place) /\ files' = files /\ pc[r] = "committing" /\ Commit(r)
  BY <1>1 DEF Moves, PC, Ended, IInv, TypeOK
<1> QED
  BY <1>2, CommitStep

(* An error after the file was stored: it is still there. *)
LEMMA FailStep ==
    ASSUME IInv, NEW r \in Requests, AddConflict(r) \/ Busy(r) \/ Cancel(r)
    PROVE  IInv'
<1> USE DEF AddConflict, Busy, Cancel, FlushError, ExitWithError, Goto
<1>1. pc[r] \in {"adding"} \cup Flushed /\ files' = files /\ Discard(r)
  OBVIOUS
<1>2. session' \in [Requests -> SessionState]
  BY DEF IInv, TypeOK, SessionState
<1>3. Moves(r, "deleting")
  BY DEF Moves, PC, IInv, TypeOK
<1>4. r \in files /\ r \notin db.assets
  BY <1>1, WriterWrote DEF IInv, FileInv, Committed, Flushed
<1>5. FileOf(r)'
  BY <1>1, <1>3, <1>4, PlaceStep DEF FileOf, Flushed, IInv
<1> QED
  BY <1>1, <1>2, <1>3, <1>4, <1>5, DiscardStep DEF Flushed

LEMMA DeleteStep ==
    ASSUME IInv, NEW r \in Requests, DeleteFile(r) \/ DeleteFails(r)
    PROVE  IInv'
<1> DEFINE place == pc'[r]
<1> USE DEF DeleteFile, DeleteFails, Goto
<1>1. /\ pc[r] \in {"deleting", "undoing"} /\ UNCHANGED storeVars
      /\ pc' = [pc EXCEPT ![r] = place]
      /\ \/ place = "leaked" /\ files' = files
         \/ place = "broken" /\ pc[r] = "deleting" /\ files' = files \ {r}
         \/ place = "undone" /\ pc[r] = "undoing" /\ files' = files \ {r}
  BY DEF IInv, TypeOK
<1> HIDE DEF place
<1>2. Moves(r, place)
  BY <1>1 DEF Moves, PC, Ended, IInv, TypeOK
<1>3. /\ r \in files
      /\ pc[r] = "deleting" => r \notin db.assets
      /\ pc[r] = "undoing" => r \in db.assets
  BY <1>1, WriterWrote DEF IInv, FileInv, Committed
<1>4. FileOf(r)'
  BY <1>1, <1>2, <1>3, PlaceStep DEF FileOf, Flushed, IInv, storeVars
<1>5. r \in db.assets => place \in Committed
  BY <1>1, <1>3 DEF Committed
<1> QED
  BY <1>1, <1>2, <1>4, <1>5, QuietStep DEF Flushed

LEMMA CrashStep ==
    ASSUME IInv, NEW r \in Requests, Crash(r)
    PROVE  IInv'
<1> USE DEF Crash, Abandon, Goto
<1>1. Discard(r) /\ session' \in [Requests -> SessionState]
  BY DEF IInv, TypeOK
<1>2. Moves(r, "crashed")
  BY DEF Moves, PC, Ended, Uploads, IInv, TypeOK
<1>3. FileOf(r)'
  BY <1>2, PlaceStep DEF FileOf, Flushed, IInv
<1> QED
  BY <1>1, <1>2, <1>3, DiscardStep DEF Flushed, Committed

LEMMA NextInv == IInv /\ [Next]_vars => IInv'
<1> SUFFICES ASSUME IInv, [Next]_vars PROVE IInv'
  OBVIOUS
<1>1. CASE UNCHANGED vars
  BY <1>1 DEF vars, storeVars, IInv, TypeOK, LockInv, PendingInv, AssetInv, FileInv,
              NothingPendingWithoutWriter
<1>2. ASSUME NEW r \in Requests, Begin(r) \/ Step(r) \/ Crash(r)
      PROVE  IInv'
  BY <1>2, EarlyStep, PutFileStep, AddAssetStep, RecordAuditStep, CommitUploadStep,
     FailStep, DeleteStep, CrashStep DEF Step
<1> QED
  BY <1>1, <1>2 DEF Next

-----------------------------------------------------------------------------
(* The lock, the pending transaction, the assets and the files agree with  *)
(* the place of every upload, for any number of uploads.                   *)
THEOREM InvariantHolds == Spec => []IInv
BY InitInv, NextInv, PTL DEF Spec

(* Every variable keeps its type; in particular every file, like every     *)
(* asset and entry, is that of some upload.                                *)
THEOREM TypeCorrect == Spec => []TypeOK
<1>1. IInv => TypeOK
  BY DEF IInv
<1> QED
  BY <1>1, InvariantHolds, PTL

(* A committed asset has its file, whatever other uploads of the same      *)
(* image, errors and crashes do; only a cancelled COMMIT takes it away.    *)
THEOREM Readable == Spec => []AssetsReadable
<1>1. IInv => AssetsReadable
  <2> SUFFICES ASSUME IInv, NEW a \in db.assets
               PROVE  \/ a \in files
                      \/ a \in Requests /\ pc[a] \in {"undone", "crashed"} /\ a \in db.audit
    BY DEF AssetsReadable
  <2>1. a \in Requests \cup Old
    BY DEF IInv, TypeOK, Database, Uploads
  <2>2. CASE a \in Old
    BY <2>2 DEF IInv, FileInv
  <2>3. CASE a \in Requests
    <3>1. pc[a] \in Committed /\ a \in db.audit
      BY <2>3 DEF IInv, AssetInv, Committed
    <3>2. pc[a] \in {"done", "undoing", "leaked"} => a \in files
      BY <2>3 DEF IInv, FileInv
    <3> QED
      BY <2>3, <3>1, <3>2 DEF Committed
  <2> QED
    BY <2>1, <2>2, <2>3
<1> QED
  BY InvariantHolds, <1>1, PTL

(* An upload that was answered left a file exactly if it left an asset.    *)
THEOREM Accounted == Spec => []FilesAccounted
<1>1. IInv => FilesAccounted
  BY DEF IInv, FileInv, AssetInv, FilesAccounted
<1> QED
  BY InvariantHolds, <1>1, PTL

(* A commit adds a new image with its entry; no other step is visible.     *)
LEMMA LibraryStep == IInv /\ [Next]_vars => [Library!Next]_<<db.assets, db.audit>>
<1> SUFFICES ASSUME IInv, [Next]_vars
             PROVE  Library!Next \/ UNCHANGED <<db.assets, db.audit>>
  OBVIOUS
<1>1. CASE UNCHANGED vars
  BY <1>1 DEF vars, storeVars
<1>2. ASSUME NEW r \in Requests, Begin(r) \/ Step(r) \/ Crash(r)
      PROVE  Library!Next \/ UNCHANGED <<db.assets, db.audit>>
  <2>1. CASE CommitUpload(r) \/ CancelCommit(r)
    <3>1. Library!Add(r)
      BY <2>1, CommitFacts DEF CommitUpload, CancelCommit, Library!Add
    <3> QED
      BY <3>1 DEF Library!Next, Uploads
  <2>2. CASE ~(CommitUpload(r) \/ CancelCommit(r))
    <3>1. db' = db
      BY <1>2, <2>2 DEF Step, Begin, Reject, Process, FindExisting, FindNothing, Respond,
         PutFile, PutFails, AddAsset, AddConflict, RecordAudit, Busy, Cancel, DeleteFile,
         DeleteFails, Crash, Abandon, Write, FlushError, ExitWithError, Discard, storeVars
    <3> QED
      BY <3>1
  <2> QED
    BY <2>1, <2>2
<1> QED
  BY <1>1, <1>2 DEF Next

(* Every behaviour of the uploads is one of the library.                   *)
THEOREM Refinement == Spec => ImplementsLibrary
<1>1. Init => Library!Init
  BY DEF Init, StoreInit, Library!Init
<1>2. IInv /\ [Next]_vars => [Library!Next]_<<db.assets, db.audit>>
  BY LibraryStep
<1> QED
  BY <1>1, <1>2, InvariantHolds, PTL DEF Spec, ImplementsLibrary, Library!Spec
=============================================================================
