---------------------------- MODULE MediaUpload ----------------------------
(***************************************************************************)
(* MediaService.upload_image (modules/media/service.py) over the local     *)
(* object storage: an image is processed, looked up by its checksum in a   *)
(* unit of work of its own, stored as a file, and then inserted with its   *)
(* audit entry; the file is deleted again when the insertion fails.        *)
(*                                                                         *)
(* A request's asset and its file are named by the request: the storage    *)
(* key is a fresh uuid4.  An image is what _process_image makes of the     *)
(* content, so that equal images have equal checksums.                     *)
(***************************************************************************)
EXTENDS SqliteUnitOfWork

CONSTANTS
    Old,        \* assets uploaded earlier, named like requests
    Images,
    ImageOf,    \* per upload, the processed image
    Faults      \* which of {"busy", "crash", "cancel", "disk"} may happen

Uploads == Requests \cup Old

ASSUME MediaAssumption ==
    /\ Requests \cap Old = {}
    /\ ImageOf \in [Uploads -> Images]
    /\ \A a, b \in Old : ImageOf[a] = ImageOf[b] => a = b
    /\ Faults \subseteq {"busy", "crash", "cancel", "disk"}

VARIABLES
    files,      \* the uploads whose file is in the storage
    pc          \* where each request is

vars == <<storeVars, files, pc>>

(* How a request ended: 201 for a new asset, 201 for the existing one, an  *)
(* image that is not accepted, another error, an error whose clean-up also *)
(* failed, a commit that was cancelled and undone by deleting the file, or *)
(* without any answer.                                                     *)
Ended == {"done", "answered", "refused", "broken", "leaked", "undone", "crashed"}

Flushed == {"auditing", "committing"}

PC == {"idle", "submitted", "processed", "found", "storing", "adding", "deleting", "undoing"}
        \cup Flushed \cup Ended

Database == [assets : SUBSET Uploads, audit : SUBSET Requests]

Init ==
    /\ StoreInit([assets |-> Old, audit |-> {}])
    /\ files = Old
    /\ pc = [r \in Requests |-> "idle"]

-----------------------------------------------------------------------------
Goto(r, label) == pc' = [pc EXCEPT ![r] = label]

SameImage(r) == {a \in View(r).assets : ImageOf[a] = ImageOf[r]}

(* The router has authorised the editor and read the file. *)
Begin(r) ==
    /\ pc[r] = "idle"
    /\ Goto(r, "submitted")
    /\ UNCHANGED <<storeVars, files>>

(* Too large, not an image, animated, too many pixels, alt_text too long.  *)
Reject(r) ==
    /\ pc[r] = "submitted"
    /\ Goto(r, "refused")
    /\ UNCHANGED <<storeVars, files>>

Process(r) ==
    /\ pc[r] = "submitted"
    /\ Goto(r, "processed")
    /\ UNCHANGED <<storeVars, files>>

(* get_by_checksum; either way the unit of work is left without a commit,  *)
(* which rolls back.                                                       *)
FindExisting(r) ==
    /\ pc[r] = "processed"
    /\ SameImage(r) # {}
    /\ ExitWithError(r)
    /\ Goto(r, "found")
    /\ UNCHANGED files

FindNothing(r) ==
    /\ pc[r] = "processed"
    /\ SameImage(r) = {}
    /\ ExitWithError(r)
    /\ Goto(r, "storing")
    /\ UNCHANGED files

(* The router reads the columns of the existing asset. *)
Respond(r) ==
    /\ pc[r] = "found"
    /\ Goto(r, IF session[r] = "loaded" THEN "answered" ELSE "broken")
    /\ UNCHANGED <<storeVars, files>>

-----------------------------------------------------------------------------
(* LocalObjectStorage.put: os.replace makes the file appear at once. *)
PutFile(r) ==
    /\ pc[r] = "storing"
    /\ files' = files \cup {r}
    /\ Goto(r, "adding")
    /\ UNCHANGED storeVars

PutFails(r) ==
    /\ "disk" \in Faults
    /\ pc[r] = "storing"
    /\ Goto(r, "broken")
    /\ UNCHANGED <<storeVars, files>>

AddAsset(r) ==
    /\ pc[r] = "adding"
    /\ SameImage(r) = {}
    /\ Write(r, [View(r) EXCEPT !.assets = @ \cup {r}])
    /\ Goto(r, "auditing")
    /\ UNCHANGED files

(* The checksum is unique and another upload of the image came first. *)
AddConflict(r) ==
    /\ pc[r] = "adding"
    /\ LockFree(r)
    /\ SameImage(r) # {}
    /\ FlushError(r)
    /\ Goto(r, "deleting")
    /\ UNCHANGED files

(* Mutant: the entry is recorded in a transaction of its own. *)
RecordAuditLater(r) ==
    /\ pc[r] = "auditing"
    /\ Commit(r)
    /\ Goto(r, "committing")
    /\ UNCHANGED files

(* Mutant: recorded before the flush that gives the asset its id. *)
RecordAuditUnflushed(r) ==
    /\ pc[r] = "auditing"
    /\ Write(r, [View(r) EXCEPT !.audit = @ \cup {NoRequest}])
    /\ Goto(r, "committing")
    /\ UNCHANGED files

RecordAudit(r) ==
    /\ pc[r] = "auditing"
    /\ Write(r, [View(r) EXCEPT !.audit = @ \cup {r}])
    /\ Goto(r, "committing")
    /\ UNCHANGED files

CommitUpload(r) ==
    /\ pc[r] = "committing"
    /\ Commit(r)
    /\ Goto(r, "done")
    /\ UNCHANGED files

-----------------------------------------------------------------------------
(* Mutant: an error of the flush is raised without the clean-up. *)
BusyKeepsFile(r) ==
    /\ "busy" \in Faults
    /\ pc[r] = "adding"
    /\ LockBusy(r)
    /\ FlushError(r)
    /\ Goto(r, "broken")
    /\ UNCHANGED files

(* "database is locked" after busy_timeout. *)
Busy(r) ==
    /\ "busy" \in Faults
    /\ pc[r] = "adding"
    /\ LockBusy(r)
    /\ FlushError(r)
    /\ Goto(r, "deleting")
    /\ UNCHANGED files

(* The task is cancelled inside the second unit of work, which rolls back; *)
(* `except BaseException' still deletes the file.                          *)
Cancel(r) ==
    /\ "cancel" \in Faults
    /\ pc[r] \in {"adding"} \cup Flushed
    /\ ExitWithError(r)
    /\ Goto(r, "deleting")
    /\ UNCHANGED files

(* The task is cancelled while it waits for COMMIT, which the driver's     *)
(* thread carries out all the same.                                        *)
CancelCommit(r) ==
    /\ "cancel" \in Faults
    /\ pc[r] = "committing"
    /\ Commit(r)
    /\ Goto(r, "undoing")
    /\ UNCHANGED files

(* Mutant: the file that has the image is deleted, not the request's own.  *)
DeleteFileOfImage(r) ==
    /\ pc[r] \in {"deleting", "undoing"}
    /\ files' = {a \in files : ImageOf[a] # ImageOf[r]}
    /\ Goto(r, IF pc[r] = "deleting" THEN "broken" ELSE "undone")
    /\ UNCHANGED storeVars

DeleteFile(r) ==
    /\ pc[r] \in {"deleting", "undoing"}
    /\ files' = files \ {r}
    /\ Goto(r, IF pc[r] = "deleting" THEN "broken" ELSE "undone")
    /\ UNCHANGED storeVars

DeleteFails(r) ==
    /\ "disk" \in Faults
    /\ pc[r] \in {"deleting", "undoing"}
    /\ Goto(r, "leaked")
    /\ UNCHANGED <<storeVars, files>>

(* The process dies, or the task is cancelled outside of the `try'; the    *)
(* thread that stores or deletes the file may have finished.               *)
Crash(r) ==
    /\ "crash" \in Faults
    /\ pc[r] \in PC \ (Ended \cup {"idle"})
    /\ Abandon(r)
    /\ \/ files' = files
       \/ pc[r] = "storing" /\ files' = files \cup {r}
       \/ pc[r] \in {"deleting", "undoing"} /\ files' = files \ {r}
    /\ Goto(r, "crashed")

-----------------------------------------------------------------------------
Step(r) ==
    \/ Reject(r) \/ Process(r) \/ FindExisting(r) \/ FindNothing(r) \/ Respond(r)
    \/ PutFile(r) \/ PutFails(r)
    \/ AddAsset(r) \/ AddConflict(r) \/ RecordAudit(r) \/ CommitUpload(r)
    \/ Busy(r) \/ Cancel(r) \/ CancelCommit(r) \/ DeleteFile(r) \/ DeleteFails(r)

Next == \E r \in Requests : Begin(r) \/ Step(r) \/ Crash(r)

Spec == Init /\ [][Next]_vars

-----------------------------------------------------------------------------
TypeOK ==
    /\ db \in Database
    /\ tx \in Database
    /\ writer \in Requests \cup {NoRequest}
    /\ session \in [Requests -> SessionState]
    /\ files \subseteq Uploads
    /\ pc \in [Requests -> PC]

(* A committed asset has its file, so that GET .../content can serve it,   *)
(* whatever other uploads of the same image, errors and crashes do; only a *)
(* cancelled COMMIT takes the file of an asset away.                       *)
AssetsReadable ==
    \A a \in db.assets :
        a \in files \/ (a \in Requests /\ pc[a] \in {"undone", "crashed"} /\ a \in db.audit)

(* No file is left behind: a request that ended with an answer has stored  *)
(* a file exactly if it committed an asset.                                *)
FilesAccounted ==
    \A r \in Requests :
        pc[r] \in {"done", "answered", "refused", "broken"}
            => (r \in files <=> r \in db.assets)

Library == INSTANCE MediaLibrary WITH assets <- db.assets, audit <- db.audit

(* The committed assets and their audit entries behave as the library: one *)
(* asset of an image, in one step with its entry.                          *)
ImplementsLibrary == Library!Spec

(* The README says that equal images are deduplicated: without any fault   *)
(* an upload does not end in an error because the image is an asset.       *)
DuplicateAnswered ==
    \A r \in Requests :
        pc[r] = "broken" => \A a \in db.assets : ImageOf[a] # ImageOf[r]

-----------------------------------------------------------------------------
(* How the files, the lock and the places of the uploads go together. *)
LockInv ==
    /\ NothingPendingWithoutWriter
    /\ \A r \in Requests : pc[r] \in Flushed <=> writer = r

(* What the writer is about to commit is its own asset and entry. *)
PendingInv ==
    \A r \in Requests : writer = r =>
        /\ tx.assets = db.assets \cup {r}
        /\ tx.audit = IF pc[r] = "committing" THEN db.audit \cup {r} ELSE db.audit
        /\ \A a \in db.assets : ImageOf[a] # ImageOf[r]

AssetInv ==
    /\ Old \subseteq db.assets
    /\ db.audit = db.assets \ Old
    /\ \A a, b \in db.assets : ImageOf[a] = ImageOf[b] => a = b
    /\ \A r \in Requests \cap db.assets :
          pc[r] \in {"done", "undoing", "undone", "leaked", "crashed"}

FileInv ==
    /\ Old \subseteq files
    /\ \A r \in Requests :
          /\ pc[r] \in {"adding", "deleting", "undoing", "done", "leaked"} \cup Flushed
                => r \in files
          /\ pc[r] \in {"done", "undoing", "undone"} => r \in db.assets
          /\ pc[r] \in {"idle", "submitted", "processed", "found", "storing",
                        "answered", "refused", "broken", "undone"} => r \notin files

IInv == TypeOK /\ LockInv /\ PendingInv /\ AssetInv /\ FileInv
=============================================================================
