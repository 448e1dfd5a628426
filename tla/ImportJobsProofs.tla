------------------------- MODULE ImportJobsProofs -------------------------
(* Theorems about ImportJobs for any requests, targets, bundles and faults. *)
EXTENDS ImportJobs, TLAPS

USE NoRequestAssumption, ImportAssumption

(* Every place a request can be is written to pc by Goto or NextItem.      *)
LEMMA PlaceTypes ==
    /\ Flushed \subseteq PC /\ Applying \subseteq PC /\ Ended \subseteq PC
    /\ \A place \in {"idle", "submitted", "created", "fetching", "handling", "recording",
                     "lookup", "upsert", "complete", "jobAdded", "runningSaved", "auditing",
                     "committing", "failedSaved", "done", "conflict", "reported", "broken",
                     "crashed", "unanswered"} : place \in PC
BY DEF PC, Flushed, Applying, Ended

(* The writer's view of the database is a database.                        *)
LEMMA ViewType ==
    ASSUME TypeOK, NEW r \in Requests
    PROVE  /\ View(r) \in Database
           /\ \A s \in Status : SetJob(r, s) \in Database
           /\ [View(r) EXCEPT !.audit = @ \cup {r}] \in Database
           /\ \A i \in Items : \A row \in Row \cup {NoRow} :
                [View(r) EXCEPT !.rows[i] = row] \in Database
<1>1. View(r) \in Database
  BY DEF View, TypeOK
<1>2. ASSUME NEW s \in Status
      PROVE  SetJob(r, s) \in Database
  BY <1>1 DEF SetJob, Database
<1>3. [View(r) EXCEPT !.audit = @ \cup {r}] \in Database
  BY <1>1 DEF Database
<1>4. ASSUME NEW i \in Items, NEW row \in Row \cup {NoRow}
      PROVE  [View(r) EXCEPT !.rows[i] = row] \in Database
  BY <1>1, <1>4 DEF Database
<1> QED
  BY <1>1, <1>2, <1>3, <1>4

(* The rows the applier looks at and writes are rows.                      *)
LEMMA RowType ==
    ASSUME TypeOK, NEW r \in Requests, idx[r] <= Len(Plan[r])
    PROVE  /\ Item(r) \in Items
           /\ View(r).rows[Item(r)] \in Row \cup {NoRow}
           /\ Found(r) \in Row \cup {NoRow}
           /\ Imported(r) \in Row
           /\ seen[r] # NoRow /\ View(r).rows[Item(r)] # NoRow => Merge(r) \in Row
<1>1. Item(r) \in Items
  BY DEF Item, TypeOK
<1>0. View(r) \in Database
  BY ViewType
<1>2. View(r).rows[Item(r)] \in Row \cup {NoRow}
  BY <1>0, <1>1 DEF Database
<1>3. Found(r) \in Row \cup {NoRow}
  BY <1>2 DEF Found
<1>4. Imported(r) \in Row
  BY <1>1 DEF Imported, Row
<1>5. ASSUME seen[r] # NoRow, View(r).rows[Item(r)] # NoRow
      PROVE  Merge(r) \in Row
  <2>1. View(r).rows[Item(r)] \in Row /\ Bundle[r][Item(r)] \in Contents
    BY <1>1, <1>2, <1>5
  <2> QED
    BY <2>1 DEF Merge, Row
<1> QED
  BY <1>1, <1>2, <1>3, <1>4, <1>5

-----------------------------------------------------------------------------
(* A step changes the place of one request, and its cursor at most.        *)
Moves(r, place) ==
    /\ pc' = [pc EXCEPT ![r] = place]
    /\ place \in PC
    /\ idx' \in [Requests -> Nat \ {0}] /\ seen' \in [Requests -> Row \cup {NoRow}]
    /\ \A q \in Requests \ {r} : idx'[q] = idx[q] /\ seen'[q] = seen[q]

(* Where a request may be after a step that leaves the database alone.     *)
QuietPlace(r, place) ==
    /\ pc[r] \notin Flushed /\ place \notin Flushed
    /\ db.jobs[r] \in JobAt(place)
    /\ writer = r => place \in Applying
    /\ place \in PC \ (Ended \cup {"handling"}) => session[r] = "loaded"
    /\ place = "handling" /\ session[r] = "loaded" => db.jobs[r] = "running"

(* A step that sends no statement, or a SELECT, preserves the invariant.   *)
LEMMA QuietStep ==
    ASSUME IInv, NEW r \in Requests, NEW place, Moves(r, place), UNCHANGED storeVars,
           QuietPlace(r, place),
           place = "upsert" =>
             /\ idx'[r] <= Len(Plan[r])
             /\ seen'[r] # NoRow /\ Plan[r][idx'[r]] \notin Tables
                  => View(r).rows[Plan[r][idx'[r]]] # NoRow
    PROVE  IInv'
<1> USE DEF IInv
<1>1. TypeOK'
  BY DEF TypeOK, Moves, storeVars
<1>2. SeenInv'
  BY DEF SeenInv, Moves, TypeOK, View, Item, storeVars
<1>3. WriterInv'
  BY DEF WriterInv, Moves, QuietPlace, TypeOK, storeVars
<1>4. PendingInv'
  <2> SUFFICES ASSUME NEW q \in Requests, writer' = q
               PROVE  PendingOf(q)'
    BY DEF PendingInv
  <2>1. PendingOf(q)
    BY DEF PendingInv, storeVars
  <2>2. PendingJobAt(pc'[q]) = PendingJobAt(pc[q]) /\ (pc'[q] # pc[q] => pc[q] \in Applying)
        /\ (pc'[q] # pc[q] => pc'[q] \in Applying)
    BY DEF WriterInv, Moves, QuietPlace, TypeOK, storeVars, PendingJobAt, Applying, Flushed
  <2> QED
    BY <2>1, <2>2 DEF PendingOf, storeVars, Applying
<1>5. JobInv'
  BY DEF JobInv, Moves, QuietPlace, TypeOK, storeVars, NoTwoActive, AppliedWithJobAndAudit
<1> QED
  BY <1>1, <1>2, <1>3, <1>4, <1>5

(* What a request's transaction may hold at the place it goes to.          *)
OwnWrites(r, place, contents) ==
    /\ contents \in Database
    /\ contents.jobs = [View(r).jobs EXCEPT ![r] = PendingJobAt(place)]
    /\ contents.audit = IF place = "committing" THEN View(r).audit \cup {r} ELSE View(r).audit
    /\ \A i \in Items : contents.rows[i] # View(r).rows[i]
                          => contents.rows[i] # NoRow /\ contents.rows[i].by = r
    /\ place \notin Applying => contents.rows = View(r).rows

(* A step that flushes an INSERT or UPDATE preserves the invariant.        *)
LEMMA FlushStep ==
    ASSUME IInv, NEW r \in Requests, NEW place, NEW contents,
           Moves(r, place), Write(r, contents), OwnWrites(r, place, contents),
           place \in Flushed \cup Applying, place # "upsert",
           pc[r] \in {"submitted", "created", "upsert", "complete", "auditing", "recording"},
           place \in {"jobAdded", "runningSaved", "failedSaved"} => writer = NoRequest,
           place = "auditing" => pc[r] = "complete",
           place = "committing" <=> pc[r] = "auditing",
           place \in Applying => pc[r] \in Applying,
           session[r] = "loaded", db.jobs[r] \in JobAt(place), NoTwoActive(contents)
    PROVE  IInv'
<1> USE DEF IInv
<1>1. TypeOK'
  BY DEF TypeOK, Moves, Write, OwnWrites
<1>2. SeenInv'
  <2> SUFFICES ASSUME NEW q \in Requests, pc'[q] = "upsert"
               PROVE  /\ idx'[q] <= Len(Plan[q])
                      /\ seen'[q] # NoRow /\ Item(q)' \notin Tables
                            => View(q)'.rows[Item(q)'] # NoRow
    BY DEF SeenInv
  <2>1. q # r /\ idx'[q] = idx[q] /\ seen'[q] = seen[q] /\ pc'[q] = pc[q]
    BY DEF Moves, TypeOK
  <2>2. writer # q /\ writer' # q /\ db' = db
    BY <2>1 DEF Write, LockFree
  <2> QED
    BY <2>1, <2>2 DEF SeenInv, View, Item
<1>3. WriterInv'
  BY DEF WriterInv, Moves, TypeOK, Write, LockFree, Flushed, Applying
<1>4. PendingInv'
  <2>1. PendingOf(r)'
    <3>1. CASE writer = r
      <4>1. PendingOf(r) /\ View(r) = tx /\ tx' = contents /\ db' = db /\ pc'[r] = place
        BY <3>1 DEF PendingInv, View, Moves, TypeOK, Write
      <4>2. pc[r] \in {"upsert", "complete", "auditing"}
        BY <3>1 DEF WriterInv, Flushed, Applying
      <4>3. db \in Database /\ tx \in Database
        BY DEF TypeOK
      <4>4. /\ \A q \in Requests \ {r} : tx'.jobs[q] = db'.jobs[q]
            /\ tx'.jobs[r] = PendingJobAt(pc'[r])
        BY <4>1, <4>3 DEF PendingOf, OwnWrites, Database
      <4>5. tx'.audit = IF pc'[r] = "committing" THEN db'.audit \cup {r} ELSE db'.audit
        BY <4>1, <4>2 DEF PendingOf, OwnWrites
      <4>6. \A i \in Items : tx'.rows[i] # db'.rows[i]
                               => tx'.rows[i] # NoRow /\ tx'.rows[i].by = r
        BY <4>1 DEF PendingOf, OwnWrites
      <4>7. pc'[r] \in Applying \cup {"auditing", "committing"}
        BY <3>1, <4>1, <4>2 DEF Flushed, Applying
      <4> QED
        BY <4>1, <4>4, <4>5, <4>6, <4>7 DEF PendingOf
    <3>2. CASE writer = NoRequest
      <4>1. View(r) = db /\ tx' = contents /\ db' = db /\ pc'[r] = place
        BY <3>2 DEF View, Moves, TypeOK, Write
      <4>2. db \in Database
        BY DEF TypeOK
      <4> QED
        BY <4>1, <4>2 DEF PendingOf, OwnWrites, Database
    <3> QED
      BY <3>1, <3>2 DEF Write, LockFree
  <2> QED
    BY <2>1 DEF PendingInv, Write
<1>5. JobInv'
  BY DEF JobInv, Moves, TypeOK, Write, NoTwoActive, AppliedWithJobAndAudit
<1> QED
  BY <1>1, <1>2, <1>3, <1>4, <1>5

(* The end of a transaction without a commit preserves the invariant.      *)
LEMMA DiscardStep ==
    ASSUME IInv, NEW r \in Requests, NEW place, Moves(r, place), Discard(r),
           session' \in [Requests -> SessionState],
           \A q \in Requests \ {r} : session'[q] = session[q],
           place \in Ended \cup {"handling"}, db.jobs[r] \in JobAt(place),
           place = "handling" => session'[r] # "loaded"
    PROVE  IInv'
<1> USE DEF IInv
<1>0. place \notin Flushed \cup Applying /\ place # "upsert"
      /\ place \notin PC \ (Ended \cup {"handling"})
  BY DEF Ended, Flushed, Applying, InProgress
<1>1. TypeOK'
  BY DEF TypeOK, Moves, Discard
<1>2. SeenInv'
  <2> SUFFICES ASSUME NEW q \in Requests, pc'[q] = "upsert"
               PROVE  /\ idx'[q] <= Len(Plan[q])
                      /\ seen'[q] # NoRow /\ Item(q)' \notin Tables
                            => View(q)'.rows[Item(q)'] # NoRow
    BY DEF SeenInv
  <2>1. q # r /\ idx'[q] = idx[q] /\ seen'[q] = seen[q] /\ pc'[q] = pc[q]
    BY <1>0 DEF Moves, TypeOK
  <2>2. (writer' = q <=> writer = q) /\ (writer = q => tx' = tx) /\ db' = db
    BY <2>1 DEF Discard
  <2> QED
    BY <2>1, <2>2 DEF SeenInv, View, Item
<1>3. WriterInv'
  BY <1>0 DEF WriterInv, Moves, TypeOK, Discard
<1>4. PendingInv'
  <2> SUFFICES ASSUME NEW q \in Requests, writer' = q
               PROVE  PendingOf(q)'
    BY DEF PendingInv
  <2>1. q # r /\ writer = q /\ tx' = tx /\ db' = db /\ pc'[q] = pc[q]
    BY DEF Discard, Moves, TypeOK
  <2>2. PendingOf(q)
    BY <2>1 DEF PendingInv
  <2> QED
    BY <2>1, <2>2 DEF PendingOf, PendingJobAt
<1>5. JobInv'
  <2>1. db' = db /\ (tx' = tx \/ tx' = db)
    BY DEF Discard
  <2> QED
    BY <2>1 DEF JobInv, Moves, TypeOK, NoTwoActive, AppliedWithJobAndAudit
<1> QED
  BY <1>1, <1>2, <1>3, <1>4, <1>5

(* Each commit, and the place it leads to, answered or not.                *)
CommitMoves == {<<"jobAdded", "created">>, <<"runningSaved", "fetching">>,
                <<"committing", "done">>, <<"failedSaved", "reported">>,
                <<"jobAdded", "unanswered">>, <<"runningSaved", "unanswered">>,
                <<"committing", "unanswered">>, <<"failedSaved", "unanswered">>}

(* What the writer of a flushed transaction is about to make visible.      *)
LEMMA CommittedJob ==
    ASSUME IInv, NEW r \in Requests, NEW place, <<pc[r], place>> \in CommitMoves
    PROVE  /\ pc[r] \in Flushed /\ writer = r /\ PendingOf(r) /\ session[r] = "loaded"
           /\ tx.jobs[r] \in JobAt(place)
           /\ tx.jobs[r] = "completed" <=> pc[r] = "committing"
           /\ db.jobs[r] # "completed"
<1>1. pc[r] \in Flushed /\ pc[r] \in PC \ (Ended \cup {"handling"})
  BY DEF CommitMoves, Flushed, InProgress, PC, Ended
<1>2. writer = r /\ PendingOf(r) /\ session[r] = "loaded"
  BY <1>1 DEF IInv, WriterInv, PendingInv
<1>3. db.jobs[r] \in JobAt(pc[r]) /\ tx.jobs[r] = PendingJobAt(pc[r])
  BY <1>2 DEF IInv, JobInv, PendingOf
<1>4. CASE pc[r] = "jobAdded"
  BY <1>1, <1>2, <1>3, <1>4 DEF CommitMoves, JobAt, PendingJobAt, Applying, Status
<1>5. CASE pc[r] = "runningSaved"
  BY <1>1, <1>2, <1>3, <1>5 DEF CommitMoves, JobAt, PendingJobAt, Applying, Status
<1>6. CASE pc[r] = "committing"
  BY <1>1, <1>2, <1>3, <1>6 DEF CommitMoves, JobAt, PendingJobAt, Applying, Status
<1>7. CASE pc[r] = "failedSaved"
  BY <1>1, <1>2, <1>3, <1>7 DEF CommitMoves, JobAt, PendingJobAt, Applying, Status
<1> QED
  BY <1>4, <1>5, <1>6, <1>7 DEF CommitMoves

(* A commit preserves the invariant.                                       *)
LEMMA CommitStep ==
    ASSUME IInv, NEW r \in Requests, NEW place, Moves(r, place), Commit(r),
           <<pc[r], place>> \in CommitMoves
    PROVE  IInv'
<1> USE DEF IInv
<1>0. /\ pc[r] \in Flushed /\ writer = r /\ PendingOf(r) /\ session[r] = "loaded"
      /\ tx.jobs[r] \in JobAt(place) /\ (tx.jobs[r] = "completed" <=> pc[r] = "committing")
      /\ db.jobs[r] # "completed"
  BY CommittedJob
<1>1. /\ db' = tx /\ tx' = tx /\ writer' = NoRequest /\ session' = session
      /\ db \in Database /\ tx \in Database
  BY <1>0 DEF Commit, View, TypeOK
<1>2. place \in {"created", "fetching", "done", "reported", "unanswered"} /\ pc'[r] = place
      /\ \A q \in Requests \ {r} : pc'[q] = pc[q] /\ idx'[q] = idx[q] /\ seen'[q] = seen[q]
  BY DEF CommitMoves, Moves, TypeOK
<1>3. TypeOK'
  BY <1>1 DEF TypeOK, Moves
<1>4. SeenInv'
  <2> SUFFICES ASSUME NEW q \in Requests, pc'[q] = "upsert"
               PROVE  /\ idx'[q] <= Len(Plan[q])
                      /\ seen'[q] # NoRow /\ Item(q)' \notin Tables
                            => View(q)'.rows[Item(q)'] # NoRow
    BY DEF SeenInv
  <2>1. q # r /\ pc[q] = "upsert" /\ Item(q)' = Item(q)
    BY <1>2 DEF Item
  <2>2. idx[q] <= Len(Plan[q])
        /\ (seen[q] # NoRow /\ Item(q) \notin Tables => db.rows[Item(q)] # NoRow)
    BY <1>0, <2>1 DEF SeenInv, View
  <2>3. Item(q) \in Items
    BY <2>2 DEF Item, TypeOK
  <2>4. View(q)' = tx
    BY <1>1 DEF View
  <2> QED
    BY <1>0, <1>2, <2>1, <2>2, <2>3, <2>4 DEF PendingOf
<1>5. WriterInv'
  BY <1>0, <1>1, <1>2 DEF WriterInv, PendingOf, Flushed, Applying
<1>6. PendingInv'
  BY <1>1, NoRequestAssumption DEF PendingInv
<1>7. JobInv'
  <2>1. \A q \in Requests : db'.jobs[q] \in JobAt(pc'[q])
    BY <1>0, <1>1, <1>2 DEF JobInv, PendingOf
  <2>2. NoTwoActive(db)' /\ NoTwoActive(tx)'
    BY <1>1 DEF JobInv, NoTwoActive
  <2>3. \A q \in Requests : q \in tx.audit <=> tx.jobs[q] = "completed"
    <3> SUFFICES ASSUME NEW q \in Requests
                 PROVE  q \in tx.audit <=> tx.jobs[q] = "completed"
      OBVIOUS
    <3>1. q \in db.audit <=> db.jobs[q] = "completed"
      BY DEF JobInv, AppliedWithJobAndAudit
    <3>2. CASE q = r
      BY <1>0, <3>1, <3>2 DEF PendingOf
    <3>3. CASE q # r
      <4>1. tx.jobs[q] = db.jobs[q]
        BY <1>0, <3>3 DEF PendingOf
      <4>2. q \in tx.audit <=> q \in db.audit
        BY <1>0, <3>3 DEF PendingOf
      <4> QED
        BY <3>1, <4>1, <4>2
    <3> QED
      BY <3>2, <3>3
  <2>4. ASSUME NEW i \in Items, NEW q \in Requests, tx.rows[i] # NoRow, tx.rows[i].by = q
        PROVE  tx.jobs[q] = "completed"
    <3>1. CASE tx.rows[i] = db.rows[i]
      <4>1. db.jobs[q] = "completed" /\ q # r
        BY <1>0, <2>4, <3>1 DEF JobInv, AppliedWithJobAndAudit
      <4> QED
        BY <1>0, <4>1 DEF PendingOf
    <3>2. CASE tx.rows[i] # db.rows[i]
      BY <1>0, <2>4, <3>2 DEF PendingOf, CommitMoves, Applying
    <3> QED
      BY <3>1, <3>2
  <2> QED
    BY <1>1, <2>1, <2>2, <2>3, <2>4 DEF JobInv, AppliedWithJobAndAudit
<1> QED
  BY <1>3, <1>4, <1>5, <1>6, <1>7

(* An administrator's delete preserves the invariant.                      *)
LEMMA DeleteStep ==
    ASSUME IInv, NEW i \in Items, AdminDelete(i)
    PROVE  IInv'
<1> USE DEF IInv
<1>1. /\ writer = NoRequest /\ writer' = NoRequest /\ tx' = db' /\ session' = session
      /\ pc' = pc /\ idx' = idx /\ seen' = seen /\ db \in Database
      /\ db.rows[i] \in Row /\ db.rows \in [Items -> Row \cup {NoRow}]
  BY DEF AdminDelete, TypeOK, Database
<1>2. PICK row \in Row \cup {NoRow} :
        /\ db' = [db EXCEPT !.rows = [@ EXCEPT ![i] = row]]
        /\ row # NoRow => row.by = NoRequest
        /\ i \notin Tables => row # NoRow
  <2> DEFINE gone == [db.rows[i] EXCEPT !.deleted = TRUE, !.by = NoRequest]
  <2>1. gone \in Row /\ gone.by = NoRequest
    BY <1>1 DEF Row
  <2>2. CASE i \in Tables
    BY <1>1, <2>2 DEF AdminDelete, Database
  <2>3. CASE i \notin Tables
    BY <1>1, <2>1, <2>3 DEF AdminDelete, Database
  <2> QED
    BY <2>2, <2>3
<1>3. /\ db' \in Database /\ db'.jobs = db.jobs /\ db'.audit = db.audit
      /\ db'.rows[i] = row
      /\ \A j \in Items \ {i} : db'.rows[j] = db.rows[j]
  BY <1>1, <1>2 DEF Database
<1>4. TypeOK'
  BY <1>1, <1>3 DEF TypeOK
<1>5. SeenInv'
  <2> SUFFICES ASSUME NEW q \in Requests, pc[q] = "upsert"
               PROVE  /\ idx[q] <= Len(Plan[q])
                      /\ seen[q] # NoRow /\ Item(q) \notin Tables
                            => db'.rows[Item(q)] # NoRow
    BY <1>1 DEF SeenInv, View, Item
  <2>1. idx[q] <= Len(Plan[q])
        /\ (seen[q] # NoRow /\ Item(q) \notin Tables => db.rows[Item(q)] # NoRow)
    BY <1>1 DEF SeenInv, View
  <2>2. Item(q) \in Items
    BY <2>1 DEF Item, TypeOK
  <2> QED
    BY <1>2, <1>3, <2>1, <2>2
<1>6. WriterInv'
  BY <1>1, <1>3 DEF WriterInv
<1>7. PendingInv'
  BY <1>1, NoRequestAssumption DEF PendingInv
<1>8. JobInv'
  BY <1>1, <1>2, <1>3 DEF JobInv, NoTwoActive, AppliedWithJobAndAudit
<1> QED
  BY <1>4, <1>5, <1>6, <1>7, <1>8

-----------------------------------------------------------------------------
(* Facts about a request at its place that the action cases share.         *)
LEMMA AtPlace ==
    ASSUME IInv, NEW r \in Requests
    PROVE  /\ pc[r] \in PC /\ db.jobs[r] \in JobAt(pc[r])
           /\ writer = r => pc[r] \in Flushed \cup Applying
           /\ pc[r] \in PC \ (Ended \cup {"handling"}) => session[r] = "loaded"
           /\ pc[r] = "handling" /\ session[r] = "loaded" => db.jobs[r] = "running"
           /\ idx[r] \in Nat \ {0} /\ seen[r] \in Row \cup {NoRow}
BY DEF IInv, TypeOK, WriterInv, JobInv

(* Goto moves the request and leaves the cursors alone.                    *)
LEMMA GotoMoves ==
    ASSUME IInv, NEW r \in Requests, NEW place \in PC, Goto(r, place)
    PROVE  Moves(r, place) /\ pc'[r] = place /\ idx' = idx /\ seen' = seen
BY DEF IInv, TypeOK, Moves, Goto

(* Overwriting a job's status keeps targets apart, if the status is not an *)
(* active one, the job was active before, or the target is free.           *)
LEMMA SetJobKeepsTargetsApart ==
    ASSUME IInv, NEW r \in Requests, NEW s \in Status, LockFree(r),
           s \in Active => View(r).jobs[r] \in Active \/ ~TargetTaken(r)
    PROVE  NoTwoActive(SetJob(r, s))
<1>1. View(r) \in Database /\ NoTwoActive(View(r))
  BY ViewType DEF IInv, JobInv, View
<1>2. /\ SetJob(r, s).jobs[r] = s
      /\ \A q \in Requests \ {r} : SetJob(r, s).jobs[q] = View(r).jobs[q]
  BY <1>1 DEF SetJob, Database
<1>3. ASSUME NEW q \in Requests \ {r}, Target[q] = Target[r], s \in Active
      PROVE  View(r).jobs[q] \notin Active
  BY <1>1, <1>3 DEF NoTwoActive, TargetTaken
<1> QED
  BY <1>1, <1>2, <1>3 DEF NoTwoActive

LEMMA SubmitInv == ASSUME IInv, NEW r \in Requests, Submit(r) PROVE IInv'
<1>1. Moves(r, "submitted") /\ UNCHANGED storeVars
  BY GotoMoves, PlaceTypes DEF Submit
<1>2. QuietPlace(r, "submitted")
  BY AtPlace DEF Submit, QuietPlace, JobAt, Flushed, Applying, InProgress, PC, Ended
<1> QED
  BY <1>1, <1>2, QuietStep

LEMMA FetchBundleInv == ASSUME IInv, NEW r \in Requests, FetchBundle(r) PROVE IInv'
<1>1. Moves(r, "lookup") /\ UNCHANGED storeVars
  BY GotoMoves, PlaceTypes DEF FetchBundle
<1>2. QuietPlace(r, "lookup")
  BY AtPlace DEF FetchBundle, QuietPlace, JobAt, Flushed, Applying, InProgress, PC, Ended
<1> QED
  BY <1>1, <1>2, QuietStep

LEMMA FetchFailsInv == ASSUME IInv, NEW r \in Requests, FetchFails(r) PROVE IInv'
<1>1. Moves(r, "handling") /\ UNCHANGED storeVars
  BY GotoMoves, PlaceTypes DEF FetchFails
<1>2. QuietPlace(r, "handling")
  BY AtPlace DEF FetchFails, QuietPlace, JobAt, Flushed, Applying, InProgress, PC, Ended
<1> QED
  BY <1>1, <1>2, QuietStep

LEMMA ApplyDoneInv == ASSUME IInv, NEW r \in Requests, ApplyDone(r) PROVE IInv'
<1>1. Moves(r, "complete") /\ UNCHANGED storeVars
  BY GotoMoves, PlaceTypes DEF ApplyDone
<1>2. QuietPlace(r, "complete")
  BY AtPlace DEF ApplyDone, QuietPlace, JobAt, Flushed, Applying, InProgress, PC, Ended
<1> QED
  BY <1>1, <1>2, QuietStep

LEMMA HandleFailureInv == ASSUME IInv, NEW r \in Requests, HandleFailure(r) PROVE IInv'
<1>1. Moves(r, "recording") /\ UNCHANGED storeVars
  BY GotoMoves, PlaceTypes DEF HandleFailure
<1>2. QuietPlace(r, "recording")
  BY AtPlace DEF HandleFailure, QuietPlace, JobAt, Flushed, Applying, InProgress, PC, Ended
<1> QED
  BY <1>1, <1>2, QuietStep

LEMMA HandlerRaisesInv == ASSUME IInv, NEW r \in Requests, HandlerRaises(r) PROVE IInv'
<1>1. Moves(r, "broken") /\ UNCHANGED storeVars
  BY GotoMoves, PlaceTypes DEF HandlerRaises
<1>2. QuietPlace(r, "broken")
  BY AtPlace DEF HandlerRaises, QuietPlace, JobAt, Flushed, Applying, InProgress, PC, Ended
<1> QED
  BY <1>1, <1>2, QuietStep

(* Writing the request's own job status is within its own writes.          *)
LEMMA SetJobOwn ==
    ASSUME IInv, NEW r \in Requests, NEW place, PendingJobAt(place) \in Status,
           place # "committing"
    PROVE  OwnWrites(r, place, SetJob(r, PendingJobAt(place)))
<1>1. View(r) \in Database /\ SetJob(r, PendingJobAt(place)) \in Database
  BY ViewType DEF IInv
<1> QED
  BY <1>1 DEF OwnWrites, SetJob, Database

LEMMA AddJobInv == ASSUME IInv, NEW r \in Requests, AddJob(r) PROVE IInv'
<1>1. Moves(r, "jobAdded") /\ Write(r, SetJob(r, "pending")) /\ LockFree(r)
  BY GotoMoves, PlaceTypes DEF AddJob, Write
<1>2. PendingJobAt("jobAdded") = "pending" /\ "pending" \in Status
  BY DEF PendingJobAt, Status
<1>3. OwnWrites(r, "jobAdded", SetJob(r, "pending"))
  BY <1>2, SetJobOwn
<1>4. session[r] = "loaded" /\ db.jobs[r] \in JobAt("jobAdded")
  BY AtPlace DEF AddJob, JobAt, Applying, PC, Ended
<1>5. writer = NoRequest
  BY <1>1, AtPlace DEF AddJob, LockFree, Flushed, Applying
<1>7. NoTwoActive(SetJob(r, "pending"))
  BY <1>1, <1>2, SetJobKeepsTargetsApart DEF AddJob
<1> QED
  BY <1>1, <1>3, <1>4, <1>5, <1>7, FlushStep DEF AddJob, Flushed, Applying

LEMMA MarkRunningInv == ASSUME IInv, NEW r \in Requests, MarkRunning(r) PROVE IInv'
<1>1. Moves(r, "runningSaved") /\ Write(r, SetJob(r, "running")) /\ LockFree(r)
  BY GotoMoves, PlaceTypes DEF MarkRunning, Write
<1>2. PendingJobAt("runningSaved") = "running" /\ "running" \in Status
  BY DEF PendingJobAt, Status
<1>3. OwnWrites(r, "runningSaved", SetJob(r, "running"))
  BY <1>2, SetJobOwn
<1>4. session[r] = "loaded" /\ db.jobs[r] \in JobAt("runningSaved")
  BY AtPlace DEF MarkRunning, JobAt, Applying, InProgress, PC, Ended
<1>5. writer = NoRequest
  BY <1>1, AtPlace DEF MarkRunning, LockFree, Flushed, Applying
<1>6. View(r).jobs[r] \in Active
  BY <1>5, AtPlace DEF MarkRunning, JobAt, Active, View, Applying
<1>7. NoTwoActive(SetJob(r, "running"))
  BY <1>1, <1>2, <1>6, SetJobKeepsTargetsApart
<1> QED
  BY <1>1, <1>3, <1>4, <1>5, <1>7, FlushStep DEF MarkRunning, Flushed, Applying

LEMMA SaveFailedInv == ASSUME IInv, NEW r \in Requests, SaveFailed(r) PROVE IInv'
<1>1. Moves(r, "failedSaved") /\ Write(r, SetJob(r, "failed")) /\ LockFree(r)
  BY GotoMoves, PlaceTypes DEF SaveFailed, Write
<1>2. PendingJobAt("failedSaved") = "failed" /\ "failed" \in Status
  BY DEF PendingJobAt, Status
<1>3. OwnWrites(r, "failedSaved", SetJob(r, "failed"))
  BY <1>2, SetJobOwn
<1>4. session[r] = "loaded" /\ db.jobs[r] \in JobAt("failedSaved")
  BY AtPlace DEF SaveFailed, JobAt, Applying, InProgress, PC, Ended
<1>5. writer = NoRequest
  BY <1>1, AtPlace DEF SaveFailed, LockFree, Flushed, Applying
<1>7. NoTwoActive(SetJob(r, "failed"))
  BY <1>1, <1>2, SetJobKeepsTargetsApart DEF Active
<1> QED
  BY <1>1, <1>3, <1>4, <1>5, <1>7, FlushStep DEF SaveFailed, Flushed, Applying

LEMMA SaveCompletedInv == ASSUME IInv, NEW r \in Requests, SaveCompleted(r) PROVE IInv'
<1>1. Moves(r, "auditing") /\ Write(r, SetJob(r, "completed")) /\ LockFree(r)
  BY GotoMoves, PlaceTypes DEF SaveCompleted, Write
<1>2. PendingJobAt("auditing") = "completed" /\ "completed" \in Status
  BY DEF PendingJobAt, Status
<1>3. OwnWrites(r, "auditing", SetJob(r, "completed"))
  BY <1>2, SetJobOwn
<1>4. session[r] = "loaded" /\ db.jobs[r] \in JobAt("auditing")
  BY AtPlace DEF SaveCompleted, JobAt, Applying, InProgress, PC, Ended
<1>7. NoTwoActive(SetJob(r, "completed"))
  BY <1>1, <1>2, SetJobKeepsTargetsApart DEF Active
<1> QED
  BY <1>1, <1>3, <1>4, <1>7, FlushStep DEF SaveCompleted, Flushed, Applying

(* Going on to the next item.                                              *)
LEMMA NextItemMoves ==
    ASSUME IInv, NEW r \in Requests, NextItem(r)
    PROVE  Moves(r, "lookup") /\ pc'[r] = "lookup"
BY PlaceTypes DEF IInv, TypeOK, Moves, NextItem

(* Writing one imported row is within the request's own writes.            *)
LEMMA PutRowStep ==
    ASSUME IInv, NEW r \in Requests, NEW row \in Row, row.by = r, pc[r] = "upsert",
           PutRow(r, row), NextItem(r)
    PROVE  IInv'
<1> DEFINE contents == [View(r) EXCEPT !.rows[Item(r)] = row]
<1>1. Moves(r, "lookup") /\ Write(r, contents)
  BY NextItemMoves DEF PutRow
<1>2. View(r) \in Database /\ Item(r) \in Items /\ row # NoRow
  BY ViewType, RowType DEF IInv, SeenInv
<1>3. contents \in Database
  BY <1>2, ViewType DEF IInv
<1>4. db.jobs[r] = "running" /\ session[r] = "loaded"
  BY AtPlace DEF JobAt, Applying, PC, Ended
<1>5. View(r).jobs[r] = "running"
  BY <1>4 DEF IInv, PendingInv, PendingOf, View, PendingJobAt
<1>6. OwnWrites(r, "lookup", contents)
  BY <1>2, <1>3, <1>5 DEF OwnWrites, Database, PendingJobAt, Applying
<1>7. NoTwoActive(View(r))
  BY DEF IInv, JobInv, View
<1>8. NoTwoActive(contents)
  BY <1>2, <1>7 DEF NoTwoActive, Database
<1>9. db.jobs[r] \in JobAt("lookup")
  BY <1>4 DEF JobAt, Applying
<1> HIDE DEF contents
<1> QED
  BY <1>1, <1>4, <1>6, <1>8, <1>9, FlushStep DEF Flushed, Applying

LEMMA InsertInv == ASSUME IInv, NEW r \in Requests, Insert(r) PROVE IInv'
<1>1. Imported(r) \in Row /\ Imported(r).by = r
  BY RowType DEF IInv, SeenInv, Insert, Imported
<1> QED
  BY <1>1, PutRowStep DEF Insert

LEMMA ReplaceTableInv == ASSUME IInv, NEW r \in Requests, ReplaceTable(r) PROVE IInv'
<1>1. Imported(r) \in Row /\ Imported(r).by = r
  BY RowType DEF IInv, SeenInv, ReplaceTable, Imported
<1> QED
  BY <1>1, PutRowStep DEF ReplaceTable

LEMMA UpdateInv == ASSUME IInv, NEW r \in Requests, Update(r) PROVE IInv'
<1>1. Merge(r) \in Row /\ Merge(r).by = r
  BY RowType DEF IInv, SeenInv, Update, Merge
<1> QED
  BY <1>1, PutRowStep DEF Update

LEMMA LookupInv == ASSUME IInv, NEW r \in Requests, Lookup(r) PROVE IInv'
<1>1. Found(r) \in Row \cup {NoRow}
  BY RowType DEF IInv, Lookup
<1>2. Moves(r, "upsert") /\ UNCHANGED storeVars /\ idx' = idx /\ seen'[r] = Found(r)
  BY <1>1, PlaceTypes DEF IInv, TypeOK, Lookup, Moves
<1>3. QuietPlace(r, "upsert")
  BY AtPlace DEF Lookup, QuietPlace, JobAt, Flushed, Applying, PC, Ended
<1>4. Found(r) # NoRow => View(r).rows[Item(r)] # NoRow
  BY DEF Found
<1> QED
  BY <1>2, <1>3, <1>4, QuietStep DEF Lookup, Item

LEMMA UnchangedInv == ASSUME IInv, NEW r \in Requests, Unchanged(r) PROVE IInv'
<1>1. Moves(r, "lookup") /\ UNCHANGED storeVars
  BY NextItemMoves DEF Unchanged
<1>2. QuietPlace(r, "lookup")
  BY AtPlace DEF Unchanged, QuietPlace, JobAt, Flushed, Applying, PC, Ended
<1> QED
  BY <1>1, <1>2, QuietStep

LEMMA RecordAuditInv == ASSUME IInv, NEW r \in Requests, RecordAudit(r) PROVE IInv'
<1> DEFINE contents == [View(r) EXCEPT !.audit = @ \cup {r}]
<1>1. Moves(r, "committing") /\ Write(r, contents)
  BY GotoMoves, PlaceTypes DEF RecordAudit
<1>2. writer = r /\ View(r) = tx /\ PendingOf(r) /\ tx \in Database
  BY DEF IInv, WriterInv, PendingInv, TypeOK, RecordAudit, Flushed, View
<1>3. contents \in Database /\ tx.jobs[r] = "completed"
  BY <1>2, ViewType DEF IInv, PendingOf, PendingJobAt, RecordAudit
<1>4. OwnWrites(r, "committing", contents)
  BY <1>2, <1>3 DEF OwnWrites, Database, PendingJobAt
<1>5. NoTwoActive(contents)
  BY <1>2 DEF IInv, JobInv, NoTwoActive, Database
<1>6. session[r] = "loaded" /\ db.jobs[r] \in JobAt("committing")
  BY AtPlace DEF RecordAudit, JobAt, Applying, PC, Ended
<1> HIDE DEF contents
<1> QED
  BY <1>1, <1>4, <1>5, <1>6, FlushStep DEF RecordAudit, Flushed, Applying

LEMMA CommitJobInv == ASSUME IInv, NEW r \in Requests, CommitJob(r) PROVE IInv'
BY GotoMoves, PlaceTypes, CommitStep DEF CommitJob, CommitMoves

LEMMA CommitRunningInv == ASSUME IInv, NEW r \in Requests, CommitRunning(r) PROVE IInv'
BY GotoMoves, PlaceTypes, CommitStep DEF CommitRunning, CommitMoves

LEMMA CommitImportInv == ASSUME IInv, NEW r \in Requests, CommitImport(r) PROVE IInv'
BY GotoMoves, PlaceTypes, CommitStep DEF CommitImport, CommitMoves

LEMMA CommitFailedInv == ASSUME IInv, NEW r \in Requests, CommitFailed(r) PROVE IInv'
BY GotoMoves, PlaceTypes, CommitStep DEF CommitFailed, CommitMoves

LEMMA CancelCommitInv == ASSUME IInv, NEW r \in Requests, CancelCommit(r) PROVE IInv'
BY GotoMoves, PlaceTypes, CommitStep DEF CancelCommit, CommitMoves

LEMMA AddJobConflictInv == ASSUME IInv, NEW r \in Requests, AddJobConflict(r) PROVE IInv'
<1>1. Moves(r, "conflict") /\ Discard(r)
  BY GotoMoves, PlaceTypes DEF AddJobConflict, FlushError
<1>2. session' \in [Requests -> SessionState] /\ \A q \in Requests \ {r} : session'[q] = session[q]
  BY DEF AddJobConflict, FlushError, IInv, TypeOK, SessionState
<1>4. db.jobs[r] \in JobAt("conflict")
  BY AtPlace DEF AddJobConflict, JobAt, Applying, Flushed, InProgress, PC, Ended
<1> QED
  BY <1>1, <1>2, <1>4, DiscardStep DEF Ended

LEMMA ApplyRejectedInv == ASSUME IInv, NEW r \in Requests, ApplyRejected(r) PROVE IInv'
<1>1. Moves(r, "handling") /\ Discard(r)
  BY GotoMoves, PlaceTypes DEF ApplyRejected, ExitWithError
<1>2. session' \in [Requests -> SessionState] /\ \A q \in Requests \ {r} : session'[q] = session[q]
  BY DEF ApplyRejected, ExitWithError, IInv, TypeOK, SessionState
<1>3. session'[r] # "loaded"
  BY DEF ApplyRejected, ExitWithError, IInv, TypeOK
<1>4. db.jobs[r] \in JobAt("handling")
  BY AtPlace DEF ApplyRejected, JobAt, Applying, Flushed, InProgress, PC, Ended
<1> QED
  BY <1>1, <1>2, <1>3, <1>4, DiscardStep DEF Ended

LEMMA InsertConflictInv == ASSUME IInv, NEW r \in Requests, InsertConflict(r) PROVE IInv'
<1>1. Moves(r, "handling") /\ Discard(r)
  BY GotoMoves, PlaceTypes DEF InsertConflict, FlushError
<1>2. session' \in [Requests -> SessionState] /\ \A q \in Requests \ {r} : session'[q] = session[q]
  BY DEF InsertConflict, FlushError, IInv, TypeOK, SessionState
<1>3. session'[r] # "loaded"
  BY DEF InsertConflict, FlushError, IInv, TypeOK
<1>4. db.jobs[r] \in JobAt("handling")
  BY AtPlace DEF InsertConflict, JobAt, Applying, Flushed, InProgress, PC, Ended
<1> QED
  BY <1>1, <1>2, <1>3, <1>4, DiscardStep DEF Ended

LEMMA CrashInv == ASSUME IInv, NEW r \in Requests, Crash(r) PROVE IInv'
<1>1. Moves(r, "crashed") /\ Discard(r)
  BY GotoMoves, PlaceTypes DEF Crash, Abandon
<1>2. session' \in [Requests -> SessionState] /\ \A q \in Requests \ {r} : session'[q] = session[q]
  BY DEF Crash, Abandon, IInv, TypeOK, SessionState
<1>4. db.jobs[r] \in JobAt("crashed")
  BY AtPlace DEF Crash, JobAt, Applying, Flushed, InProgress, PC, Ended
<1> QED
  BY <1>1, <1>2, <1>4, DiscardStep DEF Ended

LEMMA BusyInv == ASSUME IInv, NEW r \in Requests, Busy(r) PROVE IInv'
<1> DEFINE place == IF pc[r] \in {"submitted", "recording"} THEN "broken" ELSE "handling"
<1>1. Moves(r, place) /\ Discard(r)
  BY GotoMoves, PlaceTypes DEF Busy, FlushError
<1>2. /\ session' \in [Requests -> SessionState] /\ session'[r] # "loaded"
      /\ \A q \in Requests \ {r} : session'[q] = session[q]
  BY DEF Busy, FlushError, IInv, TypeOK, SessionState
<1>3. db.jobs[r] \in JobAt(place)
  BY AtPlace DEF Busy, AboutToWrite, JobAt, Applying
<1>4. place \in Ended \cup {"handling"}
  BY DEF Ended
<1> HIDE DEF place
<1> QED
  BY <1>1, <1>2, <1>3, <1>4, DiscardStep

-----------------------------------------------------------------------------
LEMMA InitInv == Init => IInv
<1> SUFFICES ASSUME Init PROVE IInv
  OBVIOUS
<1>1. PICK rows \in Catalogues :
        StoreInit([jobs |-> [r \in Requests |-> "none"], rows |-> rows, audit |-> {}])
  BY DEF Init
<1>2. rows \in [Items -> Row \cup {NoRow}]
      /\ \A i \in Items : rows[i] # NoRow => rows[i].by = NoRequest
  <2>1. rows \in [Items -> [content : Contents, deleted : BOOLEAN, by : {NoRequest}]
                              \cup {NoRow}]
    BY <1>1
  <2> QED
    BY <2>1 DEF Row
<1>3. /\ db = [jobs |-> [r \in Requests |-> "none"], rows |-> rows, audit |-> {}]
      /\ tx = db /\ writer = NoRequest /\ session = [r \in Requests |-> "loaded"]
      /\ pc = [r \in Requests |-> "idle"] /\ idx = [r \in Requests |-> 1]
      /\ seen = [r \in Requests |-> NoRow]
  BY <1>1 DEF Init, StoreInit
<1>4. TypeOK
  BY <1>2, <1>3 DEF TypeOK, Database, Status, SessionState, PC
<1>5. SeenInv /\ WriterInv /\ PendingInv
  BY <1>3 DEF SeenInv, WriterInv, PendingInv, Flushed, Applying
<1>6. JobInv
  <2>1. \A r \in Requests : db.jobs[r] = "none" /\ pc[r] = "idle" /\ r \notin db.audit
    BY <1>3
  <2>2. \A i \in Items : db.rows[i] # NoRow => db.rows[i].by \notin Requests
    BY <1>2, <1>3
  <2>3. \A r \in Requests : db.jobs[r] \in JobAt(pc[r])
    BY <2>1 DEF JobAt, Applying
  <2>4. NoTwoActive(db) /\ NoTwoActive(tx)
    BY <1>3, <2>1 DEF NoTwoActive, Active
  <2>5. AppliedWithJobAndAudit
    <3>1. \A r \in Requests : r \in db.audit <=> db.jobs[r] = "completed"
      BY <2>1
    <3> QED
      BY <2>2, <3>1 DEF AppliedWithJobAndAudit
  <2> QED
    BY <2>3, <2>4, <2>5 DEF JobInv
<1> QED
  BY <1>4, <1>5, <1>6 DEF IInv

LEMMA NextInv == IInv /\ [Next]_vars => IInv'
<1> SUFFICES ASSUME IInv, [Next]_vars PROVE IInv'
  OBVIOUS
<1>1. ASSUME NEW r \in Requests, Step(r) PROVE IInv'
  BY ONLY IInv, r \in Requests, Step(r),
     AddJobInv, AddJobConflictInv, CommitJobInv, MarkRunningInv,
     CommitRunningInv, FetchBundleInv, FetchFailsInv, LookupInv,
     ApplyRejectedInv, InsertInv, InsertConflictInv, UpdateInv,
     ReplaceTableInv, UnchangedInv, ApplyDoneInv, SaveCompletedInv,
     RecordAuditInv, CommitImportInv, HandleFailureInv, HandlerRaisesInv,
     SaveFailedInv, CommitFailedInv, BusyInv
     DEF Step
<1>2. ASSUME NEW r \in Requests, Submit(r) PROVE IInv'
  BY <1>2, SubmitInv
<1>3. ASSUME NEW r \in Requests, Crash(r) PROVE IInv'
  BY <1>3, CrashInv
<1>4. ASSUME NEW i \in Items, AdminDelete(i) PROVE IInv'
  BY <1>4, DeleteStep
<1>6. ASSUME NEW r \in Requests, CancelCommit(r) PROVE IInv'
  BY <1>6, CancelCommitInv
<1>5. CASE UNCHANGED vars
  <2> USE <1>5 DEF IInv, vars, storeVars
  <2>1. TypeOK'
    BY DEF TypeOK
  <2>2. SeenInv' /\ WriterInv'
    BY DEF SeenInv, WriterInv, Item, View
  <2>3. PendingInv'
    BY DEF PendingInv, PendingOf
  <2>4. JobInv'
    BY DEF JobInv, NoTwoActive, AppliedWithJobAndAudit
  <2> QED
    BY <2>1, <2>2, <2>3, <2>4
<1> QED
  BY <1>1, <1>2, <1>3, <1>4, <1>5, <1>6 DEF Next

(* The inductive invariant of the import jobs holds of every execution,    *)
(* for any number of requests, targets and items and any faults.           *)
THEOREM InvariantHolds == Spec => []IInv
<1>1. Init => IInv
  BY InitInv
<1>2. IInv /\ [Next]_vars => IInv'
  BY NextInv
<1> QED
  BY <1>1, <1>2, PTL DEF Spec

(* Every variable keeps its type; in particular every status ever written  *)
(* to import_jobs is an ImportStatus.                                      *)
THEOREM TypeCorrect == Spec => []TypeOK
<1>1. IInv => TypeOK
  BY DEF IInv
<1> QED
  BY <1>1, InvariantHolds, PTL

(* The unique index and the three separate transactions of import_asb      *)
(* never leave two active jobs for one target.                             *)
THEOREM OneActive == Spec => []OneActivePerTarget
<1>1. IInv => OneActivePerTarget
  BY DEF IInv, JobInv, NoTwoActive, OneActivePerTarget
<1> QED
  BY <1>1, InvariantHolds, PTL

(* Rows, audit entry and completed job of an import are visible together   *)
(* or not at all, under any crash, rollback or lock timeout.               *)
THEOREM AtomicApplication == Spec => []AppliedWithJobAndAudit
<1>1. IInv => AppliedWithJobAndAudit
  BY DEF IInv, JobInv
<1> QED
  BY <1>1, InvariantHolds, PTL

(* The answer of import_asb and the status in the job history agree; only  *)
(* a request cancelled during its COMMIT ends a job nobody hears of.       *)
THEOREM AnswerAgrees == Spec => []ResponseMatchesJob
<1>1. IInv => ResponseMatchesJob
  <2> SUFFICES ASSUME IInv, NEW r \in Requests
               PROVE  /\ pc[r] = "done" => db.jobs[r] = "completed"
                      /\ pc[r] = "reported" => db.jobs[r] = "failed"
                      /\ pc[r] = "conflict" => db.jobs[r] = "none"
                      /\ db.jobs[r] = "completed" => pc[r] \in {"done", "unanswered"}
                      /\ db.jobs[r] = "failed" => pc[r] \in {"reported", "unanswered"}
    BY DEF ResponseMatchesJob
  <2> QED
    BY AtPlace DEF JobAt, PC, Applying, Flushed, Ended
<1> QED
  BY <1>1, InvariantHolds, PTL

(* No request keeps the database's write lock after it has ended, or while *)
(* it waits for ASB.                                                       *)
THEOREM LockAlwaysReleased == Spec => []LockReleased
<1>1. IInv => LockReleased
  <2> SUFFICES ASSUME IInv PROVE LockReleased
    OBVIOUS
  <2>1. ASSUME NEW r \in Requests, writer = r
        PROVE  pc[r] \notin Ended \cup {"idle", "submitted", "created", "fetching",
                                        "handling", "recording"}
    BY <2>1 DEF IInv, WriterInv, Flushed, Applying, Ended
  <2> QED
    BY <2>1 DEF LockReleased, NothingPendingWithoutWriter, IInv, WriterInv
<1> QED
  BY <1>1, InvariantHolds, PTL

-----------------------------------------------------------------------------
(* What is committed only changes in a commit or an administrator's delete. *)
LEMMA QuietSteps ==
    ASSUME NEW r \in Requests,
           \/ AddJob(r) \/ AddJobConflict(r) \/ MarkRunning(r) \/ FetchBundle(r)
           \/ FetchFails(r) \/ Lookup(r) \/ ApplyRejected(r) \/ Insert(r)
           \/ InsertConflict(r) \/ Update(r) \/ ReplaceTable(r) \/ Unchanged(r)
           \/ ApplyDone(r) \/ SaveCompleted(r) \/ RecordAudit(r) \/ HandleFailure(r)
           \/ HandlerRaises(r) \/ SaveFailed(r) \/ Busy(r) \/ Submit(r) \/ Crash(r)
    PROVE  db' = db
BY DEF AddJob, AddJobConflict, MarkRunning, FetchBundle, FetchFails, Lookup, ApplyRejected,
       Insert, InsertConflict, Update, ReplaceTable, Unchanged, ApplyDone, SaveCompleted,
       RecordAudit, HandleFailure, HandlerRaises, SaveFailed, Busy, Submit, Crash,
       PutRow, Write, FlushError, ExitWithError, Abandon, Discard, storeVars

(* What a commit makes visible, for each of the four commits.              *)
LEMMA CommitEffect ==
    ASSUME IInv, NEW r \in Requests, NEW place, Commit(r), <<pc[r], place>> \in CommitMoves
    PROVE  /\ db'.jobs = [db.jobs EXCEPT ![r] = PendingJobAt(pc[r])]
           /\ db.jobs[r] \in JobAt(pc[r])
           /\ db'.audit = IF pc[r] = "committing" THEN db.audit \cup {r} ELSE db.audit
           /\ db'.rows \in [Items -> Row \cup {NoRow}]
           /\ \A i \in Items : db'.rows[i] # db.rows[i]
                                 => db'.rows[i] # NoRow /\ db'.rows[i].by = r
           /\ pc[r] # "committing" => db'.rows = db.rows
           /\ NoTwoActive(db')
<1>1. writer = r /\ PendingOf(r) /\ pc[r] \in Flushed
  BY CommittedJob
<1>2. db' = tx /\ db \in Database /\ tx \in Database /\ NoTwoActive(tx)
  BY <1>1 DEF Commit, View, IInv, TypeOK, JobInv
<1>3. tx.jobs = [db.jobs EXCEPT ![r] = PendingJobAt(pc[r])]
  BY <1>1, <1>2 DEF PendingOf, Database
<1>4. pc[r] # "committing" => tx.rows = db.rows
  BY <1>1 DEF PendingOf, CommitMoves, Applying
<1> QED
  BY <1>1, <1>2, <1>3, <1>4, AtPlace DEF PendingOf, Database

LEMMA LedgerStep == IInv /\ [Next]_vars => [Ledger!Next]_<<db.jobs, db.rows, db.audit>>
<1> SUFFICES ASSUME IInv, [Next]_vars
             PROVE  Ledger!Next \/ db' = db
  BY DEF Ledger!Next
<1>1. ASSUME NEW r \in Requests, pc[r] = "jobAdded", Commit(r) PROVE Ledger!Next
  <2>1. <<pc[r], "created">> \in CommitMoves /\ pc[r] = "jobAdded" /\ Commit(r)
    BY <1>1 DEF CommitMoves
  <2>2. /\ db'.jobs = [db.jobs EXCEPT ![r] = "pending"] /\ db.jobs[r] = "none"
        /\ db'.audit = db.audit /\ db'.rows = db.rows /\ NoTwoActive(db')
    <3>1. PendingJobAt("jobAdded") = "pending" /\ JobAt("jobAdded") = {"none"}
      BY DEF PendingJobAt, JobAt, Applying
    <3>2. PendingJobAt(pc[r]) = "pending" /\ JobAt(pc[r]) = {"none"}
      BY <2>1, <3>1
    <3>3. pc[r] # "committing"
      BY <2>1
    <3> QED
      BY <2>1, <3>2, <3>3, CommitEffect
  <2>3. ASSUME NEW q \in Requests \ {r}, Target[q] = Target[r]
        PROVE  db.jobs[q] \notin Active
    <3>1. db \in Database
      BY DEF IInv, TypeOK
    <3> QED
      BY <2>2, <2>3, <3>1 DEF NoTwoActive, Active, Database
  <2>4. Ledger!Accept(r)
    BY <2>2, <2>3 DEF Ledger!Accept, Ledger!Active, Active
  <2> QED
    BY <2>4 DEF Ledger!Next
<1>2. ASSUME NEW r \in Requests, pc[r] = "runningSaved", Commit(r) PROVE Ledger!Next
  <2>1. <<pc[r], "fetching">> \in CommitMoves /\ pc[r] = "runningSaved" /\ Commit(r)
    BY <1>2 DEF CommitMoves
  <2>2. Ledger!Start(r)
    BY <2>1, CommitEffect DEF JobAt, PendingJobAt, Applying, Ledger!Start
  <2> QED
    BY <2>2 DEF Ledger!Next
<1>3. ASSUME NEW r \in Requests, pc[r] = "committing", Commit(r) PROVE Ledger!Next
  <2>1. <<pc[r], "done">> \in CommitMoves /\ pc[r] = "committing" /\ Commit(r)
    BY <1>3 DEF CommitMoves
  <2>2. Ledger!Complete(r)
    BY <2>1, CommitEffect DEF JobAt, PendingJobAt, Applying, Ledger!Complete
  <2> QED
    BY <2>2 DEF Ledger!Next
<1>4. ASSUME NEW r \in Requests, pc[r] = "failedSaved", Commit(r) PROVE Ledger!Next
  <2>1. <<pc[r], "reported">> \in CommitMoves /\ pc[r] = "failedSaved" /\ Commit(r)
    BY <1>4 DEF CommitMoves
  <2>2. Ledger!Fail(r)
    BY <2>1, CommitEffect DEF JobAt, PendingJobAt, Applying, Ledger!Fail
  <2> QED
    BY <2>2 DEF Ledger!Next
<1>5. ASSUME NEW i \in Items, AdminDelete(i) PROVE Ledger!Next
  <2>1. db \in Database /\ db.rows[i] \in Row
    BY <1>5 DEF IInv, TypeOK, AdminDelete, Database
  <2> DEFINE row == IF i \in Tables THEN NoRow
                    ELSE [db.rows[i] EXCEPT !.deleted = TRUE, !.by = NoRequest]
  <2>2. /\ db'.rows = [db.rows EXCEPT ![i] = row]
        /\ db'.jobs = db.jobs /\ db'.audit = db.audit /\ db.rows[i] # NoRow
    BY <1>5, <2>1 DEF AdminDelete, Database
  <2>3. row \in Row \cup {NoRow}
        /\ (row # NoRow => /\ row = [db.rows[i] EXCEPT !.deleted = TRUE, !.by = row.by]
                           /\ row.by \notin Requests)
    BY <2>1 DEF Row
  <2>4. Ledger!Delete(i)
    BY <2>2, <2>3 DEF Ledger!Delete
  <2> QED
    BY <2>4 DEF Ledger!Next
<1>6. ASSUME NEW r \in Requests,
             CommitJob(r) \/ CommitRunning(r) \/ CommitImport(r) \/ CommitFailed(r)
                \/ CancelCommit(r)
      PROVE  Ledger!Next
  BY <1>1, <1>2, <1>3, <1>4, <1>6
     DEF CommitJob, CommitRunning, CommitImport, CommitFailed, CancelCommit
<1> QED
  BY <1>5, <1>6, QuietSteps DEF Next, Step, vars, storeVars

(* The service with its locks, sessions and rollbacks implements the       *)
(* ledger: every commit is one of its steps, and nothing else changes what *)
(* is committed.                                                           *)
THEOREM Refinement == Spec => ImplementsLedger
<1>1. Init => Ledger!Init
  <2> SUFFICES ASSUME Init PROVE Ledger!Init
    OBVIOUS
  <2>1. db \in Database
    BY InitInv DEF IInv, TypeOK
  <2>2. db.jobs = [r \in Requests |-> "none"] /\ db.audit = {}
    BY DEF Init, StoreInit
  <2> QED
    BY <2>1, <2>2 DEF Ledger!Init, Database
<1>2. IInv /\ [Next]_vars => [Ledger!Next]_<<db.jobs, db.rows, db.audit>>
  BY LedgerStep
<1> QED
  BY <1>1, <1>2, InvariantHolds, PTL DEF Spec, ImplementsLedger, Ledger!Spec
=============================================================================
