-------------------------- MODULE StandingsProofs --------------------------
(* Theorems about Standings for any requests, snapshots, pairs and faults. *)
EXTENDS Standings, TLAPS

USE NoRequestAssumption, StandingsAssumption

-----------------------------------------------------------------------------
(* The operators on states. *)

States == [Snapshots -> SnapshotState]

(* Archiving leaves no current snapshot of the pair and touches no other.  *)
LEMMA ArchivedFacts ==
    ASSUME NEW states \in States, NEW r \in Publishers \cup Imports
    PROVE  /\ Archived(states, r) \in States
           /\ \A s \in Snapshots :
                /\ PairOf[s] = PairOf[r] => Archived(states, r)[s] # "current"
                /\ PairOf[s] # PairOf[r] => Archived(states, r)[s] = states[s]
                /\ Archived(states, r)[s] = "absent" <=> states[s] = "absent"
                /\ Archived(states, r)[s] = "deleted" <=> states[s] = "deleted"
                /\ Archived(states, r)[s] = "current" => states[s] = "current"
BY DEF States, Archived, SnapshotState, Snapshots

(* Publishing makes the snapshot the only current one of its pair.         *)
LEMMA PublishedFacts ==
    ASSUME NEW states \in States, NEW r \in Publishers \cup Imports, OneCurrent(states)
    PROVE  /\ Published(states, r) \in States
           /\ Published(states, r)[r] = "current"
           /\ OneCurrent(Published(states, r))
           /\ \A s \in Snapshots \ {r} :
                /\ Published(states, r)[s] = "absent" <=> states[s] = "absent"
                /\ Published(states, r)[s] = "deleted" <=> states[s] = "deleted"
                /\ Published(states, r)[s] = "current" => states[s] = "current"
<1>1. r \in Snapshots
  BY DEF Snapshots
<1>2. Published(states, r) \in States
  BY ArchivedFacts DEF Published, States, SnapshotState
<1>3. \A s \in Snapshots \ {r} : Published(states, r)[s] = Archived(states, r)[s]
  BY DEF Published
<1>4. Published(states, r)[r] = "current"
  BY <1>1 DEF Published
<1>5. OneCurrent(Published(states, r))
  <2> SUFFICES ASSUME NEW s \in Snapshots, NEW t \in Snapshots, s # t, PairOf[s] = PairOf[t],
                      Published(states, r)[s] = "current", Published(states, r)[t] = "current"
               PROVE  FALSE
    BY DEF OneCurrent
  <2>1. CASE s # r /\ t # r
    BY <2>1, <1>3, ArchivedFacts DEF OneCurrent
  <2>2. CASE s = r
    BY <2>2, <1>3, ArchivedFacts
  <2>3. CASE t = r
    BY <2>3, <1>3, ArchivedFacts
  <2> QED
    BY <2>1, <2>2, <2>3
<1> QED
  BY <1>2, <1>3, <1>4, <1>5, ArchivedFacts

(* Removing takes one snapshot away and changes no other.                  *)
LEMMA RemovedFacts ==
    ASSUME NEW states \in States, NEW v \in Snapshots
    PROVE  /\ Removed(states, v) \in States
           /\ Removed(states, v)[v] = "deleted"
           /\ \A s \in Snapshots \ {v} : Removed(states, v)[s] = states[s]
           /\ OneCurrent(states) => OneCurrent(Removed(states, v))
<1>1. Removed(states, v) \in States
  BY DEF Removed, States, SnapshotState
<1>2. Removed(states, v)[v] = "deleted" /\ \A s \in Snapshots \ {v} : Removed(states, v)[s] = states[s]
  BY DEF Removed, States
<1>3. OneCurrent(states) => OneCurrent(Removed(states, v))
  BY <1>2 DEF OneCurrent
<1> QED
  BY <1>1, <1>2, <1>3

(* A transaction sees a database and writes one. *)
LEMMA ViewType ==
    ASSUME TypeOK, NEW r \in Requests
    PROVE  /\ View(r) \in Database /\ View(r).state \in States
           /\ \A states \in States : [View(r) EXCEPT !.state = states] \in Database
           /\ r \in Publishers \cup Imports => [View(r) EXCEPT !.state[r] = "current"] \in Database
           /\ r \in Publishers \cup Deleters
                => EntryOf(r) \in Entry /\ [View(r) EXCEPT !.log = @ \cup {EntryOf(r)}] \in Database
           /\ r \in Imports => [View(r) EXCEPT !.withdrawn = @ \ {PairOf[r]}] \in Database
<1>1. View(r) \in Database /\ View(r).state \in States
  BY DEF View, TypeOK, Database, States
<1>2. \A states \in States : [View(r) EXCEPT !.state = states] \in Database
  BY <1>1 DEF Database, States
<1>3. r \in Publishers \cup Imports => [View(r) EXCEPT !.state[r] = "current"] \in Database
  BY <1>1 DEF Database, SnapshotState, Snapshots
<1>4. r \in Publishers \cup Deleters => EntryOf(r) \in Entry
  BY DEF EntryOf, Entry, Snapshots, SnapshotState, TypeOK
<1>5. r \in Publishers \cup Deleters => [View(r) EXCEPT !.log = @ \cup {EntryOf(r)}] \in Database
  BY <1>1, <1>4 DEF Database
<1>6. [View(r) EXCEPT !.withdrawn = @ \ {PairOf[r]}] \in Database
  BY <1>1 DEF Database
<1> QED
  BY <1>1, <1>2, <1>3, <1>4, <1>5, <1>6

-----------------------------------------------------------------------------
(* One request moves to a place that its kind of request can be at.        *)
Moves(r, place) ==
    /\ pc' = [pc EXCEPT ![r] = place]
    /\ place \in PC
    /\ place = "checking" => r \in Publishers
    /\ place \in {"reading", "deleting"} => r \in Deleters
    /\ place \in {"importing", "comparing", "completing"} => r \in Imports
    /\ place \in {"archiving", "adding"} => r \in Publishers \cup Imports
    /\ place = "auditing" => r \in Publishers \cup Deleters
    /\ seen' \in [Deleters -> SnapshotState]
    /\ \A q \in Deleters \ {r} : seen'[q] = seen[q]
    /\ r \in Deleters => place = "deleting" \/ seen'[r] = seen[r]

(* The parts of the invariant that only look at places follow from Moves.  *)
LEMMA PlaceStep ==
    ASSUME TypeOK, PlaceInv, NEW r \in Requests, NEW place, Moves(r, place)
    PROVE  PlaceInv' /\ pc' \in [Requests -> PC] /\ pc'[r] = place
           /\ \A q \in Requests \ {r} : pc'[q] = pc[q]
<1>1. pc' \in [Requests -> PC] /\ pc'[r] = place /\ \A q \in Requests \ {r} : pc'[q] = pc[q]
  BY DEF Moves, TypeOK
<1>2. PlaceInv'
  <2> SUFFICES ASSUME NEW q \in Requests
               PROVE  /\ pc'[q] = "checking" => q \in Publishers
                      /\ pc'[q] \in {"reading", "deleting"} => q \in Deleters
                      /\ pc'[q] \in {"importing", "comparing", "completing"} => q \in Imports
                      /\ pc'[q] \in {"archiving", "adding"} => q \in Publishers \cup Imports
                      /\ pc'[q] = "auditing" => q \in Publishers \cup Deleters
    BY DEF PlaceInv
  <2> QED
    BY <1>1 DEF Moves, PlaceInv
<1> QED
  BY <1>1, <1>2

(* The imports of a pair stay apart if the one that moves was in flight.   *)
Apart == \A q, r \in Imports :
    q # r /\ PairOf[q] = PairOf[r] => ~(pc[q] \in InFlight /\ pc[r] \in InFlight)

(* An import that will replace the current table says something else than  *)
(* the import whose table is current.                                      *)
Publishing(r) == \/ pc[r] \in {"archiving", "adding"}
                 \/ pc[r] \in {"completing", "committing"} /\ writer = r /\ tx.state # db.state

Differs(r) == \A s \in Imports :
    PairOf[r] = PairOf[s] /\ db.state[s] = "current" => ContentOf[r] # ContentOf[s]

LEMMA ImportInvParts ==
    /\ ImportInv <=> Apart /\ \A r \in Imports : Publishing(r) => Differs(r)
    /\ ImportInv' <=> Apart' /\ \A r \in Imports : Publishing(r)' => Differs(r)'
BY DEF ImportInv, Apart, Publishing, Differs

LEMMA ApartStep ==
    ASSUME TypeOK, Apart, NEW r \in Requests, NEW place, pc' = [pc EXCEPT ![r] = place],
           place \in InFlight => pc[r] \in InFlight
    PROVE  Apart'
BY DEF Apart, TypeOK, InFlight, Flushed

-----------------------------------------------------------------------------
(* A step that sends no statement, or a SELECT.                            *)
LEMMA QuietStep ==
    ASSUME IInv, NEW r \in Requests, NEW place, Moves(r, place), UNCHANGED storeVars,
           Apart',
           pc[r] \notin Flushed \cup Ended, place \notin Flushed \cup Ended,
           writer = r => place \in {"comparing", "archiving", "completing"}
                         /\ tx.state = db.state,
           place = "deleting" => /\ seen'[r] \in {"current", "archived"}
                                 /\ db.state[Victim[r]] # "absent",
           r \in Imports /\ place = "archiving" => Differs(r)
    PROVE  IInv'
<1> USE DEF IInv
<1>1. /\ PlaceInv' /\ pc' \in [Requests -> PC] /\ pc'[r] = place
      /\ \A q \in Requests \ {r} : pc'[q] = pc[q]
  BY PlaceStep
<1>2. TypeOK'
  BY <1>1 DEF TypeOK, Moves, storeVars
<1>3. LockInv'
  BY <1>1 DEF LockInv, NothingPendingWithoutWriter, storeVars, MayHold
<1>4. PendingInv'
  <2> SUFFICES ASSUME NEW q \in Requests, writer = q
               PROVE  tx.state \in PendingStates(q)' /\ tx.log = PendingLog(q)'
    BY DEF PendingInv, storeVars
  <2>0. tx.state \in PendingStates(q) /\ tx.log = PendingLog(q)
    BY DEF PendingInv
  <2>1. CASE q = r
    <3>1. tx.log = db.log
      BY <2>0, <2>1 DEF PendingLog, Flushed
    <3>2. db.state \in PendingStates(q)'
      BY <2>1, <1>1 DEF PendingStates, storeVars, Moves
    <3> QED
      BY <2>1, <3>1, <3>2, <1>1 DEF PendingLog, storeVars, Flushed
  <2>2. CASE q # r
    <3>1. pc'[q] = pc[q]
      BY <1>1, <2>2
    <3>2. PendingStates(q)' = PendingStates(q)
      BY <3>1 DEF PendingStates, storeVars, Published, Archived, Removed
    <3>3. q \in Deleters => seen'[q] = seen[q]
      BY <2>2 DEF Moves
    <3>4. PendingLog(q)' = PendingLog(q)
      BY <3>1, <3>3 DEF PendingLog, EntryOf, storeVars
    <3> QED
      BY <2>0, <3>2, <3>4
  <2> QED
    BY <2>1, <2>2
<1>5. SnapshotInv'
  BY <1>1 DEF Committed, SnapshotInv, storeVars, Moves, Flushed, Ended, Snapshots
<1>6. LogInv'
  <2>1. \A e \in db.log : e.by \in Requests
    BY DEF TypeOK, Database, Entry
  <2> QED
    BY <2>1, <1>1 DEF Committed, LogInv, ChangesAudited, storeVars, Ended
<1>7. ImportInv'
  <2>1. ASSUME NEW q \in Imports, Publishing(q)' PROVE Differs(q)'
    <3>1. Publishing(q) => Differs(q)
      BY ImportInvParts
    <3>2. Differs(q)' <=> Differs(q)
      BY DEF Differs, storeVars
    <3>3. CASE q # r
      BY <2>1, <3>1, <3>2, <3>3, <1>1 DEF Publishing, storeVars
    <3>4. CASE q = r
      BY <2>1, <3>1, <3>2, <3>4, <1>1 DEF Publishing, storeVars, Flushed
    <3> QED
      BY <3>3, <3>4
  <2> QED
    BY <2>1, ImportInvParts
<1> QED
  BY <1>1, <1>2, <1>3, <1>4, <1>5, <1>6, <1>7

(* Nobody else's part of the transaction is touched when r moves.          *)
LEMMA SameForOthers ==
    ASSUME TypeOK, NEW r \in Requests, NEW place, Moves(r, place), db' = db,
           NEW q \in Requests \ {r}
    PROVE  PendingStates(q)' = PendingStates(q) /\ PendingLog(q)' = PendingLog(q)
<1>1. pc'[q] = pc[q] /\ (q \in Deleters => seen'[q] = seen[q])
  BY DEF Moves, TypeOK
<1>2. PendingStates(q)' = PendingStates(q)
  BY <1>1 DEF PendingStates, Published, Archived, Removed
<1>3. PendingLog(q)' = PendingLog(q)
  BY <1>1 DEF PendingLog, EntryOf
<1> QED
  BY <1>2, <1>3

(* A step that flushes an INSERT or UPDATE. *)
LEMMA WriteStep ==
    ASSUME IInv, NEW r \in Requests, NEW place, NEW contents,
           Moves(r, place), Write(r, contents), contents \in Database,
           pc[r] \in InFlight, place \in MayHold, place # "archiving",
           contents.state \in PendingStates(r)', contents.log = PendingLog(r)',
           place = "auditing" /\ r \in Deleters =>
               seen'[r] \in {"current", "archived"} /\ db.state[Victim[r]] # "absent",
           place = "committing" /\ r \in Deleters => pc[r] = "auditing",
           r \in Imports /\ (place = "adding" \/ contents.state # db.state) => Publishing(r)
    PROVE  IInv'
<1> USE DEF IInv
<1>1. /\ PlaceInv' /\ pc' \in [Requests -> PC] /\ pc'[r] = place
      /\ \A q \in Requests \ {r} : pc'[q] = pc[q]
  BY PlaceStep
<1>0. /\ writer' = r /\ tx' = contents /\ db' = db /\ session' = session
      /\ \A q \in Requests \ {r} : writer # q
  BY DEF Write, LockFree
<1>2. TypeOK'
  BY <1>0, <1>1 DEF TypeOK, Moves
<1>3. LockInv'
  BY <1>0, <1>1 DEF LockInv, NothingPendingWithoutWriter
<1>4. PendingInv'
  BY <1>0 DEF PendingInv
<1>5. SnapshotInv'
  <2>1. \A s \in Publishers \cup Imports : ~Committed(s)' => db.state[s] = "absent"
    BY <1>1 DEF Committed, SnapshotInv, InFlight, Flushed
  <2>2. ASSUME NEW q \in Deleters, pc'[q] \in {"deleting", "auditing", "committing"}
        PROVE  seen'[q] \in {"current", "archived"} /\ db.state[Victim[q]] # "absent"
    <3>1. CASE q = r
      BY <2>2, <3>1, <1>1 DEF SnapshotInv, Moves, MayHold, Flushed
    <3>2. CASE q # r
      BY <2>2, <3>2, <1>1 DEF SnapshotInv, Moves
    <3> QED
      BY <3>1, <3>2
  <2> QED
    BY <2>1, <2>2, <1>0 DEF Committed, SnapshotInv
<1>6. LogInv'
  <2>1. \A e \in db.log : e.by \in Requests
    BY DEF TypeOK, Database, Entry
  <2> QED
    BY <2>1, <1>0, <1>1 DEF Committed, LogInv, ChangesAudited, InFlight, Flushed
<1>7. ImportInv'
  <2>1. Apart'
    BY ApartStep, ImportInvParts DEF Moves
  <2>2. ASSUME NEW q \in Imports, Publishing(q)' PROVE Differs(q)'
    <3>1. Publishing(q) => Differs(q)
      BY ImportInvParts
    <3>2. Differs(q)' <=> Differs(q)
      BY <1>0 DEF Differs
    <3>3. CASE q # r
      BY <2>2, <3>1, <3>2, <3>3, <1>0, <1>1 DEF Publishing
    <3>4. CASE q = r
      BY <2>2, <3>1, <3>2, <3>4, <1>0, <1>1 DEF Publishing
    <3> QED
      BY <3>3, <3>4
  <2> QED
    BY <2>1, <2>2, ImportInvParts
<1> QED
  BY <1>1, <1>2, <1>3, <1>4, <1>5, <1>6, <1>7

(* A step that ends a request with its transaction rolled back.            *)
LEMMA DiscardStep ==
    ASSUME IInv, NEW r \in Requests, NEW place, Moves(r, place), Discard(r),
           session' \in [Requests -> SessionState],
           pc[r] \in InFlight, place \in Ended \ {"done", "unanswered"}
    PROVE  IInv'
<1> USE DEF IInv
<1>1. /\ PlaceInv' /\ pc' \in [Requests -> PC] /\ pc'[r] = place
      /\ \A q \in Requests \ {r} : pc'[q] = pc[q]
  BY PlaceStep
<1>0. /\ db' = db /\ writer' # r /\ (writer' = NoRequest \/ writer' = writer)
      /\ writer = r => writer' = NoRequest /\ tx' = db
      /\ writer # r => writer' = writer /\ tx' = tx
  BY DEF Discard
<1>2. TypeOK'
  BY <1>0, <1>1 DEF TypeOK, Moves
<1>3. LockInv'
  BY <1>0, <1>1 DEF LockInv, NothingPendingWithoutWriter, MayHold, Flushed, Ended
<1>4. PendingInv'
  <2> SUFFICES ASSUME NEW q \in Requests, writer' = q
               PROVE  tx'.state \in PendingStates(q)' /\ tx'.log = PendingLog(q)'
    BY DEF PendingInv
  <2>1. q # r /\ writer = q /\ tx' = tx
    BY <1>0
  <2> QED
    BY <2>1, <1>0, SameForOthers DEF PendingInv
<1>5. SnapshotInv'
  BY <1>0, <1>1 DEF Committed, SnapshotInv, Moves, Ended, InFlight, Flushed
<1>6. LogInv'
  <2>1. \A e \in db.log : e.by \in Requests
    BY DEF TypeOK, Database, Entry
  <2> QED
    BY <2>1, <1>0, <1>1 DEF Committed, LogInv, ChangesAudited, InFlight, Flushed
<1>7. ImportInv'
  <2>1. Apart'
    BY ApartStep, ImportInvParts DEF Moves
  <2>2. ASSUME NEW q \in Imports, Publishing(q)' PROVE Differs(q)'
    <3>1. Publishing(q) => Differs(q)
      BY ImportInvParts
    <3>2. Differs(q)' <=> Differs(q)
      BY <1>0 DEF Differs
    <3>3. q # r
      BY <2>2, <1>1 DEF Publishing, Ended
    <3> QED
      BY <2>2, <3>1, <3>2, <3>3, <1>0, <1>1 DEF Publishing
  <2> QED
    BY <2>1, <2>2, ImportInvParts
<1> QED
  BY <1>1, <1>2, <1>3, <1>4, <1>5, <1>6, <1>7
-----------------------------------------------------------------------------
-----------------------------------------------------------------------------
(* A commit, whether its caller hears of it or not. *)
Commits(r) == CommitChange(r) \/ CancelCommit(r)

(* What a commit makes visible. *)
Effect(r) ==
    /\ db.state \in States /\ writer = r /\ pc[r] = "committing"
    /\ db' = tx /\ tx' = tx /\ writer' = NoRequest /\ session' = session
    /\ r \in Publishers =>
         /\ tx.state = Published(db.state, r) /\ tx.log = db.log \cup {EntryOf(r)}
    /\ r \in Deleters =>
         /\ tx.state = Removed(db.state, Victim[r]) /\ tx.log = db.log \cup {EntryOf(r)}
         /\ db.state[Victim[r]] # "absent"
    /\ r \in Imports =>
         /\ tx.log = db.log
         /\ tx.state = db.state \/ (tx.state = Published(db.state, r) /\ Differs(r))
    /\ r \in Publishers \cup Imports => db.state[r] = "absent"
    /\ r \in Publishers \cup Deleters => EntryOf(r) \notin db.log

LEMMA CommitEffect ==
    ASSUME IInv, NEW r \in Requests, Commits(r)
    PROVE  Effect(r)
<1> USE DEF IInv
<1>1. pc[r] = "committing" /\ writer = r /\ db' = tx /\ tx' = tx /\ writer' = NoRequest
      /\ session' = session
  BY DEF Commits, CommitChange, CancelCommit, Commit, View, LockInv, Flushed
<1>2. tx.state \in PendingStates(r) /\ tx.log = PendingLog(r) /\ db.state \in States
  BY <1>1 DEF PendingInv, TypeOK, Database, States
<1>3. r \in Publishers =>
        tx.state = Published(db.state, r) /\ tx.log = db.log \cup {EntryOf(r)}
  BY <1>1, <1>2 DEF PendingStates, PendingLog
<1>4. r \in Deleters =>
        /\ tx.state = Removed(db.state, Victim[r]) /\ tx.log = db.log \cup {EntryOf(r)}
        /\ db.state[Victim[r]] # "absent"
  BY <1>1, <1>2 DEF PendingStates, PendingLog, SnapshotInv
<1>5. r \in Imports =>
        /\ tx.log = db.log
        /\ tx.state = db.state \/ (tx.state = Published(db.state, r) /\ Differs(r))
  <2> SUFFICES ASSUME r \in Imports
               PROVE  /\ tx.log = db.log
                      /\ tx.state = db.state \/ (tx.state = Published(db.state, r) /\ Differs(r))
    OBVIOUS
  <2>1. tx.log = db.log
    BY <1>1, <1>2 DEF PendingLog
  <2>2. tx.state \in {db.state, Published(db.state, r)}
    BY <1>1, <1>2 DEF PendingStates
  <2>3. tx.state # db.state => Publishing(r)
    BY <1>1 DEF Publishing
  <2>4. Publishing(r) => Differs(r)
    BY ImportInvParts
  <2> QED
    BY <2>1, <2>2, <2>3, <2>4
<1>6. r \in Publishers \cup Imports => db.state[r] = "absent"
  BY <1>1 DEF Committed, SnapshotInv
<1>7. r \in Publishers \cup Deleters => EntryOf(r) \notin db.log
  BY <1>1 DEF Committed, LogInv, EntryOf
<1> QED
  BY <1>1, <1>2, <1>3, <1>4, <1>5, <1>6, <1>7 DEF Effect

(* A commit publishes one snapshot, deletes one, or changes no state.      *)
Outcome(r) ==
    /\ OneCurrent(db'.state)
    /\ \A s \in Snapshots : db'.state[s] = "absent" => db.state[s] = "absent"
    /\ \A s \in Snapshots : db.state[s] = "absent" /\ s # r => db'.state[s] = "absent"
    /\ \A s \in Snapshots : db'.state[s] = "current" /\ s # r => db.state[s] = "current"
    /\ \A s \in Snapshots : db'.state[s] = "deleted" <=>
          db.state[s] = "deleted" \/ (r \in Deleters /\ s = Victim[r])
    /\ r \in Publishers => db'.state[r] = "current"

LEMMA CommitStates ==
    ASSUME IInv, NEW r \in Requests, Commits(r)
    PROVE  Outcome(r)
<1>0. Effect(r) /\ OneCurrent(db.state) /\ db.state \in States
  BY CommitEffect DEF Effect, IInv, SnapshotInv
<1>1. CASE r \in Deleters
  <2>1. Victim[r] \in Snapshots /\ db'.state = Removed(db.state, Victim[r])
        /\ db.state[Victim[r]] # "absent" /\ r \notin Publishers
    BY <1>0, <1>1 DEF Effect
  <2>2. /\ db'.state[Victim[r]] = "deleted"
        /\ \A s \in Snapshots \ {Victim[r]} : db'.state[s] = db.state[s]
        /\ OneCurrent(db'.state)
    BY <2>1, <1>0, RemovedFacts
  <2> QED
    BY <2>1, <2>2, <1>1 DEF Outcome
<1>2. CASE r \in Publishers \cup Imports /\ db'.state = Published(db.state, r)
  <2>1. db.state[r] = "absent" /\ r \notin Deleters /\ r \in Snapshots
    BY <1>0, <1>2 DEF Effect, Snapshots
  <2>2. /\ db'.state[r] = "current"
        /\ OneCurrent(db'.state)
        /\ \A s \in Snapshots \ {r} :
             /\ db'.state[s] = "absent" <=> db.state[s] = "absent"
             /\ db'.state[s] = "deleted" <=> db.state[s] = "deleted"
             /\ db'.state[s] = "current" => db.state[s] = "current"
    BY <1>0, <1>2, PublishedFacts
  <2> QED
    BY <2>1, <2>2 DEF Outcome
<1>3. CASE r \in Imports /\ db'.state = db.state
  BY <1>0, <1>3 DEF Outcome
<1>4. \/ r \in Deleters
      \/ r \in Publishers \cup Imports /\ db'.state = Published(db.state, r)
      \/ r \in Imports /\ db'.state = db.state
  BY <1>0 DEF Effect
<1> QED
  BY <1>1, <1>2, <1>3, <1>4

LEMMA CommitInv ==
    ASSUME IInv, NEW r \in Requests, Commits(r)
    PROVE  IInv'
<1>e. Effect(r)
  BY CommitEffect
<1>o. Outcome(r)
  BY CommitStates
<1> USE DEF IInv
<1>9. PICK place \in {"done", "unanswered"} : Goto(r, place)
  BY DEF Commits, CommitChange, CancelCommit
<1>0. Moves(r, place) /\ pc[r] = "committing" /\ writer = r /\ db' = tx /\ tx' = tx
      /\ writer' = NoRequest /\ session' = session
  BY <1>9, <1>e DEF Effect, Moves, Goto, TypeOK, PC, Ended
<1>1. /\ PlaceInv' /\ pc' \in [Requests -> PC] /\ pc'[r] = place /\ Committed(r)'
      /\ \A q \in Requests \ {r} : pc'[q] = pc[q]
  BY <1>0, PlaceStep DEF Committed
<1>2. TypeOK'
  BY <1>0, <1>1 DEF TypeOK, Moves
<1>3. LockInv'
  BY <1>0, <1>1 DEF LockInv, NothingPendingWithoutWriter, MayHold, Flushed
<1>4. PendingInv'
  BY <1>0 DEF PendingInv
<1>5. SnapshotInv'
  <2>1. \A s \in Old : db'.state[s] # "absent"
    BY <1>o DEF Outcome, SnapshotInv, Snapshots
  <2>2. \A s \in Publishers \cup Imports : ~Committed(s)' => db'.state[s] = "absent"
    BY <1>1, <1>o DEF Committed, Outcome, SnapshotInv, Snapshots
  <2>3. \A q \in Deleters : pc'[q] \in {"deleting", "auditing", "committing"} =>
           seen'[q] \in {"current", "archived"} /\ db'.state[Victim[q]] # "absent"
    BY <1>0, <1>1, <1>o DEF Outcome, SnapshotInv, Moves
  <2> QED
    BY <2>1, <2>2, <2>3, <1>o DEF Committed, Outcome, SnapshotInv
<1>6. LogInv'
  <2>0. \A e \in db.log : e.by \in Requests
    BY DEF TypeOK, Database, Entry
  <2>1. \A e \in db'.log : e \in db.log \/ (r \in Publishers \cup Deleters /\ e = EntryOf(r))
    BY <1>e DEF Effect
  <2>2. r \in Publishers \cup Deleters => EntryOf(r) \in db'.log
    BY <1>e DEF Effect
  <2>3. /\ r \in Publishers => EntryOf(r).action = "publish" /\ EntryOf(r).snapshot = r
        /\ r \in Deleters => EntryOf(r).action = "delete" /\ EntryOf(r).snapshot = Victim[r]
        /\ EntryOf(r).by = r
    BY DEF EntryOf
  <2>4. \A e \in db'.log : Committed(e.by)'
    BY <2>0, <2>1, <2>3, <1>1 DEF Committed, LogInv
  <2>5. db.log \subseteq db'.log
    BY <1>e DEF Effect
  <2>6. ASSUME NEW s \in Publishers
        PROVE  db'.state[s] # "absent"
                 <=> \E e \in db'.log : e.action = "publish" /\ e.snapshot = s
    <3>1. db.state[s] # "absent" <=> \E e \in db.log : e.action = "publish" /\ e.snapshot = s
      BY DEF LogInv, ChangesAudited
    <3>2. s = r => db'.state[s] # "absent"
      BY <2>6, <1>o DEF Outcome
    <3>3. s # r => (db'.state[s] # "absent" <=> db.state[s] # "absent")
      BY <1>o DEF Outcome, Snapshots
    <3> QED
      BY <3>1, <3>2, <3>3, <2>1, <2>2, <2>3, <2>5
  <2>7. ASSUME NEW s \in Snapshots
        PROVE  db'.state[s] = "deleted"
                 <=> \E e \in db'.log : e.action = "delete" /\ e.snapshot = s
    <3>1. db.state[s] = "deleted" <=> \E e \in db.log : e.action = "delete" /\ e.snapshot = s
      BY DEF LogInv, ChangesAudited
    <3> QED
      BY <3>1, <1>o, <2>1, <2>2, <2>3, <2>5 DEF Outcome
  <2> QED
    BY <2>4, <2>6, <2>7 DEF Committed, LogInv, ChangesAudited
<1>7. ImportInv'
  <2>1. Apart'
    BY <1>0, ApartStep, ImportInvParts DEF Moves, InFlight, Flushed
  <2>2. ASSUME NEW q \in Imports, Publishing(q)' PROVE Differs(q)'
    <3>1. q # r /\ pc[q] = pc'[q] /\ pc[q] \in {"archiving", "adding"}
      BY <2>2, <1>0, <1>1 DEF Publishing
    <3>2. Differs(q)
      BY <3>1, ImportInvParts DEF Publishing
    <3>3. ASSUME NEW s \in Imports, PairOf[q] = PairOf[s], db'.state[s] = "current"
          PROVE  ContentOf[q] # ContentOf[s]
      <4>1. s # r
        BY <3>1, <3>3, <1>0, ImportInvParts DEF Apart, InFlight, Flushed
      <4>2. db.state[s] = "current"
        BY <3>3, <4>1, <1>o DEF Outcome, Snapshots
      <4> QED
        BY <3>2, <3>3, <4>2 DEF Differs
    <3> QED
      BY <3>3 DEF Differs
  <2> QED
    BY <2>1, <2>2, ImportInvParts
<1> QED
  BY <1>1, <1>2, <1>3, <1>4, <1>5, <1>6, <1>7

(* Deleting a competition changes no snapshot. *)
LEMMA WithdrawInv == ASSUME IInv, NEW p \in Pairs, Withdraw(p) PROVE IInv'
<1> USE DEF IInv
<1>1. /\ writer = NoRequest /\ writer' = writer /\ session' = session /\ pc' = pc /\ seen' = seen
      /\ tx' = db' /\ db' \in Database /\ db'.state = db.state /\ db'.log = db.log
  BY DEF Withdraw, TypeOK, Database
<1>2. TypeOK' /\ PlaceInv' /\ LockInv' /\ PendingInv'
  BY <1>1 DEF TypeOK, PlaceInv, LockInv, NothingPendingWithoutWriter, PendingInv
<1>3. SnapshotInv' /\ LogInv'
  BY <1>1 DEF Committed, SnapshotInv, LogInv, ChangesAudited
<1>4. ImportInv'
  BY <1>1 DEF ImportInv
<1> QED
  BY <1>2, <1>3, <1>4
-----------------------------------------------------------------------------
-----------------------------------------------------------------------------
(* One lemma per action. *)

LEMMA BeginInv == ASSUME IInv, NEW r \in Requests, Begin(r) PROVE IInv'
<1> USE DEF IInv
<1> DEFINE place == IF r \in Publishers THEN "checking"
                    ELSE IF r \in Deleters THEN "reading" ELSE "importing"
<1>1. Moves(r, place) /\ UNCHANGED storeVars
  BY DEF Begin, Goto, Moves, TypeOK, PC, InFlight
<1>2. Apart'
  BY ImportInvParts DEF Begin, Goto, MayBegin, Apart, TypeOK
<1>3. writer # r
  BY DEF LockInv, Begin, MayHold, Flushed
<1>4. place \in {"checking", "reading", "importing"} /\ pc[r] = "idle"
  BY DEF Begin
<1> HIDE DEF place
<1> QED
  BY <1>1, <1>2, <1>3, <1>4, QuietStep DEF Flushed, Ended

(* The steps that only read. *)
LEMMA ReadInv ==
    ASSUME IInv, NEW r \in Requests,
           \/ r \in Publishers /\ CheckPair(r)
           \/ r \in Deleters /\ FindSnapshot(r)
           \/ r \in Imports /\ (EarlierItemsUnchanged(r) \/ TableChanged(r) \/ TableUnchanged(r))
    PROVE  IInv'
<1> USE DEF IInv
<1>0. writer = r => View(r).state = db.state /\ (pc[r] = "comparing" => tx.state = db.state)
  <2>1. writer = r => pc[r] \in MayHold
    BY DEF LockInv
  <2>2. writer = r /\ pc[r] = "comparing" => tx.state = db.state
    BY DEF PendingInv, PendingStates
  <2>3. pc[r] \in {"checking", "reading", "importing", "comparing"}
    BY DEF CheckPair, FindSnapshot, EarlierItemsUnchanged, TableChanged, TableUnchanged
  <2> QED
    BY <2>1, <2>2, <2>3 DEF MayHold, Flushed, View
<1>1. CASE r \in Publishers /\ CheckPair(r)
  <2>1. Moves(r, "archiving") /\ UNCHANGED storeVars /\ pc[r] = "checking"
    BY <1>1 DEF CheckPair, Goto, Moves, TypeOK, PC, InFlight
  <2>2. Apart'
    BY <2>1, ApartStep, ImportInvParts DEF Moves, InFlight
  <2>3. writer # r
    BY <2>1 DEF LockInv, MayHold, Flushed
  <2> QED
    BY <1>1, <2>1, <2>2, <2>3, QuietStep DEF Flushed, Ended
<1>2. CASE r \in Deleters /\ FindSnapshot(r)
  <2>1. writer # r /\ pc[r] = "reading"
    BY <1>2 DEF FindSnapshot, LockInv, MayHold, Flushed
  <2>2. /\ Moves(r, "deleting") /\ UNCHANGED storeVars
        /\ seen'[r] \in {"current", "archived"} /\ db.state[Victim[r]] # "absent"
    BY <1>2, <2>1 DEF FindSnapshot, Moves, TypeOK, PC, InFlight, SnapshotState, View
  <2>3. Apart'
    BY <2>1, <2>2, ApartStep, ImportInvParts DEF Moves, InFlight
  <2> QED
    BY <1>2, <2>1, <2>2, <2>3, QuietStep DEF Flushed, Ended
<1>3. CASE r \in Imports /\ EarlierItemsUnchanged(r)
  <2>1. Moves(r, "comparing") /\ UNCHANGED storeVars /\ pc[r] = "importing"
    BY <1>3 DEF EarlierItemsUnchanged, Goto, Moves, TypeOK, PC, InFlight
  <2>2. Apart'
    BY <2>1, ApartStep, ImportInvParts DEF Moves, InFlight
  <2>3. writer # r
    BY <2>1 DEF LockInv, MayHold, Flushed
  <2> QED
    BY <1>3, <2>1, <2>2, <2>3, QuietStep DEF Flushed, Ended
<1>4. CASE r \in Imports /\ TableChanged(r)
  <2>1. Moves(r, "archiving") /\ UNCHANGED storeVars /\ pc[r] = "comparing"
    BY <1>4 DEF TableChanged, Goto, Moves, TypeOK, PC, InFlight
  <2>2. Apart'
    BY <2>1, ApartStep, ImportInvParts DEF Moves, InFlight
  <2>3. View(r).state = db.state
    BY <1>0 DEF View
  <2>4. Differs(r)
    BY <1>4, <2>3 DEF TableChanged, AlreadyCurrent, Differs, Snapshots
  <2> QED
    BY <1>0, <1>4, <2>1, <2>2, <2>4, QuietStep DEF Flushed, Ended
<1>5. CASE r \in Imports /\ TableUnchanged(r)
  <2>1. Moves(r, "completing") /\ UNCHANGED storeVars /\ pc[r] = "comparing"
    BY <1>5 DEF TableUnchanged, Goto, Moves, TypeOK, PC, InFlight
  <2>2. Apart'
    BY <2>1, ApartStep, ImportInvParts DEF Moves, InFlight
  <2> QED
    BY <1>0, <1>5, <2>1, <2>2, QuietStep DEF Flushed, Ended
<1> QED
  BY <1>1, <1>2, <1>3, <1>4, <1>5

LEMMA ArchiveCurrentInv ==
    ASSUME IInv, NEW r \in Publishers \cup Imports, ArchiveCurrent(r)
    PROVE  IInv'
<1> USE DEF IInv
<1> DEFINE contents == [View(r) EXCEPT !.state = Archived(@, r)]
<1>0. r \in Requests /\ r \notin Deleters
  OBVIOUS
<1>1. Moves(r, "adding") /\ Write(r, contents) /\ pc[r] = "archiving"
  BY <1>0 DEF ArchiveCurrent, Goto, Moves, TypeOK, PC, InFlight, Flushed
<1>2. View(r).state = db.state /\ View(r).log = db.log /\ View(r) \in Database /\ db.state \in States
  BY <1>0, <1>1, ViewType DEF PendingInv, PendingStates, PendingLog, View, TypeOK, Database, States
<1>3. contents \in Database /\ contents.state = Archived(db.state, r) /\ contents.log = db.log
  BY <1>0, <1>2, ViewType, ArchivedFacts DEF Database
<1>4. pc'[r] = "adding" /\ db' = db
  BY <1>0, <1>1 DEF Write, Moves, TypeOK
<1>5. contents.state \in PendingStates(r)' /\ contents.log = PendingLog(r)'
  BY <1>3, <1>4 DEF PendingStates, PendingLog, Archived
<1>6. r \in Imports => Publishing(r)
  BY <1>1 DEF Publishing
<1> HIDE DEF contents
<1> QED
  BY <1>0, <1>1, <1>3, <1>5, <1>6, WriteStep DEF MayHold, Flushed, InFlight

LEMMA AddSnapshotInv ==
    ASSUME IInv, NEW r \in Publishers \cup Imports, AddSnapshot(r)
    PROVE  IInv'
<1> USE DEF IInv
<1> DEFINE contents == [View(r) EXCEPT !.state[r] = "current"]
           place == IF r \in Imports THEN "completing" ELSE "auditing"
<1>0. r \in Requests /\ r \notin Deleters
  OBVIOUS
<1>1. Moves(r, place) /\ Write(r, contents) /\ pc[r] = "adding"
  BY <1>0 DEF AddSnapshot, Goto, Moves, TypeOK, PC, InFlight, Flushed
<1>2. /\ View(r).state = Archived(db.state, r) /\ View(r).log = db.log
      /\ View(r) \in Database /\ db.state \in States
  BY <1>0, <1>1, ViewType
     DEF LockInv, Flushed, PendingInv, PendingStates, PendingLog, View, TypeOK, Database, States
<1>3. /\ contents \in Database /\ contents.log = db.log
      /\ contents.state = [Archived(db.state, r) EXCEPT ![r] = "current"]
  BY <1>0, <1>2, ViewType DEF Database
<1>4. contents.state = Published(db.state, r)
  BY <1>3 DEF Published, Archived
<1>5. pc'[r] = place /\ db' = db
  BY <1>0, <1>1 DEF Write, Moves, TypeOK
<1>6. Published(db.state, r)' = Published(db.state, r)
  BY <1>5 DEF Published, Archived
<1>7. contents.state \in PendingStates(r)' /\ contents.log = PendingLog(r)'
  BY <1>0, <1>3, <1>4, <1>5, <1>6 DEF PendingStates, PendingLog
<1>8. place \in {"completing", "auditing"} /\ (r \in Imports => Publishing(r))
  BY <1>1 DEF Publishing
<1> HIDE DEF contents, place
<1> QED
  BY <1>0, <1>1, <1>3, <1>7, <1>8, WriteStep DEF MayHold, Flushed, InFlight

LEMMA SoftDeleteInv == ASSUME IInv, NEW r \in Deleters, SoftDelete(r) PROVE IInv'
<1> USE DEF IInv
<1> DEFINE contents == [View(r) EXCEPT !.state = Removed(@, Victim[r])]
<1>0. r \in Requests /\ r \notin Imports /\ r \notin Publishers
  OBVIOUS
<1>1. Moves(r, "auditing") /\ Write(r, contents) /\ pc[r] = "deleting" /\ seen' = seen
  BY <1>0 DEF SoftDelete, Goto, Moves, TypeOK, PC, InFlight, Flushed
<1>2. View(r).state = db.state /\ View(r).log = db.log /\ View(r) \in Database /\ db.state \in States
  BY <1>0, <1>1, ViewType DEF LockInv, MayHold, Flushed, View, TypeOK, Database, States
<1>3. contents \in Database /\ contents.state = Removed(db.state, Victim[r]) /\ contents.log = db.log
  BY <1>0, <1>2, ViewType, RemovedFacts DEF Database
<1>4. pc'[r] = "auditing" /\ db' = db
  BY <1>0, <1>1 DEF Write, Moves, TypeOK
<1>5. contents.state \in PendingStates(r)' /\ contents.log = PendingLog(r)'
  BY <1>0, <1>3, <1>4 DEF PendingStates, PendingLog, Removed
<1>6. seen'[r] \in {"current", "archived"} /\ db.state[Victim[r]] # "absent"
  BY <1>1 DEF SnapshotInv
<1> HIDE DEF contents
<1> QED
  BY <1>0, <1>1, <1>3, <1>5, <1>6, WriteStep DEF MayHold, Flushed, InFlight

LEMMA RecordAuditInv ==
    ASSUME IInv, NEW r \in Publishers \cup Deleters, RecordAudit(r)
    PROVE  IInv'
<1> USE DEF IInv
<1> DEFINE contents == [View(r) EXCEPT !.log = @ \cup {EntryOf(r)}]
<1>0. r \in Requests /\ r \notin Imports
  OBVIOUS
<1>1. Moves(r, "committing") /\ Write(r, contents) /\ pc[r] = "auditing" /\ seen' = seen
  BY <1>0 DEF RecordAudit, Goto, Moves, TypeOK, PC, InFlight, Flushed
<1>2. writer = r /\ View(r) = tx /\ tx \in Database
  BY <1>0, <1>1 DEF LockInv, Flushed, View, TypeOK
<1>3. tx.state \in PendingStates(r) /\ tx.log = db.log
  BY <1>1, <1>2 DEF PendingInv, PendingLog
<1>4. contents \in Database /\ contents.state = tx.state /\ contents.log = db.log \cup {EntryOf(r)}
  BY <1>0, <1>2, <1>3, ViewType DEF Database
<1>5. pc'[r] = "committing" /\ db' = db
  BY <1>0, <1>1 DEF Write, Moves, TypeOK
<1>6. PendingStates(r)' = PendingStates(r)
  BY <1>0, <1>1, <1>5 DEF PendingStates, Published, Archived, Removed
<1>7. PendingLog(r)' = db.log \cup {EntryOf(r)}
  BY <1>1, <1>5 DEF PendingLog, EntryOf
<1> HIDE DEF contents
<1> QED
  BY <1>0, <1>1, <1>3, <1>4, <1>6, <1>7, WriteStep DEF MayHold, Flushed, InFlight

LEMMA ApplyEarlierItemsInv ==
    ASSUME IInv, NEW r \in Imports, ApplyEarlierItems(r)
    PROVE  IInv'
<1> USE DEF IInv
<1> DEFINE contents == [View(r) EXCEPT !.withdrawn = @ \ {PairOf[r]}]
<1>0. r \in Requests /\ r \notin Deleters /\ r \notin Publishers
  OBVIOUS
<1>1. Moves(r, "comparing") /\ Write(r, contents) /\ pc[r] = "importing"
  BY <1>0 DEF ApplyEarlierItems, Goto, Moves, TypeOK, PC, InFlight
<1>2. View(r) = db /\ db \in Database
  BY <1>0, <1>1 DEF LockInv, MayHold, Flushed, View, TypeOK
<1>3. contents \in Database /\ contents.state = db.state /\ contents.log = db.log
  BY <1>0, <1>2, ViewType DEF Database
<1>4. pc'[r] = "comparing" /\ db' = db
  BY <1>0, <1>1 DEF Write, Moves, TypeOK
<1>5. contents.state \in PendingStates(r)' /\ contents.log = PendingLog(r)'
  BY <1>3, <1>4 DEF PendingStates, PendingLog
<1> HIDE DEF contents
<1> QED
  BY <1>0, <1>1, <1>3, <1>5, WriteStep DEF MayHold, Flushed, InFlight

LEMMA CompleteImportInv ==
    ASSUME IInv, NEW r \in Imports, CompleteImport(r)
    PROVE  IInv'
<1> USE DEF IInv
<1>0. r \in Requests /\ r \notin Deleters /\ r \notin Publishers
  OBVIOUS
<1>1. Moves(r, "committing") /\ Write(r, View(r)) /\ pc[r] = "completing"
  BY <1>0 DEF CompleteImport, Goto, Moves, TypeOK, PC, InFlight, Flushed
<1>2. View(r) \in Database
  BY <1>0, ViewType
<1>3. /\ View(r).state \in {db.state, Published(db.state, r)} /\ View(r).log = db.log
      /\ View(r).state # db.state => writer = r /\ tx.state # db.state
  BY <1>0, <1>1 DEF PendingInv, PendingStates, PendingLog, View
<1>4. pc'[r] = "committing" /\ db' = db
  BY <1>0, <1>1 DEF Write, Moves, TypeOK
<1>5. Published(db.state, r)' = Published(db.state, r)
  BY <1>4 DEF Published, Archived
<1>6. View(r).state \in PendingStates(r)' /\ View(r).log = PendingLog(r)'
  BY <1>0, <1>3, <1>4, <1>5 DEF PendingStates, PendingLog
<1>7. View(r).state # db.state => Publishing(r)
  BY <1>1, <1>3 DEF Publishing
<1> QED
  BY <1>0, <1>1, <1>2, <1>6, <1>7, WriteStep DEF MayHold, Flushed, InFlight

(* The steps that end a request without its change. *)
LEMMA FailInv ==
    ASSUME IInv, NEW r \in Requests,
           PairNotFound(r) \/ SnapshotNotFound(r) \/ TableInvalid(r) \/ Busy(r) \/ Crash(r)
    PROVE  IInv'
<1> USE DEF IInv
<1>1. PICK place \in {"notFound", "failed", "crashed"} : Goto(r, place)
  BY DEF PairNotFound, SnapshotNotFound, TableInvalid, Busy, Crash
<1>2. Moves(r, place)
  BY <1>1 DEF Goto, Moves, TypeOK, PC, Ended
<1>3. Discard(r) /\ session' \in [Requests -> SessionState]
  BY DEF PairNotFound, SnapshotNotFound, TableInvalid, Busy, Crash, ExitWithError, FlushError,
         Abandon, TypeOK, SessionState
<1>4. pc[r] \in InFlight
  BY DEF PairNotFound, SnapshotNotFound, TableInvalid, Busy, Crash, AboutToWrite, InFlight, Flushed
<1> QED
  BY <1>2, <1>3, <1>4, DiscardStep DEF Ended

-----------------------------------------------------------------------------
LEMMA InitInv == Init => IInv
<1> SUFFICES ASSUME Init PROVE IInv
  OBVIOUS
<1>1. PICK states \in [Snapshots -> {"absent", "current", "archived"}], withdrawn \in SUBSET Pairs :
        /\ \A s \in Snapshots : states[s] # "absent" <=> s \in Old
        /\ OneCurrent(states)
        /\ StoreInit([state |-> states, withdrawn |-> withdrawn, log |-> {}])
  BY DEF Init
<1>2. /\ db = [state |-> states, withdrawn |-> withdrawn, log |-> {}] /\ tx = db
      /\ writer = NoRequest /\ session = [r \in Requests |-> "loaded"]
      /\ pc = [r \in Requests |-> "idle"] /\ seen = [r \in Deleters |-> "absent"]
  BY <1>1 DEF Init, StoreInit
<1>3. TypeOK
  <2>1. states \in [Snapshots -> SnapshotState]
    BY DEF SnapshotState
  <2> QED
    BY <2>1, <1>2 DEF TypeOK, Database, SessionState, PC, SnapshotState
<1>4. PlaceInv /\ LockInv /\ PendingInv
  BY <1>2 DEF PlaceInv, LockInv, NothingPendingWithoutWriter, PendingInv, Flushed
<1>5. SnapshotInv
  BY <1>1, <1>2 DEF SnapshotInv, Snapshots
<1>6. LogInv
  <2>1. db.log = {} /\ \A s \in Snapshots : db.state[s] # "deleted"
    BY <1>2
  <2>2. \A s \in Publishers : db.state[s] = "absent"
    BY <1>1, <1>2 DEF Snapshots
  <2> QED
    BY <2>1, <2>2 DEF LogInv, ChangesAudited
<1>7. ImportInv
  BY <1>2 DEF ImportInv, InFlight, Flushed
<1> QED
  BY <1>3, <1>4, <1>5, <1>6, <1>7 DEF IInv

LEMMA NextInv == IInv /\ [Next]_vars => IInv'
<1> SUFFICES ASSUME IInv, [Next]_vars PROVE IInv'
  OBVIOUS
<1>1. ASSUME NEW r \in Requests, Step(r) PROVE IInv'
  BY ONLY IInv, r \in Requests, Step(r), ReadInv, FailInv, ArchiveCurrentInv, AddSnapshotInv,
     SoftDeleteInv, RecordAuditInv, ApplyEarlierItemsInv, CompleteImportInv, CommitInv
     DEF Step, Commits
<1>2. ASSUME NEW r \in Requests, Begin(r) PROVE IInv'
  BY <1>2, BeginInv
<1>3. ASSUME NEW r \in Requests, Crash(r) PROVE IInv'
  BY <1>3, FailInv
<1>4. ASSUME NEW p \in Pairs, Withdraw(p) PROVE IInv'
  BY <1>4, WithdrawInv
<1>6. ASSUME NEW r \in Requests, CancelCommit(r) PROVE IInv'
  BY <1>6, CommitInv DEF Commits
<1>5. CASE UNCHANGED vars
  <2> USE <1>5 DEF IInv, vars, storeVars
  <2>1. TypeOK' /\ PlaceInv' /\ LockInv'
    BY DEF TypeOK, PlaceInv, LockInv, NothingPendingWithoutWriter
  <2>2. PendingInv'
    <3>1. \A r \in Requests : PendingStates(r)' = PendingStates(r)
      BY DEF PendingStates, Published, Archived, Removed
    <3>2. \A r \in Requests : PendingLog(r)' = PendingLog(r)
      BY DEF PendingLog, EntryOf
    <3> QED
      BY ONLY <3>1, <3>2, IInv, UNCHANGED vars DEF IInv, PendingInv, vars, storeVars
  <2>3. SnapshotInv' /\ LogInv' /\ ImportInv'
    BY DEF Committed, SnapshotInv, LogInv, ChangesAudited, ImportInv
  <2> QED
    BY <2>1, <2>2, <2>3
<1> QED
  BY <1>1, <1>2, <1>3, <1>4, <1>5, <1>6 DEF Next
-----------------------------------------------------------------------------
(* The inductive invariant of the standings holds of every execution, for  *)
(* any requests, snapshots, pairs and faults.                              *)
THEOREM InvariantHolds == Spec => []IInv
<1> QED
  BY InitInv, NextInv, PTL DEF Spec

(* Every variable keeps its type; in particular a snapshot is in one of    *)
(* the states its two flags stand for, and an audit entry has an actor.    *)
THEOREM TypeCorrect == Spec => []TypeOK
<1>1. IInv => TypeOK
  BY DEF IInv
<1> QED
  BY <1>1, InvariantHolds, PTL

(* A pair never has two current snapshots, and no publication is refused   *)
(* by the unique index: the archive UPDATE takes the write lock first.     *)
THEOREM OnlyOneCurrent == Spec => []OneCurrentPerPair
<1>1. IInv => OneCurrentPerPair
  <2> SUFFICES ASSUME IInv, NEW r \in Publishers \cup Imports, pc[r] = "adding"
               PROVE  \A s \in Snapshots : PairOf[s] = PairOf[r] => View(r).state[s] # "current"
    BY DEF OneCurrentPerPair, IInv, SnapshotInv
  <2>1. r \in Requests /\ writer = r /\ View(r) = tx
    BY DEF IInv, LockInv, Flushed, View
  <2>2. View(r).state = Archived(db.state, r) /\ db.state \in States
    BY <2>1 DEF IInv, PendingInv, PendingStates, TypeOK, Database, States
  <2> QED
    BY <2>2, ArchivedFacts
<1> QED
  BY <1>1, InvariantHolds, PTL

(* Publications and deletions are visible exactly when their audit entry   *)
(* is, under any crash, rollback or lock timeout.                          *)
THEOREM EveryChangeAudited == Spec => []ChangesAudited
<1>1. IInv => ChangesAudited
  BY DEF IInv, LogInv
<1> QED
  BY <1>1, InvariantHolds, PTL

-----------------------------------------------------------------------------
(* What is committed changes only in a commit or a Withdraw, and a         *)
(* Withdraw changes neither a snapshot nor the log.                        *)
LEMMA OtherSteps ==
    ASSUME IInv, [Next]_vars, \A r \in Requests : ~Commits(r)
    PROVE  db'.state = db.state /\ db'.log = db.log
<1>1. ASSUME NEW r \in Requests, Begin(r) \/ Step(r) \/ Crash(r)
      PROVE  db' = db
  BY <1>1 DEF Commits, Begin, Step, Crash, CheckPair, PairNotFound, FindSnapshot, SnapshotNotFound,
     SoftDelete, ApplyEarlierItems, EarlierItemsUnchanged, TableChanged, TableUnchanged,
     TableInvalid, CompleteImport, ArchiveCurrent, AddSnapshot, RecordAudit, Busy,
     Write, FlushError, ExitWithError, Abandon, Discard, storeVars
<1>2. ASSUME NEW p \in Pairs, Withdraw(p)
      PROVE  db'.state = db.state /\ db'.log = db.log
  BY <1>2 DEF Withdraw, IInv, TypeOK, Database
<1> QED
  BY <1>1, <1>2 DEF Next, Commits, vars, storeVars

(* An import never replaces a table of another import that says the same.  *)
THEOREM RepeatedImport == Spec => RepeatedImportKeepsSnapshot
<1> DEFINE A == \A r, s \in Imports :
                    /\ db.state[r] = "absent" /\ db'.state[r] = "current"
                    /\ db.state[s] = "current" /\ db'.state[s] = "archived"
                    => ContentOf[r] # ContentOf[s]
<1>1. IInv /\ [Next]_vars => A
  <2> SUFFICES ASSUME IInv, [Next]_vars, NEW r \in Imports, NEW s \in Imports,
                      db.state[r] = "absent", db'.state[r] = "current",
                      db.state[s] = "current", db'.state[s] = "archived"
               PROVE  ContentOf[r] # ContentOf[s]
    OBVIOUS
  <2>1. PICK q \in Requests : Commits(q)
    BY OtherSteps
  <2>2. r = q
    BY <2>1, CommitStates DEF Outcome, Snapshots
  <2>3. db'.state = Published(db.state, r) /\ Differs(r)
    BY <2>1, <2>2, CommitEffect, CommitStates DEF Effect
  <2>4. PairOf[s] = PairOf[r]
    <3>1. s # r /\ s \in Snapshots /\ Archived(db.state, r)[s] # "current"
      BY <2>3 DEF Published, Archived, Snapshots
    <3> QED
      BY <3>1 DEF Archived
  <2> QED
    BY <2>3, <2>4 DEF Differs
<1>2. IInv /\ [Next]_vars => [A]_vars
  BY <1>1
<1> QED
  BY <1>2, InvariantHolds, PTL DEF Spec, RepeatedImportKeepsSnapshot

(* Every commit of a publication, deletion or import is a step of the      *)
(* history, or changes nothing it can see.                                 *)
LEMMA HistoryStep == IInv /\ [Next]_vars => [History!Next]_<<db.state, db.log>>
<1> SUFFICES ASSUME IInv, [Next]_vars
             PROVE  History!Next \/ UNCHANGED <<db.state, db.log>>
  OBVIOUS
<1>1. ASSUME NEW r \in Requests, Commits(r)
      PROVE  History!Next \/ UNCHANGED <<db.state, db.log>>
  <2>0. /\ db.state \in States /\ db'.state = tx.state /\ db'.log = tx.log
        /\ r \in Publishers \cup Deleters => EntryOf(r) \in Entry
    BY <1>1, CommitEffect, ViewType DEF IInv, Effect
  <2>1. ASSUME r \in Publishers \cup Imports, db'.state = Published(db.state, r),
               r \in Publishers => db'.log = db.log \cup {EntryOf(r)} /\ EntryOf(r) \notin db.log,
               r \notin Publishers => db'.log = db.log
        PROVE  History!Next
    <3>1. r \in Snapshots /\ db.state[r] = "absent"
      BY <1>1, <2>1, CommitEffect DEF Effect, Snapshots
    <3>2. db'.state = [t \in Snapshots |->
                         IF t = r THEN "current"
                         ELSE IF PairOf[t] = PairOf[r] /\ db.state[t] = "current" THEN "archived"
                         ELSE db.state[t]]
      BY <2>1 DEF Published, Archived
    <3>3. r \in Publishers =>
            \E e \in Entry \ db.log : /\ e.action = "publish" /\ e.snapshot = r
                                      /\ db'.log = db.log \cup {e}
      <4>1. r \in Publishers => EntryOf(r).action = "publish" /\ EntryOf(r).snapshot = r
        BY DEF EntryOf
      <4> QED
        BY <2>0, <2>1, <4>1
    <3>4. History!Publish(r)
      BY <2>1, <3>1, <3>2, <3>3 DEF History!Publish
    <3> QED
      BY <3>1, <3>4 DEF History!Next
  <2>2. CASE r \in Publishers
    BY <1>1, <2>0, <2>1, <2>2, CommitEffect DEF Effect
  <2>3. CASE r \in Imports
    BY <1>1, <2>0, <2>1, <2>3, CommitEffect DEF Effect
  <2>4. CASE r \in Deleters
    <3>1. /\ db'.state = [db.state EXCEPT ![Victim[r]] = "deleted"]
          /\ db.state[Victim[r]] # "absent" /\ Victim[r] \in Snapshots
          /\ db'.log = db.log \cup {EntryOf(r)} /\ EntryOf(r) \notin db.log
      BY <1>1, <2>0, <2>4, CommitEffect DEF Effect, Removed
    <3>2. EntryOf(r).action = "delete" /\ EntryOf(r).snapshot = Victim[r]
      BY <2>4 DEF EntryOf
    <3>3. \E e \in Entry \ db.log : /\ e.action = "delete" /\ e.snapshot = Victim[r]
                                    /\ db'.log = db.log \cup {e}
      BY <2>0, <2>4, <3>1, <3>2
    <3>4. History!Delete(Victim[r])
      BY <3>1, <3>3 DEF History!Delete
    <3> QED
      BY <3>1, <3>4 DEF History!Next
  <2> QED
    BY <2>2, <2>3, <2>4
<1> QED
  BY <1>1, OtherSteps

(* The standings service and the import's publication, with their locks    *)
(* and rollbacks, implement the history of snapshots.                      *)
THEOREM Refinement == Spec => ImplementsHistory
<1>1. Init => History!Init
  BY DEF Init, StoreInit, History!Init, History!OneCurrent, OneCurrent
<1>2. IInv /\ [Next]_vars => [History!Next]_<<db.state, db.log>>
  BY HistoryStep
<1> QED
  BY <1>1, <1>2, InvariantHolds, PTL DEF Spec, ImplementsHistory, History!Spec
=============================================================================
