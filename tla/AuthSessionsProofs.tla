------------------------ MODULE AuthSessionsProofs ------------------------
(* Theorems about AuthSessions for any requests, users and cap.            *)
EXTENDS AuthSessions, FiniteSetTheorems, TLAPS

USE NoRequestAssumption, AuthAssumption, NoSessionAssumption

(* Every place a request can be.                                           *)
LEMMA PlaceTypes ==
    /\ Ended \subseteq PC
    /\ \A place \in {"idle", "submitted", "verified", "checked", "flushed",
                     "done", "refused", "broken", "crashed", "unanswered"} : place \in PC
BY DEF PC, Ended

(* A request's effect leaves a database.                                   *)
LEMMA EffectType ==
    ASSUME TypeOK, NEW d \in Database, NEW r \in Requests \ Reads,
           r \in Logins => \A s \in active[r] : d.sessions[s] # NoSession,
           r \in Logouts \cup Rotations =>
               target[r] \in Logins /\ d.sessions[target[r]] # NoSession
    PROVE  Effect(d, r) \in Database
<1>1. CASE r \in Logins
  <2>0. [csrf |-> r, revoked |-> NoRequest] \in Session
    BY <1>1 DEF Session, Tokens
  <2>1. \A s \in Logins : d.sessions[s] \in Session \cup {NoSession}
    BY DEF Database
  <2>2. ASSUME NEW s \in Beyond(active[r], MaxActive - 1)
        PROVE  [d.sessions[s] EXCEPT !.revoked = r] \in Session
    <3>1. s \in Logins /\ d.sessions[s] \in Session
      BY <1>1, <2>1, <2>2 DEF Beyond, TypeOK
    <3> QED
      BY <3>1 DEF Session
  <2>3. Effect(d, r) = Opened(d, r)
    BY <1>1 DEF Effect
  <2> QED
    BY <2>0, <2>1, <2>2, <2>3 DEF Opened, Database
<1>2. CASE r \in Logouts
  BY <1>2 DEF Effect, Revoked, Database, Session
<1>3. CASE r \in Rotations
  BY <1>3 DEF Effect, Rotated, Database, Session, Tokens
<1>4. CASE r \in Commands
  BY <1>4 DEF Effect, Edited, Database
<1> QED
  BY <1>1, <1>2, <1>3, <1>4

(* While a request waits to commit, nothing others do changes its effect.  *)
LEMMA EffectStable ==
    ASSUME TypeOK, NEW r \in Requests, db' = db, target'[r] = target[r],
           r \in Logins =>
               active'[r] = active[r] /\ \A s \in active[r] : created'[s] = created[s]
    PROVE  Effect(db, r)' = Effect(db, r)
<1>1. CASE r \in Logins
  <2>1. ASSUME NEW s \in active[r]
        PROVE  {t \in active[r] : created[t] > created[s]}
                 = {t \in active[r] : created'[t] > created'[s]}
    BY <1>1, <2>1
  <2>2. Beyond(active[r], MaxActive - 1) = Beyond(active[r], MaxActive - 1)'
    BY <1>1, <2>1 DEF Beyond
  <2> QED
    BY <1>1, <2>2 DEF Effect, Opened
<1>2. CASE r \notin Logins
  BY <1>2 DEF Effect, Revoked, Rotated, Edited
<1> QED
  BY <1>1, <1>2

-----------------------------------------------------------------------------
(* A commit, whether its caller hears of it or not. *)
Commits(r) == CommitRequest(r) \/ CancelCommit(r)

(* What every step leaves alone: what was written stays so, and a request  *)
(* carries the same credentials once it has begun.                         *)
Settled ==
    /\ \A t \in Tokens : Written(t) => Written(t)'
    /\ \A r \in Requests : pc[r] # "idle" => target'[r] = target[r] /\ token'[r] = token[r]

(* A step that commits nothing leaves the sessions and tokens as they are. *)
LEMMA SessionsKept ==
    ASSUME IInv, TypeOK', Settled, db' = db,
           \A t \in Tokens : Written(t)' => Written(t)
    PROVE  SessionInv' /\ DisplacedByASession'
<1>1. \A t \in Tokens : /\ Committed(t) <=> Committed(t)'
                        /\ Committed(t) => SessionOf(t)' = SessionOf(t)
  BY DEF Written, Committed, SessionOf, Settled, Exists, Tokens
<1>2. SessionInv'
  <2>1. \A s \in Logins : Exists(db, s) <=> Exists(db, s)'
    BY DEF Exists
  <2>2. \A s \in Logins : Exists(db, s)' <=> Written(s)'
    BY <2>1 DEF IInv, SessionInv, Tokens, Settled
  <2>3. ASSUME NEW s \in Logins, Exists(db, s)
        PROVE  Committed(db.sessions[s].csrf)' /\ SessionOf(db.sessions[s].csrf)' = s
    <3>1. db.sessions[s].csrf \in Tokens
      BY <2>3 DEF Exists, IInv, TypeOK, Database, Session
    <3> QED
      BY <1>1, <2>3, <3>1 DEF IInv, SessionInv
  <2> QED
    BY <2>1, <2>2, <2>3 DEF SessionInv
<1>3. DisplacedByASession'
  BY DEF IInv, DisplacedByASession, Exists, Settled, Tokens
<1> QED
  BY <1>2, <1>3

(* What a request presents after it has begun. *)
Presents(r) ==
    /\ target[r] \in Logins /\ Exists(db, target[r])
    /\ token[r] \in Tokens /\ Committed(token[r])
    /\ SessionOf(token[r]) = target[r]

(* A step of request r that sends no INSERT, UPDATE, COMMIT or ROLLBACK.   *)
LEMMA QuietStep ==
    ASSUME IInv, TypeOK', Settled, UNCHANGED storeVars,
           NEW r \in Requests, NEW place \in PC, Goto(r, place),
           pc[r] \notin {"flushed", "done", "unanswered"}, place \notin {"flushed", "unanswered"},
           place = "done" => r \in Reads, place = "checked" => r \notin Reads,
           \A q \in Requests \ {r} : target'[q] = target[q] /\ token'[q] = token[q],
           \A q \in Logins \ {r} : active'[q] = active[q] /\ created'[q] = created[q],
           r \in Logins => \A s \in active'[r] : Exists(db, s) /\ Owner[s] = Owner[r],
           r \notin Logins =>
               /\ target'[r] \in Logins /\ Exists(db, target'[r])
               /\ token'[r] \in Tokens /\ Committed(token'[r])
               /\ token'[r] \in Logins => token'[r] = target'[r]
               /\ token'[r] \notin Logins => target[token'[r]] = target'[r]
    PROVE  IInv'
<1>1. \A q \in Requests \ {r} : pc'[q] = pc[q]
  BY DEF Goto, IInv, TypeOK
<1>2. pc'[r] = place
  BY DEF Goto, IInv, TypeOK
<1>3. SessionInv' /\ DisplacedByASession'
  <2>1. \A t \in Tokens : Written(t)' => Written(t)
    BY <1>1, <1>2 DEF Written, Tokens
  <2> QED
    BY <2>1, SessionsKept DEF storeVars
<1>4. WriterInv'
  <2>1. writer # r
    BY DEF IInv, WriterInv
  <2>2. ASSUME NEW q \in Requests, writer = q
        PROVE  tx' = Effect(db, q)'
    <3>1. q \in Logins => active'[q] = active[q] /\ \A s \in active[q] : created'[s] = created[s]
      <4>1. ~Exists(db, r) \/ r \notin Logins
        BY DEF Written, IInv, SessionInv
      <4>2. ASSUME q \in Logins, NEW s \in active[q]
            PROVE  s \in Logins \ {r}
        BY <4>1, <4>2 DEF IInv, ActiveInv, Exists
      <4> QED
        BY <2>1, <2>2, <4>2
    <3>2. Effect(db, q)' = Effect(db, q)
      BY <2>1, <2>2, <3>1, EffectStable DEF IInv, storeVars
    <3> QED
      BY <2>2, <3>2 DEF IInv, WriterInv, storeVars
  <2> QED
    BY <1>1, <1>2, <2>1, <2>2 DEF IInv, WriterInv, NothingPendingWithoutWriter, storeVars
<1>5. CredentialInv'
  <2>1. ASSUME NEW q \in Requests \ Logins, q # r, pc'[q] # "idle"
        PROVE  Presents(q)' /\ (q \in Reads => pc'[q] \notin {"checked", "flushed"})
    <3>1. Presents(q) /\ (q \in Reads => pc[q] \notin {"checked", "flushed"})
      BY <1>1, <2>1 DEF IInv, CredentialInv, Presents
    <3>2. Exists(db, target[q])' /\ target'[q] = target[q] /\ token'[q] = token[q]
      BY <2>1, <3>1 DEF Presents, Exists, storeVars
    <3>3. token[q] \in Logins => Exists(db, token[q])
      BY <3>1 DEF Presents, Committed
    <3>4. token[q] \notin Logins =>
            pc'[token[q]] \in {"done", "unanswered"} /\ target'[token[q]] = target[q]
      BY <3>1 DEF Written, Presents, Committed, SessionOf, Settled, Tokens
    <3> QED
      BY <1>1, <2>1, <3>1, <3>2, <3>3, <3>4
      DEF Written, Presents, Committed, SessionOf, Exists, storeVars
  <2>2. ASSUME r \notin Logins
        PROVE  Presents(r)' /\ (r \in Reads => pc'[r] \notin {"checked", "flushed"})
    <3>1. token'[r] \in Logins => Exists(db, token'[r]) /\ token'[r] = target'[r]
      BY <2>2 DEF Committed
    <3>2. token'[r] \notin Logins =>
            pc'[token'[r]] \in {"done", "unanswered"} /\ target'[token'[r]] = target'[r]
      BY <2>2 DEF Written, Committed, Settled, Tokens
    <3> QED
      BY <1>2, <2>2, <3>1, <3>2 DEF Written, Presents, Committed, SessionOf, Exists, storeVars
  <2> QED
    BY <2>1, <2>2 DEF CredentialInv, Presents
<1>6. ActiveInv'
  <2>1. \A s : Exists(db, s)' <=> Exists(db, s)
    BY DEF Exists, storeVars
  <2> QED
    BY <2>1 DEF IInv, ActiveInv
<1> QED
  BY <1>3, <1>4, <1>5, <1>6 DEF IInv

-----------------------------------------------------------------------------
(* What a writing request writes is well typed.                            *)
LEMMA WritesDatabase ==
    ASSUME IInv, NEW r \in Requests, pc[r] \in {"checked", "flushed"}
    PROVE  Effect(db, r) \in Database
<1>1. r \notin Reads
  BY DEF IInv, CredentialInv
<1>2. r \in Logins => \A s \in active[r] : db.sessions[s] # NoSession
  BY DEF IInv, ActiveInv, Exists
<1>3. r \in Logouts \cup Rotations => target[r] \in Logins /\ db.sessions[target[r]] # NoSession
  BY DEF IInv, CredentialInv, Exists
<1> QED
  BY <1>1, <1>2, <1>3, EffectType DEF IInv, TypeOK

(* Every step preserves the types. *)
LEMMA TypesPreserved == IInv /\ [Next]_vars => TypeOK'
<1> SUFFICES ASSUME IInv, [Next]_vars PROVE TypeOK'
  OBVIOUS
<1>0. TypeOK
  BY DEF IInv
<1>1. ASSUME NEW r \in Requests, Begin(r)
      PROVE  TypeOK'
  <2>1. pc' \in [Requests -> PC]
    BY <1>0, <1>1, PlaceTypes DEF Begin, Goto, TypeOK
  <2>2. target' \in [Requests -> Logins \cup {NoRequest}]
    BY <1>0, <1>1 DEF Begin, TypeOK
  <2>3. token' \in [Requests -> Tokens \cup {NoRequest}]
    BY <1>0, <1>1 DEF Begin, TypeOK
  <2> QED
    BY <1>0, <1>1, <2>1, <2>2, <2>3 DEF Begin, TypeOK, storeVars
<1>2. ASSUME NEW r \in Requests, Verify(r)
      PROVE  TypeOK'
  BY <1>0, <1>2, PlaceTypes DEF Verify, Goto, TypeOK, storeVars
<1>3. ASSUME NEW r \in Requests, RejectLogin(r)
      PROVE  TypeOK'
  BY <1>0, <1>3, PlaceTypes DEF RejectLogin, Goto, TypeOK, storeVars
<1>4. ASSUME NEW r \in Requests, SelectActive(r)
      PROVE  TypeOK'
  BY <1>0, <1>4, PlaceTypes DEF SelectActive, ActiveOf, Goto, TypeOK, storeVars
<1>5. ASSUME NEW r \in Requests, Check(r)
      PROVE  TypeOK'
  BY <1>0, <1>5, PlaceTypes DEF Check, Goto, TypeOK, storeVars
<1>6. ASSUME NEW r \in Requests, Flush(r)
      PROVE  TypeOK'
  <2>1. View(r) = db
    BY <1>6 DEF Flush, IInv, WriterInv, View
  <2>2. Effect(View(r), r) \in Database
    BY <1>6, <2>1, WritesDatabase DEF Flush
  <2> QED
    BY <1>0, <1>6, <2>2, PlaceTypes DEF Flush, Write, Goto, TypeOK, storeVars
<1>7. ASSUME NEW r \in Requests, CommitRequest(r)
      PROVE  TypeOK'
  BY <1>0, <1>7, PlaceTypes DEF CommitRequest, Commit, View, Goto, TypeOK, storeVars
<1>8. ASSUME NEW r \in Requests, Busy(r)
      PROVE  TypeOK'
  BY <1>0, <1>8, PlaceTypes DEF Busy, FlushError, Discard, Goto, TypeOK, SessionState, storeVars
<1>9. ASSUME NEW r \in Requests, Crash(r)
      PROVE  TypeOK'
  BY <1>0, <1>9, PlaceTypes DEF Crash, Abandon, Discard, Goto, TypeOK, storeVars
<1>10. ASSUME NEW s \in Logins, Expire(s)
       PROVE  TypeOK'
  BY <1>0, <1>10 DEF Expire, TypeOK, storeVars
<1>11. CASE UNCHANGED vars
  BY <1>0, <1>11 DEF TypeOK, vars, storeVars
<1>12. ASSUME NEW r \in Requests, CancelCommit(r)
       PROVE  TypeOK'
  BY <1>0, <1>12, PlaceTypes DEF CancelCommit, Commit, View, Goto, TypeOK, storeVars
<1> QED
  BY <1>1, <1>2, <1>3, <1>4, <1>5, <1>6, <1>7, <1>8, <1>9, <1>10, <1>11, <1>12 DEF Next, Step

(* Answers and credentials are never taken back.                           *)
LEMMA StepsSettle == IInv /\ [Next]_vars => Settled
<1> SUFFICES ASSUME IInv, [Next]_vars PROVE Settled
  OBVIOUS
<1>1. ASSUME NEW r \in Requests, NEW place, pc[r] \notin {"idle", "done", "unanswered"},
             Goto(r, place), UNCHANGED <<target, token>>
      PROVE  Settled
  BY <1>1 DEF Goto, Settled, Written, IInv, TypeOK, Tokens
<1>2. ASSUME NEW r \in Requests, Begin(r)
      PROVE  Settled
  BY <1>2 DEF Begin, Goto, Settled, Written, IInv, TypeOK, Tokens
<1>3. ASSUME NEW r \in Requests, Step(r)
      PROVE  Settled
  <2>1. PICK place : Goto(r, place)
    BY <1>3 DEF Step, Verify, RejectLogin, SelectActive, Check, Flush, CommitRequest, Busy
  <2> QED
    BY <1>1, <1>3, <2>1
    DEF Step, Verify, RejectLogin, SelectActive, Check, Flush, CommitRequest, Busy
<1>4. ASSUME NEW r \in Requests, Crash(r)
      PROVE  Settled
  BY <1>1, <1>4 DEF Crash, Ended
<1>5. ASSUME NEW s \in Logins, Expire(s)
      PROVE  Settled
  BY <1>5 DEF Expire, Settled, Written
<1>6. CASE UNCHANGED vars
  BY <1>6 DEF vars, Settled, Written
<1>7. ASSUME NEW r \in Requests, CancelCommit(r)
      PROVE  Settled
  BY <1>1, <1>7 DEF CancelCommit
<1> QED
  BY <1>2, <1>3, <1>4, <1>5, <1>6, <1>7 DEF Next

-----------------------------------------------------------------------------
(* A step of request r that leaves what is committed alone, and whose      *)
(* request neither begins nor is answered.                                 *)
LEMMA UncommittedStep ==
    ASSUME IInv, TypeOK', Settled, db' = db,
           UNCHANGED <<target, token, created, active>>,
           NEW r \in Requests, NEW place \in PC \ {"idle", "done", "unanswered"}, Goto(r, place),
           pc[r] \notin {"idle", "done", "unanswered"},
           r \in Reads => place \notin {"checked", "flushed"},
           WriterInv'
    PROVE  IInv'
<1>1. \A q \in Requests \ {r} : pc'[q] = pc[q]
  BY DEF Goto, IInv, TypeOK
<1>2. pc'[r] = place
  BY DEF Goto, IInv, TypeOK
<1>3. SessionInv' /\ DisplacedByASession'
  <2>1. \A t \in Tokens : Written(t)' => Written(t)
    BY <1>1, <1>2 DEF Written, Tokens
  <2> QED
    BY <2>1, SessionsKept
<1>4. CredentialInv'
  <2>1. ASSUME NEW q \in Requests \ Logins, pc'[q] # "idle"
        PROVE  Presents(q)' /\ (q \in Reads => pc'[q] \notin {"checked", "flushed"})
    <3>1. Presents(q) /\ (q \in Reads => pc[q] \notin {"checked", "flushed"})
      BY <1>1, <1>2, <2>1 DEF IInv, CredentialInv, Presents
    <3>2. token[q] \in Logins => Exists(db, token[q])
      BY <3>1 DEF Presents, Committed
    <3>3. token[q] \notin Logins =>
            pc'[token[q]] \in {"done", "unanswered"} /\ target'[token[q]] = target[q]
      BY <3>1 DEF Written, Presents, Committed, SessionOf, Settled, Tokens
    <3> QED
      BY <1>1, <1>2, <2>1, <3>1, <3>2, <3>3 DEF Written, Presents, Committed, SessionOf, Exists
  <2> QED
    BY <2>1 DEF CredentialInv, Presents
<1>5. ActiveInv'
  BY DEF IInv, ActiveInv, Exists
<1> QED
  BY <1>3, <1>4, <1>5 DEF IInv

(* Nobody's pending effect is disturbed when r gives up or ends.           *)
LEMMA DiscardStep ==
    ASSUME IInv, TypeOK', Settled, NEW r \in Requests, Discard(r),
           UNCHANGED <<target, token, created, active>>,
           NEW place \in PC \ {"idle", "done", "unanswered", "checked", "flushed"},
           Goto(r, place), pc[r] \notin {"idle", "done", "unanswered"}
    PROVE  IInv'
<1>1. \A q \in Requests \ {r} : pc'[q] = pc[q]
  BY DEF Goto, IInv, TypeOK
<1>2. pc'[r] = place
  BY DEF Goto, IInv, TypeOK
<1>3. WriterInv'
  <2>1. ASSUME NEW q \in Requests, writer' = q
        PROVE  tx' = Effect(db, q)'
    <3>1. writer = q /\ q # r /\ tx' = tx /\ db' = db
      BY <2>1 DEF Discard
    <3>2. Effect(db, q)' = Effect(db, q)
      BY <3>1, EffectStable DEF IInv
    <3> QED
      BY <3>1, <3>2 DEF IInv, WriterInv
  <2>2. NothingPendingWithoutWriter'
    BY DEF Discard, IInv, WriterInv, NothingPendingWithoutWriter
  <2>3. \A q \in Requests : pc'[q] = "flushed" <=> writer' = q
    BY <1>1, <1>2 DEF Discard, IInv, WriterInv
  <2> QED
    BY <2>1, <2>2, <2>3 DEF WriterInv
<1> QED
  BY <1>3, UncommittedStep DEF Discard

LEMMA FlushStep ==
    ASSUME IInv, TypeOK', Settled, NEW r \in Requests, Flush(r)
    PROVE  IInv'
<1>1. writer = NoRequest /\ View(r) = db
  BY DEF Flush, Write, LockFree, View, IInv, WriterInv
<1>2. \A q \in Requests \ {r} : pc'[q] = pc[q]
  BY DEF Flush, Goto, IInv, TypeOK
<1>3. pc'[r] = "flushed"
  BY DEF Flush, Goto, IInv, TypeOK
<1>4. tx' = Effect(db, r)'
  <2>1. tx' = Effect(db, r)
    BY <1>1 DEF Flush, Write
  <2>2. Effect(db, r)' = Effect(db, r)
    BY EffectStable DEF Flush, Write, IInv
  <2> QED
    BY <2>1, <2>2
<1>5. WriterInv'
  BY <1>1, <1>2, <1>3, <1>4
  DEF Flush, Write, IInv, WriterInv, NothingPendingWithoutWriter
<1>6. r \notin Reads
  BY DEF Flush, IInv, CredentialInv
<1> QED
  BY <1>5, <1>6, PlaceTypes, UncommittedStep DEF Flush, Write

(* The sessions a request displaces or closes when it commits. *)
Closing(r) ==
    CASE r \in Logins -> Beyond(active[r], MaxActive - 1)
      [] r \in Logouts -> {target[r]}
      [] OTHER -> {}

(* What a commit does to the committed sessions. *)
LEMMA CommitChanges ==
    ASSUME IInv, NEW r \in Requests, Commits(r)
    PROVE  /\ r \notin Reads
           /\ Closing(r) \subseteq Logins \ {r}
           /\ \A s \in Closing(r) : Exists(db, s)
           /\ r \in Logins => /\ ~Exists(db, r) /\ Exists(db, r)'
                              /\ db'.sessions[r] = [csrf |-> r, revoked |-> NoRequest]
           /\ \A s \in Logins \ {r} :
                /\ Exists(db, s)' <=> Exists(db, s)
                /\ Exists(db, s) =>
                     /\ db'.sessions[s].csrf = IF r \in Rotations /\ s = target[r]
                                               THEN r ELSE db.sessions[s].csrf
                     /\ db'.sessions[s].revoked = IF s \in Closing(r)
                                                  THEN r ELSE db.sessions[s].revoked
<1>0. TypeOK /\ pc[r] = "flushed" /\ db' = Effect(db, r)
  BY DEF Commits, CommitRequest, CancelCommit, Commit, View, IInv, WriterInv
<1>1. r \notin Reads
  BY <1>0 DEF IInv, CredentialInv
<1>2. \A s \in Logins : Exists(db, s) => db.sessions[s] \in Session
  BY <1>0 DEF TypeOK, Database, Exists
<1>3. DOMAIN db.sessions = Logins /\ db \in Database
  BY <1>0 DEF TypeOK, Database
<1>4. ASSUME NEW x \in Session, NEW y
      PROVE  /\ [x EXCEPT !.revoked = y] = [csrf |-> x.csrf, revoked |-> y]
             /\ [x EXCEPT !.csrf = y] = [csrf |-> y, revoked |-> x.revoked]
  BY DEF Session
<1>5. \A x, y : [csrf |-> x, revoked |-> y] # NoSession \/ ~(x \in Tokens /\ y \in Requests \cup {NoRequest})
  BY DEF Session
<1>6. CASE r \in Logins
  <2>1. \A s \in active[r] : s \in Logins \ {r} /\ Exists(db, s)
    BY <1>0, <1>6 DEF Written, IInv, ActiveInv, SessionInv, Exists
  <2>2. ~Exists(db, r)
    BY <1>0, <1>6 DEF Written, IInv, SessionInv
  <2>3. Closing(r) = Beyond(active[r], MaxActive - 1) /\ Closing(r) \subseteq active[r]
    BY <1>6 DEF Closing, Beyond
  <2>4. db'.sessions = [s \in Logins |->
            IF s = r THEN [csrf |-> r, revoked |-> NoRequest]
            ELSE IF s \in Beyond(active[r], MaxActive - 1)
                 THEN [db.sessions[s] EXCEPT !.revoked = r]
                 ELSE db.sessions[s]]
    BY <1>0, <1>3, <1>6 DEF Effect, Opened, Database
  <2>5. ASSUME NEW s \in Closing(r)
        PROVE  db'.sessions[s] = [csrf |-> db.sessions[s].csrf, revoked |-> r]
               /\ db'.sessions[s] # NoSession
    <3>1. s \in Logins \ {r} /\ db.sessions[s] \in Session
      BY <1>2, <2>1, <2>3
    <3>2. db'.sessions[s] = [db.sessions[s] EXCEPT !.revoked = r]
      BY <2>3, <2>4, <3>1
    <3>3. db.sessions[s].csrf \in Tokens
      BY <3>1 DEF Session
    <3>4. [csrf |-> db.sessions[s].csrf, revoked |-> r] \in Session
      BY <3>3 DEF Session
    <3>5. [db.sessions[s] EXCEPT !.revoked = r] = [csrf |-> db.sessions[s].csrf, revoked |-> r]
      BY <3>1 DEF Session
    <3> QED
      BY <3>2, <3>4, <3>5
  <2>6. \A s \in Logins \ {r} : s \notin Closing(r) => db'.sessions[s] = db.sessions[s]
    BY <2>3, <2>4
  <2>7. db'.sessions[r] = [csrf |-> r, revoked |-> NoRequest] /\ db'.sessions[r] # NoSession
    BY <1>5, <1>6, <2>4 DEF Tokens
  <2>8. r \notin Rotations
    BY <1>6
  <2>9. Closing(r) \subseteq Logins \ {r} /\ \A s \in Closing(r) : Exists(db, s)
    BY <2>1, <2>3
  <2>10. Exists(db, r)'
    BY <1>6, <2>7 DEF Exists
  <2>11. ASSUME NEW s \in Logins \ {r}
         PROVE  /\ Exists(db, s)' <=> Exists(db, s)
                /\ Exists(db, s) =>
                     /\ db'.sessions[s].csrf = db.sessions[s].csrf
                     /\ db'.sessions[s].revoked = IF s \in Closing(r)
                                                  THEN r ELSE db.sessions[s].revoked
    <3>1. CASE s \in Closing(r)
      <4>1. /\ db'.sessions[s] = [csrf |-> db.sessions[s].csrf, revoked |-> r]
            /\ db'.sessions[s] # NoSession /\ Exists(db, s)
        BY <2>5, <2>9, <3>1
      <4>2. Exists(db, s)'
        BY <4>1 DEF Exists
      <4> QED
        BY <3>1, <4>1, <4>2
    <3>2. CASE s \notin Closing(r)
      BY <2>6, <3>2 DEF Exists
    <3> QED
      BY <3>1, <3>2
  <2> QED
    BY <1>1, <1>6, <2>2, <2>7, <2>8, <2>9, <2>10, <2>11
<1>7. CASE r \notin Logins
  <2>1. target[r] \in Logins /\ Exists(db, target[r])
    BY <1>0, <1>7 DEF IInv, CredentialInv
  <2>2. db.sessions[target[r]] \in Session
    BY <1>2, <2>1
  <2>3. CASE r \in Logouts
    <3>0. [db.sessions[target[r]] EXCEPT !.revoked = r]
            = [csrf |-> db.sessions[target[r]].csrf, revoked |-> r]
      BY <2>2 DEF Session
    <3>4. Effect(db, r) = Revoked(db, r)
      BY <1>7, <2>3 DEF Effect
    <3>5. db' = [db EXCEPT !.sessions[target[r]].revoked = r]
      BY <1>0, <3>4 DEF Revoked
    <3>1. db'.sessions = [db.sessions EXCEPT ![target[r]] =
                             [csrf |-> db.sessions[target[r]].csrf, revoked |-> r]]
      BY <1>3, <3>0, <3>5 DEF Database
    <3>2. [csrf |-> db.sessions[target[r]].csrf, revoked |-> r] # NoSession
      BY <1>5, <2>2 DEF Session
    <3>3. Closing(r) = {target[r]} /\ r \notin Rotations
      BY <2>3 DEF Closing
    <3> QED
      BY <1>1, <1>3, <1>7, <2>1, <3>1, <3>2, <3>3 DEF Exists
  <2>4. CASE r \in Rotations
    <3>0. [db.sessions[target[r]] EXCEPT !.csrf = r]
            = [csrf |-> r, revoked |-> db.sessions[target[r]].revoked]
      BY <2>2 DEF Session
    <3>4. Effect(db, r) = Rotated(db, r)
      BY <1>7, <2>4 DEF Effect
    <3>1. db'.sessions = [db.sessions EXCEPT ![target[r]] =
                             [csrf |-> r, revoked |-> db.sessions[target[r]].revoked]]
      BY <1>0, <1>3, <3>0, <3>4 DEF Rotated, Database
    <3>2. [csrf |-> r, revoked |-> db.sessions[target[r]].revoked] # NoSession
      BY <1>5, <2>2, <2>4 DEF Session, Tokens
    <3>3. Closing(r) = {}
      BY <2>4 DEF Closing
    <3> QED
      BY <1>1, <1>3, <1>7, <2>1, <2>4, <3>1, <3>2, <3>3 DEF Exists
  <2>5. CASE r \in Commands
    <3>1. db'.sessions = db.sessions
      BY <1>0, <1>3, <2>5 DEF Effect, Edited, Database
    <3>2. Closing(r) = {} /\ r \notin Rotations
      BY <2>5 DEF Closing
    <3> QED
      BY <1>1, <1>7, <3>1, <3>2 DEF Exists
  <2> QED
    BY <1>1, <1>7, <2>3, <2>4, <2>5
<1> QED
  BY <1>6, <1>7

LEMMA CommitStep ==
    ASSUME IInv, TypeOK', Settled, NEW r \in Requests, Commits(r)
    PROVE  IInv'
<1>1. \A q \in Requests \ {r} : pc'[q] = pc[q]
  BY DEF Commits, CommitRequest, CancelCommit, Goto, Written, IInv, TypeOK
<1>2. pc[r] = "flushed" /\ Written(r)' /\ UNCHANGED <<target, token, active>>
  BY DEF Commits, CommitRequest, CancelCommit, Goto, Written, IInv, TypeOK
<1>0. r \in Logins => /\ ~Exists(db, r)
                       /\ db'.sessions[r] = [csrf |-> r, revoked |-> NoRequest]
  BY CommitChanges
<1>3. \A s \in Logins : Exists(db, s) => Exists(db, s)'
  BY CommitChanges
<1>4. WriterInv'
  BY <1>1, <1>2 DEF Written, Commits, CommitRequest, CancelCommit, Commit, View, IInv, WriterInv,
                    NothingPendingWithoutWriter
<1>5. ASSUME NEW s \in Logins
      PROVE  Exists(db, s)' <=> Written(s)'
  <2>1. CASE s = r
    BY <1>2, <2>1, CommitChanges
  <2>2. CASE s # r
    BY <1>1, <2>2, CommitChanges DEF Written, IInv, SessionInv
  <2> QED
    BY <2>1, <2>2
<1>6. ASSUME NEW t \in Tokens, Committed(t)
      PROVE  /\ t \in Logins => Exists(db, t)'
             /\ t \notin Logins => Written(t)'
             /\ t # r
  BY <1>0, <1>2, <1>3, <1>6 DEF Written, Committed, Settled
<1>7. ASSUME NEW s \in Logins, Exists(db, s)'
      PROVE  Committed(db.sessions[s].csrf)' /\ SessionOf(db.sessions[s].csrf)' = s
  <2>1. CASE s = r
    <3>1. db'.sessions[s].csrf = r
      BY <1>0, <2>1
    <3> QED
      BY <1>7, <2>1, <3>1 DEF Committed, SessionOf
  <2>2. CASE s # r /\ r \in Rotations /\ s = target[r]
    <3>1. db'.sessions[s].csrf = r
      BY <1>7, <2>2, CommitChanges
    <3> QED
      BY <1>2, <2>2, <3>1 DEF Committed, SessionOf
  <2>3. CASE s # r /\ ~(r \in Rotations /\ s = target[r])
    <3>1. Exists(db, s) /\ db'.sessions[s].csrf = db.sessions[s].csrf
      BY <1>7, <2>3, CommitChanges
    <3>2. db.sessions[s].csrf \in Tokens
      BY <3>1 DEF Exists, IInv, TypeOK, Database, Session
    <3>3. Committed(db.sessions[s].csrf) /\ SessionOf(db.sessions[s].csrf) = s
      BY <3>1 DEF IInv, SessionInv
    <3> QED
      BY <1>2, <1>6, <3>1, <3>2, <3>3 DEF Committed, SessionOf
  <2> QED
    BY <2>1, <2>2, <2>3
<1>8. SessionInv'
  BY <1>5, <1>7 DEF SessionInv
<1>9. DisplacedByASession'
  <2>1. ASSUME NEW s \in Logins, NEW q \in Logins, Exists(db, s)', db'.sessions[s].revoked = q
        PROVE  Exists(db, q)' /\ Written(q)'
    <3>1. s # r
      BY <1>0, <2>1
    <3>2. db.sessions[s].revoked = q \/ q = r
      BY <2>1, <3>1, CommitChanges
    <3>3. CASE q = r
      BY <1>2, <3>3, CommitChanges
    <3>4. CASE db.sessions[s].revoked = q
      <4>1. Exists(db, q)
        BY <2>1, <3>1, <3>4, CommitChanges DEF IInv, DisplacedByASession
      <4> QED
        BY <1>3, <1>5, <4>1
    <3> QED
      BY <3>2, <3>3, <3>4
  <2> QED
    BY <2>1 DEF DisplacedByASession, Exists
<1>10. CredentialInv'
  <2>1. ASSUME NEW q \in Requests \ Logins, pc'[q] # "idle"
        PROVE  Presents(q)' /\ (q \in Reads => pc'[q] \notin {"checked", "flushed"})
    <3>1. Presents(q) /\ (q \in Reads => pc[q] \notin {"checked", "flushed"})
      BY <1>1, <1>2, <2>1 DEF IInv, CredentialInv, Presents
    <3>2. Exists(db, target[q])'
      BY <1>2, <1>3, <3>1 DEF Presents, Exists
    <3> QED
      BY <1>1, <1>2, <1>6, <2>1, <3>1, <3>2 DEF Presents, Committed, SessionOf, Exists
  <2> QED
    BY <2>1 DEF CredentialInv, Presents
<1>11. ActiveInv'
  BY <1>2, <1>3 DEF IInv, ActiveInv, TypeOK, Exists
<1> QED
  BY <1>4, <1>8, <1>9, <1>10, <1>11 DEF IInv

LEMMA ExpireStep ==
    ASSUME IInv, TypeOK', NEW s \in Logins, Expire(s)
    PROVE  IInv'
<1>1. ASSUME NEW q \in Requests, writer = q
      PROVE  Effect(db, q)' = Effect(db, q)
  BY <1>1, EffectStable DEF Expire, storeVars, IInv
<1>2. WriterInv'
  BY <1>1 DEF Expire, storeVars, IInv, WriterInv, NothingPendingWithoutWriter
<1> QED
  BY <1>2 DEF Expire, storeVars, IInv, SessionInv, CredentialInv, ActiveInv, DisplacedByASession,
              Written, Exists, Committed, SessionOf

-----------------------------------------------------------------------------
LEMMA InitInvariant == Init => IInv
<1> SUFFICES ASSUME Init PROVE IInv
  OBVIOUS
<1>1. db \in Database
  BY DEF Init, StoreInit, Database
<1>2. TypeOK
  BY <1>1, PlaceTypes DEF Init, StoreInit, TypeOK, SessionState
<1>3. \A s \in Logins : ~Exists(db, s)
  BY DEF Init, StoreInit, Exists
<1> QED
  BY <1>2, <1>3 DEF Init, StoreInit, IInv, WriterInv, NothingPendingWithoutWriter, SessionInv,
                    Written, CredentialInv, ActiveInv, DisplacedByASession

LEMMA StepInvariant == IInv /\ [Next]_vars => IInv'
<1> SUFFICES ASSUME IInv, [Next]_vars PROVE IInv'
  OBVIOUS
<1>0. TypeOK /\ TypeOK' /\ Settled
  BY TypesPreserved, StepsSettle DEF IInv
<1>01. \A r \in Requests \ Logins : pc[r] # "idle" =>
         /\ target[r] \in Logins /\ Exists(db, target[r])
         /\ token[r] \in Tokens /\ Committed(token[r])
         /\ token[r] \in Logins => token[r] = target[r]
         /\ token[r] \notin Logins => target[token[r]] = target[r]
  BY DEF IInv, CredentialInv, SessionOf
<1>02. \A r \in Logins : \A s \in active[r] : Exists(db, s) /\ Owner[s] = Owner[r]
  BY DEF IInv, ActiveInv
<1>1. ASSUME NEW r \in Requests, Begin(r)
      PROVE  IInv'
  <2>1. /\ Goto(r, "submitted") /\ UNCHANGED storeVars /\ UNCHANGED <<created, active>>
        /\ pc[r] = "idle"
        /\ \A q \in Requests \ {r} : target'[q] = target[q] /\ token'[q] = token[q]
    BY <1>0, <1>1 DEF Begin, TypeOK
  <2>2. ASSUME r \notin Logins
        PROVE  /\ target'[r] \in Logins /\ Exists(db, target'[r])
               /\ token'[r] \in Tokens /\ Committed(token'[r])
               /\ token'[r] \in Logins => token'[r] = target'[r]
               /\ token'[r] \notin Logins => target[token'[r]] = target'[r]
    <3>1. PICK s \in Logins, t \in Tokens :
             /\ pc[s] = "done" /\ pc[t] = "done"
             /\ t = s \/ (t \in Rotations /\ target[t] = s)
             /\ target' = [target EXCEPT ![r] = s]
             /\ token' = [token EXCEPT ![r] = t]
      BY <1>1, <2>2 DEF Begin
    <3>2. target'[r] = s /\ token'[r] = t
      BY <1>0, <3>1 DEF TypeOK
    <3>3. Exists(db, s) /\ Committed(t)
      BY <3>1 DEF Written, IInv, SessionInv, Committed
    <3> QED
      BY <3>1, <3>2, <3>3
  <2> QED
    BY <1>0, <1>02, <2>1, <2>2, QuietStep, PlaceTypes
<1>2. ASSUME NEW r \in Requests, Verify(r)
      PROVE  IInv'
  <2>1. /\ r \in Logins /\ pc[r] = "submitted" /\ Goto(r, "verified")
        /\ UNCHANGED storeVars /\ UNCHANGED <<target, token, active>>
        /\ \A q \in Logins \ {r} : created'[q] = created[q]
    BY <1>0, <1>2 DEF Verify, TypeOK
  <2> QED
    BY <1>0, <1>02, <2>1, QuietStep, PlaceTypes
<1>3. ASSUME NEW r \in Requests, RejectLogin(r)
      PROVE  IInv'
  <2>1. /\ r \in Logins /\ pc[r] = "submitted" /\ Goto(r, "refused")
        /\ UNCHANGED storeVars /\ UNCHANGED <<target, token, created, active>>
    BY <1>3 DEF RejectLogin
  <2> QED
    BY <1>0, <1>02, <2>1, QuietStep, PlaceTypes
<1>4. ASSUME NEW r \in Requests, SelectActive(r)
      PROVE  IInv'
  <2>1. /\ r \in Logins /\ pc[r] = "verified" /\ Goto(r, "checked")
        /\ UNCHANGED storeVars /\ UNCHANGED <<target, token, created>>
        /\ active' = [active EXCEPT ![r] = ActiveOf(View(r), Owner[r])]
    BY <1>4 DEF SelectActive
  <2>2. View(r) = db
    BY <2>1 DEF View, IInv, WriterInv
  <2>3. \A s \in active'[r] : Exists(db, s) /\ Owner[s] = Owner[r]
    BY <1>0, <2>1, <2>2 DEF TypeOK, ActiveOf, IsActive
  <2>4. \A q \in Logins \ {r} : active'[q] = active[q]
    BY <1>0, <2>1 DEF TypeOK
  <2> QED
    BY <1>0, <2>1, <2>3, <2>4, QuietStep, PlaceTypes
<1>5. ASSUME NEW r \in Requests, Check(r)
      PROVE  IInv'
  <2>1. /\ r \notin Logins /\ pc[r] = "submitted"
        /\ UNCHANGED storeVars /\ UNCHANGED <<target, token, created, active>>
    BY <1>5 DEF Check
  <2>2. PICK place \in {"refused", "done", "checked"} :
          /\ Goto(r, place)
          /\ place = "done" => r \in Reads
          /\ place = "checked" => r \notin Reads
    BY <1>5 DEF Check
  <2> QED
    BY <1>0, <1>01, <1>02, <2>1, <2>2, QuietStep, PlaceTypes
<1>6. ASSUME NEW r \in Requests, Flush(r)
      PROVE  IInv'
  BY <1>0, <1>6, FlushStep
<1>7. ASSUME NEW r \in Requests, Commits(r)
      PROVE  IInv'
  BY <1>0, <1>7, CommitStep
<1>8. ASSUME NEW r \in Requests, Busy(r)
      PROVE  IInv'
  BY <1>0, <1>8, DiscardStep, PlaceTypes DEF Busy, FlushError
<1>9. ASSUME NEW r \in Requests, Crash(r)
      PROVE  IInv'
  BY <1>0, <1>9, DiscardStep, PlaceTypes DEF Crash, Abandon, Ended
<1>10. ASSUME NEW s \in Logins, Expire(s)
       PROVE  IInv'
  BY <1>0, <1>10, ExpireStep
<1>11. CASE UNCHANGED vars
  <2>2. ASSUME NEW q \in Requests, writer = q
        PROVE  Effect(db, q)' = Effect(db, q)
    BY <1>0, <1>11, EffectStable DEF vars, storeVars
  <2>3. WriterInv'
    BY <1>11, <2>2 DEF vars, storeVars, IInv, WriterInv, NothingPendingWithoutWriter
  <2> QED
    BY <1>0, <1>11, <2>3 DEF Written, vars, storeVars, IInv, SessionInv, CredentialInv, ActiveInv,
                             DisplacedByASession, Exists, Committed, SessionOf
<1> QED
  BY <1>1, <1>2, <1>3, <1>4, <1>5, <1>6, <1>7, <1>8, <1>9, <1>10, <1>11
  DEF Next, Step, Commits

(* The invariant holds in every run of AuthService over the SQLite store,  *)
(* for any requests and any cap on active sessions.                        *)
THEOREM InvariantHolds == Spec => []IInv
BY InitInvariant, StepInvariant, PTL DEF Spec

(* Every variable of AuthSessions keeps its type.                          *)
THEOREM TypeCorrect == Spec => []TypeOK
BY InvariantHolds, PTL DEF IInv

(* prune_user_sessions and create_session take effect together: a session  *)
(* is displaced only by a login whose own session was committed, even if   *)
(* that login was cancelled before it could answer.                        *)
THEOREM Displaced == Spec => []DisplacedByASession
BY InvariantHolds, PTL DEF IInv

-----------------------------------------------------------------------------
(* Only a commit changes what is committed. *)
LEMMA OnlyCommits ==
    ASSUME [Next]_vars
    PROVE  \/ db' = db
           \/ \E r \in Requests : Commits(r)
BY DEF Next, Step, Commits, Begin, Verify, RejectLogin, SelectActive, Check, Flush, Write, Busy,
       FlushError, Crash, Abandon, Discard, Expire, vars, storeVars

(* A session that expired or was revoked and a token that was replaced     *)
(* stay so.                                                                *)
LEMMA StaleForEver ==
    ASSUME IInv, [Next]_vars, NEW r \in Requests \ Logins, pc[r] # "idle", Stale(r)
    PROVE  Stale(r)'
<1>1. target'[r] = target[r] /\ token'[r] = token[r]
  BY StepsSettle DEF Settled
<1>2. expired \subseteq expired'
  BY DEF Next, Step, Begin, Verify, RejectLogin, SelectActive, Check, Flush, CommitRequest, Busy,
         Crash, CancelCommit, Expire, vars
<1>3. CASE db' = db
  BY <1>1, <1>2, <1>3 DEF Stale
<1>4. ASSUME NEW q \in Requests, Commits(q)
      PROVE  Stale(r)'
  <2>1. target[r] \in Logins /\ Exists(db, target[r]) /\ Committed(token[r])
    BY DEF IInv, CredentialInv
  <2>2. ~Committed(q) \/ q \notin Tokens
    <3>1. pc[q] = "flushed"
      BY <1>4 DEF Commits, CommitRequest, CancelCommit
    <3> QED
      BY <3>1, <1>4, CommitChanges DEF Written, Committed
  <2>3. target[r] # q
    <3>1. q \in Logins => ~Exists(db, q)
      BY <1>4, CommitChanges
    <3> QED
      BY <2>1, <3>1
  <2>4. /\ db'.sessions[target[r]].csrf \in {q, db.sessions[target[r]].csrf}
        /\ db'.sessions[target[r]].revoked \in {q, db.sessions[target[r]].revoked}
        /\ db'.sessions[target[r]].csrf = q => q \in Rotations \/ db.sessions[target[r]].csrf = q
    BY <1>4, <2>1, <2>3, CommitChanges
  <2>5. token[r] = q => q \notin Tokens
    BY <2>1, <2>2
  <2>6. token[r] \in Tokens
    BY DEF IInv, CredentialInv
  <2> QED
    BY <1>1, <1>2, <2>4, <2>5, <2>6 DEF Stale
<1> QED
  BY <1>3, <1>4, OnlyCommits

(* A request that arrived with stale credentials is still unanswered, or   *)
(* it was refused, or it was cancelled.                                    *)
Refusal(r) == Stale(r) /\ pc[r] \in {"submitted", "refused", "crashed"}

LEMMA RefusalStable ==
    ASSUME IInv, [Next]_vars, NEW r \in Requests \ Logins, Refusal(r)
    PROVE  Refusal(r)'
<1>1. Stale(r)'
  BY StaleForEver DEF Refusal
<1>2. ASSUME NEW q \in Requests, NEW place, Goto(q, place), q # r
      PROVE  pc'[r] = pc[r]
  BY <1>2 DEF Goto, IInv, TypeOK
<1>3. CASE Begin(r)
  BY <1>3 DEF Begin, Refusal
<1>4. CASE Check(r)
  <2>1. View(r) = db
    BY <1>4 DEF Check, View, IInv, WriterInv
  <2>2. ~Accepts(r)
    BY <2>1 DEF Accepts, IsActive, Refusal, Stale
  <2>3. pc'[r] = "refused"
    BY <1>4, <2>2 DEF Check, Goto, IInv, TypeOK
  <2> QED
    BY <1>1, <2>3 DEF Refusal
<1>5. CASE Crash(r)
  <2>1. pc'[r] = "crashed"
    BY <1>5 DEF Crash, Goto, IInv, TypeOK
  <2> QED
    BY <1>1, <2>1 DEF Refusal
<1>6. CASE Flush(r) \/ CommitRequest(r) \/ Busy(r) \/ CancelCommit(r)
  BY <1>6 DEF Flush, CommitRequest, Busy, CancelCommit, Refusal
<1>7. CASE Verify(r) \/ RejectLogin(r) \/ SelectActive(r)
  BY <1>7 DEF Verify, RejectLogin, SelectActive
<1>8. ASSUME NEW q \in Requests \ {r}, Begin(q) \/ Step(q) \/ Crash(q) \/ CancelCommit(q)
      PROVE  pc'[r] = pc[r]
  <2>1. PICK place : Goto(q, place)
    BY <1>8 DEF Begin, Step, Verify, RejectLogin, SelectActive, Check, Flush, CommitRequest,
                Busy, Crash, CancelCommit
  <2> QED
    BY <1>2, <2>1
<1>9. CASE UNCHANGED pc
  BY <1>1, <1>9 DEF Refusal
<1>10. ASSUME NEW s \in Logins, Expire(s)
       PROVE  UNCHANGED pc
  BY <1>10 DEF Expire
<1> QED
  BY <1>1, <1>3, <1>4, <1>5, <1>6, <1>7, <1>8, <1>9, <1>10 DEF Next, Step, Refusal, vars

(* A revoked session and a replaced CSRF token are useless from the moment *)
(* logout or GET /csrf has committed, whatever is still in flight.         *)
THEOREM StaleRefused == Spec => StaleCredentialsRefused
<1>1. ASSUME IInv, [Next]_vars, NEW r \in Requests \ Logins, pc[r] = "submitted", Stale(r)
      PROVE  /\ pc'[r] \in {"submitted", "refused", "crashed"}
             /\ pc'[r] = "submitted" => Stale(r)'
  <2>1. Refusal(r)'
    BY <1>1, RefusalStable DEF Refusal
  <2> QED
    BY <2>1 DEF Refusal
<1> DEFINE Refused ==
             \A r \in Requests \ Logins : pc[r] = "submitted" /\ Stale(r) =>
                 /\ pc'[r] \in {"submitted", "refused", "crashed"}
                 /\ pc'[r] = "submitted" => Stale(r)'
<1>2. IInv /\ [Next]_vars => [Refused]_vars
  BY <1>1
<1>3. [][Refused]_vars => StaleCredentialsRefused
  BY PTL DEF StaleCredentialsRefused
<1> QED
  BY <1>2, <1>3, InvariantHolds, PTL DEF Spec

-----------------------------------------------------------------------------
LEMMA InitRefines == Init => Registry!Init
<1> SUFFICES ASSUME Init PROVE Registry!Init
  OBVIOUS
<1>1. \A s \in Logins : ~Exists(db, s)
  BY DEF Init, StoreInit, Exists
<1>2. \A t \in Tokens : ~Committed(t)
  BY <1>1 DEF Written, Init, Committed, Tokens
<1> QED
  BY <1>1, <1>2 DEF Registry!Init, StateOf, CsrfOf, Spent

(* A commit is the step of the registry that its request stands for.       *)
LEMMA CommitRefines ==
    ASSUME IInv, [Next]_vars, NEW r \in Requests, Commits(r)
    PROVE  \/ Registry!Next
           \/ UNCHANGED <<[s \in Logins |-> StateOf(s)], [s \in Logins |-> CsrfOf(s)], Spent>>
<1>0. /\ pc[r] = "flushed" /\ Written(r)' /\ UNCHANGED <<target, token, active>>
      /\ \A q \in Requests \ {r} : pc'[q] = pc[q]
  BY DEF Commits, CommitRequest, CancelCommit, Goto, Written, IInv, TypeOK
<1>1. /\ r \notin Reads
      /\ Closing(r) \subseteq Logins \ {r}
      /\ \A s \in Closing(r) : Exists(db, s)
      /\ r \in Logins => /\ ~Exists(db, r) /\ Exists(db, r)'
                         /\ db'.sessions[r] = [csrf |-> r, revoked |-> NoRequest]
  BY CommitChanges
<1>2. \A s \in Logins \ {r} :
        /\ Exists(db, s)' <=> Exists(db, s)
        /\ Exists(db, s) =>
             /\ db'.sessions[s].csrf = IF r \in Rotations /\ s = target[r]
                                       THEN r ELSE db.sessions[s].csrf
             /\ db'.sessions[s].revoked = IF s \in Closing(r)
                                          THEN r ELSE db.sessions[s].revoked
  BY CommitChanges
<1>3. \A s \in Logins \ {r} :
        /\ StateOf(s)' = IF s \in Closing(r) THEN "closed" ELSE StateOf(s)
        /\ CsrfOf(s)' = IF r \in Rotations /\ s = target[r] /\ Exists(db, s)
                        THEN r ELSE CsrfOf(s)
  BY <1>1, <1>2 DEF StateOf, CsrfOf
<1>4. r \in Logins => StateOf(r) = "absent" /\ StateOf(r)' = "open" /\ CsrfOf(r)' = r
  BY <1>1 DEF StateOf, CsrfOf
<1>5. ASSUME NEW t \in Tokens \ {r}
      PROVE  /\ Committed(t)' <=> Committed(t)
             /\ Committed(t) => SessionOf(t)' = SessionOf(t)
  BY <1>0, <1>2 DEF Written, Committed, SessionOf, Tokens
<1>6. r \in Tokens => ~Committed(r) /\ Committed(r)' /\ SessionOf(r)' = SessionOf(r)
  BY <1>0, <1>1 DEF Written, Committed, SessionOf
<1>7. ASSUME NEW t \in Tokens, Committed(t)
      PROVE  SessionOf(t) \in Logins \ {r} /\ Exists(db, SessionOf(t))
  BY <1>1, <1>7 DEF Written, IInv, CredentialInv, Committed, SessionOf, Exists, Tokens
<1>8. ASSUME r \notin Rotations
      PROVE  Spent' = Spent
  <2>1. ASSUME NEW t \in Tokens \ {r}
        PROVE  t \in Spent' <=> t \in Spent
    BY <1>3, <1>5, <1>7, <1>8, <2>1 DEF Spent
  <2>2. r \notin Spent /\ r \notin Spent'
    BY <1>4, <1>6, <1>8 DEF Spent, SessionOf, Tokens
  <2> QED
    BY <2>1, <2>2 DEF Spent
<1>9. CASE r \in Logins
  <2>1. \A d \in Closing(r) : Owner[d] = Owner[r] /\ StateOf(d) # "absent"
    <3>1. Closing(r) \subseteq active[r]
      BY <1>9 DEF Closing, Beyond
    <3> QED
      BY <1>1, <1>9, <3>1 DEF IInv, ActiveInv, StateOf
  <2>2. [s \in Logins |-> StateOf(s)']
          = [s \in Logins |-> IF s = r THEN "open"
                              ELSE IF s \in Closing(r) THEN "closed" ELSE StateOf(s)]
    BY <1>3, <1>4, <1>9
  <2>3. [s \in Logins |-> CsrfOf(s)']
          = [[s \in Logins |-> CsrfOf(s)] EXCEPT ![r] = r]
    BY <1>3, <1>4, <1>9
  <2>4. r \in Tokens \ Spent
    BY <1>6, <1>9 DEF Spent, Tokens
  <2>5. Spent' = Spent
    BY <1>8, <1>9
  <2>6. Closing(r) \in SUBSET (Logins \ {r})
    BY <1>1
  <2>7. Registry!Open(r, Closing(r))
    BY <1>4, <1>9, <2>1, <2>2, <2>3, <2>4, <2>5, <2>6 DEF Registry!Open
  <2> QED
    BY <1>9, <2>6, <2>7 DEF Registry!Next
<1>10. ASSUME r \notin Logins
       PROVE  target[r] \in Logins \ {r} /\ Exists(db, target[r])
  BY <1>0, <1>10 DEF IInv, CredentialInv
<1>11. CASE r \in Logouts
  <2>1. [s \in Logins |-> StateOf(s)']
          = [[s \in Logins |-> StateOf(s)] EXCEPT ![target[r]] = "closed"]
    BY <1>3, <1>10, <1>11 DEF Closing
  <2>2. [s \in Logins |-> CsrfOf(s)'] = [s \in Logins |-> CsrfOf(s)]
    BY <1>3, <1>11
  <2>3. Spent' = Spent
    BY <1>8, <1>11
  <2>4. StateOf(target[r]) \in {"open", "closed"}
    BY <1>10, <1>11 DEF StateOf
  <2>5. CASE StateOf(target[r]) = "open"
    <3>1. Registry!Close(target[r])
      BY <1>10, <1>11, <2>1, <2>2, <2>3, <2>5 DEF Registry!Close
    <3> QED
      BY <1>10, <1>11, <3>1 DEF Registry!Next
  <2>6. CASE StateOf(target[r]) = "closed"
    BY <1>10, <1>11, <2>1, <2>2, <2>3, <2>6
  <2> QED
    BY <2>4, <2>5, <2>6
<1>12. CASE r \in Rotations
  <2>0. r \notin Logins /\ r \in Tokens
    BY <1>12 DEF Tokens
  <2>1. [s \in Logins |-> StateOf(s)'] = [s \in Logins |-> StateOf(s)]
    BY <1>3, <1>12 DEF Closing
  <2>2. [s \in Logins |-> CsrfOf(s)']
          = [[s \in Logins |-> CsrfOf(s)] EXCEPT ![target[r]] = r]
    BY <1>3, <1>10, <1>12
  <2>3. Committed(CsrfOf(target[r])) /\ SessionOf(CsrfOf(target[r])) = target[r]
    BY <1>10, <1>12 DEF CsrfOf, IInv, SessionInv
  <2>4. CsrfOf(target[r]) \in Tokens
    BY <1>10, <1>12 DEF CsrfOf, IInv, TypeOK, Database, Session, Exists
  <2>5. r \notin Spent /\ r # CsrfOf(target[r])
    BY <1>6, <2>0, <2>3 DEF Spent
  <2>6. \A s \in Logins : s = target[r] => CsrfOf(s)' = r
    BY <1>3, <1>10, <1>12
  <2>7. Spent' = Spent \cup {CsrfOf(target[r])}
    <3>1. r \notin Spent'
      <4>1. SessionOf(r)' = target'[r]
        BY <2>0 DEF SessionOf
      <4>2. CsrfOf(SessionOf(r))' = r
        BY <1>0, <1>10, <2>0, <2>6, <4>1
      <4> QED
        BY <4>2 DEF Spent
    <3>2. ASSUME NEW t \in Tokens \ {r}
          PROVE  t \in Spent' <=> t \in Spent \/ t = CsrfOf(target[r])
      <4>1. CASE Committed(t) /\ SessionOf(t) = target[r]
        <5>1. CsrfOf(SessionOf(t))' = r /\ Committed(t)'
          BY <1>5, <1>10, <2>0, <2>6, <4>1
        <5> QED
          BY <4>1, <5>1 DEF Spent
      <4>2. CASE Committed(t) /\ SessionOf(t) # target[r]
        <5>1. CsrfOf(SessionOf(t))' = CsrfOf(SessionOf(t))
          BY <1>3, <1>5, <1>7, <4>2
        <5>2. t # CsrfOf(target[r])
          BY <2>3, <4>2
        <5> QED
          BY <1>5, <4>2, <5>1, <5>2 DEF Spent
      <4>3. CASE ~Committed(t)
        BY <1>5, <2>3, <4>3 DEF Spent
      <4> QED
        BY <4>1, <4>2, <4>3
    <3> QED
      BY <2>4, <2>5, <3>1, <3>2 DEF Spent
  <2>8. StateOf(target[r]) # "absent"
    BY <1>10, <1>12 DEF StateOf
  <2>9. Registry!Rotate(target[r])
    BY <1>10, <2>0, <2>1, <2>2, <2>5, <2>7, <2>8 DEF Registry!Rotate
  <2> QED
    BY <1>10, <2>0, <2>9 DEF Registry!Next
<1>13. CASE r \in Commands
  <2>1. [s \in Logins |-> StateOf(s)'] = [s \in Logins |-> StateOf(s)]
    BY <1>3, <1>13 DEF Closing
  <2>2. [s \in Logins |-> CsrfOf(s)'] = [s \in Logins |-> CsrfOf(s)]
    BY <1>3, <1>13
  <2> QED
    BY <1>8, <1>13, <2>1, <2>2
<1> QED
  BY <1>1, <1>9, <1>11, <1>12, <1>13

(* Logins, logouts, rotations and pruning implement the session registry.  *)
THEOREM Refinement == Spec => ImplementsRegistry
<1>1. ASSUME IInv, [Next]_vars
      PROVE  \/ Registry!Next
             \/ UNCHANGED <<[s \in Logins |-> StateOf(s)], [s \in Logins |-> CsrfOf(s)], Spent>>
  <2>1. CASE \E r \in Requests : Commits(r)
    BY <1>1, <2>1, CommitRefines
  <2>2. CASE db' = db /\ ~\E r \in Requests : Commits(r)
    <3>1. [s \in Logins |-> StateOf(s)'] = [s \in Logins |-> StateOf(s)]
      BY <2>2 DEF StateOf, Exists
    <3>2. [s \in Logins |-> CsrfOf(s)'] = [s \in Logins |-> CsrfOf(s)]
      BY <2>2 DEF CsrfOf, Exists
    <3>3. ASSUME NEW t \in Rotations
          PROVE  (Written(t)') <=> (Written(t))
      <4>1. ASSUME NEW q \in Requests, NEW place, Goto(q, place),
                   place \notin {"done", "unanswered"} \/ q \in Reads
            PROVE  Written(t)' => Written(t)
        BY <1>1, <4>1 DEF Goto, Written, IInv, TypeOK
      <4>2. Written(t)' => Written(t)
        <5>1. ASSUME NEW q \in Requests, Begin(q) \/ Step(q) \/ Crash(q)
              PROVE  \E place : /\ Goto(q, place)
                                /\ place \notin {"done", "unanswered"} \/ q \in Reads
          BY <2>2, <5>1 DEF Commits, Begin, Step, Verify, RejectLogin, SelectActive, Check, Flush, Busy,
                              Crash
        <5>2. CASE UNCHANGED pc
          BY <5>2 DEF Written
        <5>3. (\E q \in Requests : Begin(q) \/ Step(q) \/ Crash(q)) \/ UNCHANGED pc
          BY <1>1, <2>2 DEF Next, Expire, Commits, vars
        <5> QED
          BY <4>1, <5>1, <5>2, <5>3
      <4> QED
        BY <1>1, <4>2, StepsSettle DEF Settled, Tokens
    <3>4. ASSUME NEW t \in Tokens
          PROVE  t \in Spent' <=> t \in Spent
      <4>1. CASE t \in Logins
        BY <2>2, <4>1 DEF Spent, Committed, SessionOf, CsrfOf, Exists
      <4>2. CASE t \notin Logins /\ Written(t)
        <5>1. target'[t] = target[t]
          BY <1>1, <4>2, StepsSettle DEF Written, Settled, Tokens
        <5> QED
          BY <2>2, <3>3, <4>2, <5>1 DEF Spent, Committed, SessionOf, CsrfOf, Exists, Tokens
      <4>3. CASE t \notin Logins /\ ~Written(t)
        BY <3>3, <4>3 DEF Spent, Committed, Tokens
      <4> QED
        BY <4>1, <4>2, <4>3
    <3>5. Spent' = Spent
      BY <3>4 DEF Spent
    <3> QED
      BY <3>1, <3>2, <3>5
  <2> QED
    BY <1>1, <2>1, <2>2, OnlyCommits
<1> QED
  BY <1>1, InitRefines, InvariantHolds, PTL DEF Spec, ImplementsRegistry, Registry!Spec

-----------------------------------------------------------------------------
(* Fewer than `keep' of a set with distinct creation times have fewer than *)
(* `keep' newer ones.                                                      *)
LEMMA KeptAtMost ==
    ASSUME NEW A \in SUBSET Logins, NEW k \in Nat, created \in [Logins -> Nat],
           \A s, t \in A : s # t => created[s] # created[t]
    PROVE  Cardinality(A \ Beyond(A, k)) <= k /\ IsFiniteSet(A)
<1> DEFINE Newer(s) == {t \in A : created[t] > created[s]}
           Kept == A \ Beyond(A, k)
           rank == [s \in Kept |-> Cardinality(Newer(s))]
<1>1. IsFiniteSet(A) /\ IsFiniteSet(Kept)
  BY FS_Subset
<1>2. \A s \in A : IsFiniteSet(Newer(s)) /\ Cardinality(Newer(s)) \in Nat
  BY <1>1, FS_Subset, FS_CardinalityType
<1>3. rank \in [Kept -> 0 .. (k - 1)]
  BY <1>2 DEF Beyond
<1>4. ASSUME NEW x \in Kept, NEW y \in Kept, x # y, rank[x] = rank[y]
      PROVE  FALSE
  <2>1. ASSUME NEW s \in Kept, NEW t \in Kept, created[s] < created[t], rank[s] = rank[t]
        PROVE  FALSE
    <3>1. Newer(t) \in SUBSET Newer(s) /\ t \in Newer(s) /\ t \notin Newer(t)
      BY <2>1
    <3>2. Cardinality(Newer(s)) # Cardinality(Newer(t))
      BY <1>2, <3>1, FS_Subset
    <3> QED
      BY <2>1, <3>2
  <2>2. created[x] < created[y] \/ created[y] < created[x]
    BY <1>4
  <2> QED
    BY <1>4, <2>1, <2>2
<1>5. IsFiniteSet(0 .. (k - 1)) /\ Cardinality(0 .. (k - 1)) = k
  BY FS_Interval
<1> HIDE DEF rank, Kept
<1>6. ~(Cardinality(0 .. (k - 1)) < Cardinality(Kept))
  <2> SUFFICES ASSUME Cardinality(0 .. (k - 1)) < Cardinality(Kept)
               PROVE  FALSE
    OBVIOUS
  <2>1. \E x, y \in Kept : x # y /\ rank[x] = rank[y]
    BY <1>1, <1>3, <1>5, FS_PigeonHole
  <2> QED
    BY <1>4, <2>1
<1>7. Cardinality(Kept) \in Nat
  BY <1>1, FS_CardinalityType
<1> QED
  BY <1>1, <1>5, <1>6, <1>7 DEF Kept

(* The creation times of two sessions differ, as `now' is read anew for    *)
(* every login, and a session has one before it is inserted.               *)
Timed(s) == Written(s) \/ pc[s] \in {"verified", "checked", "flushed"}

ClockInv ==
    /\ \A s \in Logins : created[s] <= clock
    /\ \A s, t \in Logins : s # t /\ created[s] # 0 => created[s] # created[t]
    /\ \A s \in Logins : Timed(s) => created[s] # 0

LEMMA ClockInvariant == Spec => []ClockInv
<1>1. Init => ClockInv
  BY DEF Init, ClockInv, Timed, Written
<1>2. IInv /\ ClockInv /\ [Next]_vars => ClockInv'
  <2> SUFFICES ASSUME IInv, ClockInv, [Next]_vars PROVE ClockInv'
    OBVIOUS
  <2>0. TypeOK
    BY DEF IInv
  <2>1. ASSUME NEW r \in Requests, Verify(r)
        PROVE  ClockInv'
    <3>1. created'[r] = clock + 1 /\ \A s \in Logins \ {r} : created'[s] = created[s]
      BY <2>0, <2>1 DEF Verify, TypeOK
    <3>2. clock' = clock + 1 /\ clock \in Nat
      BY <2>0, <2>1 DEF Verify, TypeOK
    <3>3. \A s \in Logins : created[s] \in Nat /\ created[s] <= clock
      BY <2>0 DEF TypeOK, ClockInv
    <3>4. \A s \in Logins \ {r} : pc'[s] = pc[s]
      BY <2>0, <2>1 DEF Verify, Goto, TypeOK
    <3> QED
      BY <2>1, <3>1, <3>2, <3>3, <3>4 DEF ClockInv, Timed, Written, Verify
  <2>2. ASSUME UNCHANGED <<created, clock>>,
               \A s \in Logins : Timed(s)' => Timed(s)
        PROVE  ClockInv'
    BY <2>2 DEF ClockInv
  <2>3. ASSUME NEW r \in Requests, NEW place, Goto(r, place),
               \/ place \in {"submitted", "refused", "broken", "crashed"}
               \/ r \notin Logins
               \/ Timed(r)
        PROVE  \A s \in Logins : Timed(s)' => Timed(s)
    BY <2>0, <2>3 DEF Goto, Timed, Written, TypeOK
  <2>4. ASSUME NEW r \in Requests,
               \/ Begin(r) \/ RejectLogin(r) \/ SelectActive(r) \/ Check(r)
               \/ Flush(r) \/ CommitRequest(r) \/ Busy(r) \/ Crash(r) \/ CancelCommit(r)
        PROVE  ClockInv'
    <3>1. \E place : /\ Goto(r, place)
                     /\ \/ place \in {"submitted", "refused", "broken", "crashed"}
                        \/ r \notin Logins
                        \/ Timed(r)
      BY <2>4 DEF Begin, RejectLogin, SelectActive, Check, Flush, CommitRequest, Busy, Crash,
                  CancelCommit, Timed
    <3>2. UNCHANGED <<created, clock>>
      BY <2>4 DEF Begin, RejectLogin, SelectActive, Check, Flush, CommitRequest, Busy, Crash,
                  CancelCommit, Timed
    <3> QED
      BY <2>2, <2>3, <3>1, <3>2
  <2>5. ASSUME NEW s \in Logins, Expire(s)
        PROVE  ClockInv'
    BY <2>5 DEF Expire, ClockInv, Timed, Written
  <2>6. CASE UNCHANGED vars
    BY <2>6 DEF vars, ClockInv, Timed, Written
  <2> QED
    BY <2>1, <2>4, <2>5, <2>6 DEF Next, Step
<1> QED
  BY <1>1, <1>2, InvariantHolds, PTL DEF Spec

(* prune_user_sessions keeps the cap for every login that saw all active   *)
(* sessions of its user, whatever the excess before it.                    *)
THEOREM CapIsRestored == Spec => CapRestored
<1>1. ASSUME IInv, ClockInv, [Next]_vars, NEW r \in Logins,
             pc[r] = "flushed", Written(r)', ActiveOf(db, Owner[r]) \subseteq active[r]
      PROVE  Cardinality(ActiveOf(db', Owner[r])) <= MaxActive
  <2> DEFINE Kept == active[r] \ Beyond(active[r], MaxActive - 1)
  <2>0. r \in Requests
    OBVIOUS
  <2>1. Commits(r)
    <3>1. ASSUME NEW q \in Requests, q # r,
                 Begin(q) \/ Step(q) \/ Crash(q) \/ CancelCommit(q)
          PROVE  FALSE
      BY <1>1, <3>1 DEF Begin, Step, Verify, RejectLogin, SelectActive, Check, Flush,
                        CommitRequest, Busy, Crash, CancelCommit, Goto, Written, IInv, TypeOK
    <3>2. ~UNCHANGED pc
      BY <1>1 DEF Written
    <3>3. ~Begin(r) /\ ~Crash(r)
      BY <1>1 DEF Begin, Crash, Goto, Written, IInv, TypeOK
    <3>4. Step(r) \/ CancelCommit(r)
      BY <1>1, <2>0, <3>1, <3>2, <3>3 DEF Next, Expire, vars
    <3> QED
      BY <1>1, <3>4 DEF Commits, Step, Verify, RejectLogin, SelectActive, Check, Flush, Busy
  <2>2. ActiveOf(db', Owner[r]) \subseteq Kept \cup {r}
    <3>1. ASSUME NEW s \in ActiveOf(db', Owner[r]), s # r
          PROVE  s \in Kept
      <4>1. s \in Logins /\ Owner[s] = Owner[r] /\ s \notin expired
            /\ Exists(db, s)' /\ db'.sessions[s].revoked = NoRequest
        BY <3>1 DEF ActiveOf, IsActive, Exists
      <4>2. Exists(db, s) /\ s \notin Closing(r) /\ db.sessions[s].revoked = NoRequest
        <5>1. /\ Exists(db, s)' <=> Exists(db, s)
              /\ Exists(db, s) => db'.sessions[s].revoked = IF s \in Closing(r)
                                                            THEN r ELSE db.sessions[s].revoked
          BY <1>1, <2>0, <2>1, <3>1, <4>1, CommitChanges
        <5> QED
          BY <2>0, <4>1, <5>1
      <4>3. s \in active[r]
        BY <1>1, <4>1, <4>2 DEF ActiveOf, IsActive
      <4> QED
        BY <4>2, <4>3 DEF Closing
    <3> QED
      BY <3>1
  <2>3. \A s, t \in active[r] : s # t => created[s] # created[t]
    BY <1>1 DEF Written, IInv, ActiveInv, SessionInv, ClockInv, Timed, Exists
  <2>4. active[r] \in SUBSET Logins /\ created \in [Logins -> Nat]
    BY <1>1 DEF IInv, TypeOK
  <2>5. Cardinality(Kept) <= MaxActive - 1 /\ IsFiniteSet(Kept)
    <3>0. MaxActive - 1 \in Nat
      OBVIOUS
    <3>1. Cardinality(Kept) <= MaxActive - 1 /\ IsFiniteSet(active[r])
      BY <2>3, <2>4, <3>0, KeptAtMost
    <3> QED
      BY <3>1, FS_Subset
  <2>6. /\ IsFiniteSet(Kept \cup {r}) /\ Cardinality(Kept) \in Nat
        /\ Cardinality(Kept \cup {r}) <= Cardinality(Kept) + 1
    <3> HIDE DEF Kept
    <3>1. IsFiniteSet(Kept) /\ Cardinality(Kept) \in Nat
      BY <2>5, FS_CardinalityType
    <3>2. /\ IsFiniteSet(Kept \cup {r})
          /\ Cardinality(Kept \cup {r}) =
                IF r \in Kept THEN Cardinality(Kept) ELSE Cardinality(Kept) + 1
      BY <3>1, FS_AddElement
    <3> QED
      BY <3>1, <3>2
  <2>7. Cardinality(ActiveOf(db', Owner[r])) <= Cardinality(Kept \cup {r})
    BY <2>2, <2>6, FS_Subset
  <2>8. /\ Cardinality(ActiveOf(db', Owner[r])) \in Nat
        /\ Cardinality(Kept \cup {r}) \in Nat
    BY <2>2, <2>6, FS_Subset, FS_CardinalityType
  <2> QED
    BY <2>5, <2>6, <2>7, <2>8
<1>2. IInv /\ ClockInv /\ [Next]_vars =>
        [\A r \in Logins :
            pc[r] = "flushed" /\ Written(r)' /\ ActiveOf(db, Owner[r]) \subseteq active[r]
                => Cardinality(ActiveOf(db', Owner[r])) <= MaxActive]_vars
  BY <1>1
<1> QED
  BY <1>2, ClockInvariant, InvariantHolds, PTL DEF Spec, CapRestored
=============================================================================
