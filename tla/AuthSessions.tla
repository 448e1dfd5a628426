--------------------------- MODULE AuthSessions ---------------------------
(***************************************************************************)
(* AuthService and AuthRepository (modules/auth): login with its pruning   *)
(* of older sessions, logout, CSRF rotation, the authorisation of an       *)
(* editing command together with the write it protects, and reads that     *)
(* only need a live session.  Each is one HTTP request with a check (a     *)
(* SELECT, no lock) followed by a flush and a commit.                      *)
(*                                                                         *)
(* A session is named by the login that opened it and a CSRF token by the  *)
(* request that issued it, since secrets.token_urlsafe never repeats.      *)
(***************************************************************************)
EXTENDS SqliteUnitOfWork, Naturals, FiniteSets

CONSTANTS
    Logins, Logouts, Rotations, Commands, Reads,    \* requests by endpoint
    Users,
    Owner,          \* per login, the user it names
    Editor,         \* the users whose role lets them edit
    MaxActive,      \* settings.auth_max_active_sessions
    NoSession,      \* a session that does not exist
    Casts           \* bound: the requests of one behaviour are from one cast

ASSUME AuthAssumption ==
    /\ Requests = Logins \cup Logouts \cup Rotations \cup Commands \cup Reads
    /\ Logins \cap (Logouts \cup Rotations \cup Commands \cup Reads) = {}
    /\ Logouts \cap (Rotations \cup Commands \cup Reads) = {}
    /\ Rotations \cap (Commands \cup Reads) = {}
    /\ Commands \cap Reads = {}
    /\ Owner \in [Logins -> Users]
    /\ Editor \subseteq Users
    /\ MaxActive \in Nat \ {0}
    /\ IsFiniteSet(Logins)

ASSUME CastsAssumption == Casts \subseteq SUBSET Requests

Tokens == Logins \cup Rotations
Session == [csrf : Tokens, revoked : Requests \cup {NoRequest}]

ASSUME NoSessionAssumption == NoSession \notin Session

VARIABLES
    pc,         \* where each request is
    target,     \* the session whose cookie the request carries
    token,      \* the CSRF token it carries
    created,    \* created_at of a login's session, 0 before it is known
    clock,      \* the time
    active,     \* the sessions prune_user_sessions found active for a login
    expired     \* the sessions whose expires_at has passed

vars == <<storeVars, pc, target, token, created, clock, active, expired>>

(* "unanswered": cancelled during its COMMIT. *)
Ended == {"done", "refused", "broken", "crashed", "unanswered"}
PC == {"idle", "submitted", "verified", "checked", "flushed"} \cup Ended

Database == [sessions : [Logins -> Session \cup {NoSession}], edits : SUBSET Commands]

Init ==
    /\ StoreInit([sessions |-> [s \in Logins |-> NoSession], edits |-> {}])
    /\ pc = [r \in Requests |-> "idle"]
    /\ target \in [Requests -> {NoRequest}]
    /\ token \in [Requests -> {NoRequest}]
    /\ created = [s \in Logins |-> 0]
    /\ clock = 0
    /\ active = [s \in Logins |-> {}]
    /\ expired = {}

-----------------------------------------------------------------------------
Goto(r, label) == pc' = [pc EXCEPT ![r] = label]

Exists(d, s) == s \in Logins /\ d.sessions[s] # NoSession

(* revoked_at IS NULL AND expires_at > now *)
IsActive(d, s) ==
    /\ Exists(d, s)
    /\ d.sessions[s].revoked = NoRequest
    /\ s \notin expired

ActiveOf(d, u) == {s \in Logins : Owner[s] = u /\ IsActive(d, s)}

(* What follows the first `keep' of a list ordered by created_at DESC. *)
Beyond(sessions, keep) ==
    {s \in sessions : Cardinality({t \in sessions : created[t] > created[s]}) >= keep}

(* A browser presents the cookie of a login it got an answer to, with a    *)
(* token that it was given for that session at some time.                  *)
Begin(r) ==
    /\ pc[r] = "idle"
    /\ \E cast \in Casts : {q \in Requests : pc[q] # "idle"} \cup {r} \subseteq cast
    /\ Goto(r, "submitted")
    /\ IF r \in Logins
       THEN UNCHANGED <<target, token>>
       ELSE \E s \in Logins, t \in Tokens :
              /\ pc[s] = "done" /\ pc[t] = "done"
              /\ t = s \/ (t \in Rotations /\ target[t] = s)
              /\ target' = [target EXCEPT ![r] = s]
              /\ token' = [token EXCEPT ![r] = t]
    /\ UNCHANGED <<storeVars, created, clock, active, expired>>

(* The password was right (LoginGuard, Argon2) and `now' is read. *)
Verify(r) ==
    /\ r \in Logins
    /\ pc[r] = "submitted"
    /\ clock' = clock + 1
    /\ created' = [created EXCEPT ![r] = clock']
    /\ Goto(r, "verified")
    /\ UNCHANGED <<storeVars, target, token, active, expired>>

(* Too many attempts, an unknown user or a wrong password. *)
RejectLogin(r) ==
    /\ r \in Logins
    /\ pc[r] = "submitted"
    /\ Goto(r, "refused")
    /\ UNCHANGED <<storeVars, target, token, created, clock, active, expired>>

(* prune_user_sessions reads the user's active sessions. *)
SelectActive(r) ==
    /\ r \in Logins
    /\ pc[r] = "verified"
    /\ active' = [active EXCEPT ![r] = ActiveOf(View(r), Owner[r])]
    /\ Goto(r, "checked")
    /\ UNCHANGED <<storeVars, target, token, created, clock, expired>>

(* Mutant: the tokens are not compared. *)
AcceptsAnyToken(r) == IsActive(View(r), target[r])

(* get_active_session, compare_digest and the role: GET /csrf and the      *)
(* reads compare no token, only commands look at the role.                 *)
Accepts(r) ==
    /\ IsActive(View(r), target[r])
    /\ r \in Logouts \cup Commands => View(r).sessions[target[r]].csrf = token[r]
    /\ r \in Commands => Owner[target[r]] \in Editor

Check(r) ==
    /\ r \notin Logins
    /\ pc[r] = "submitted"
    /\ Goto(r, IF ~Accepts(r) THEN "refused" ELSE IF r \in Reads THEN "done" ELSE "checked")
    /\ UNCHANGED <<storeVars, target, token, created, clock, active, expired>>

-----------------------------------------------------------------------------
(* Mutant: every column of the session that was read is written back. *)
RotatedWholeRow(d, r) ==
    [d EXCEPT !.sessions[target[r]] = [csrf |-> r, revoked |-> NoRequest]]

Rotated(d, r) == [d EXCEPT !.sessions[target[r]].csrf = r]

Revoked(d, r) == [d EXCEPT !.sessions[target[r]].revoked = r]

(* Mutant: as many older sessions are kept as the cap allows in all. *)
OpenedKeepsOneMore(d, r) ==
    [d EXCEPT !.sessions =
        [s \in Logins |->
            IF s = r THEN [csrf |-> r, revoked |-> NoRequest]
            ELSE IF s \in Beyond(active[r], MaxActive)
                 THEN [d.sessions[s] EXCEPT !.revoked = r]
                 ELSE d.sessions[s]]]

Opened(d, r) ==
    [d EXCEPT !.sessions =
        [s \in Logins |->
            IF s = r THEN [csrf |-> r, revoked |-> NoRequest]
            ELSE IF s \in Beyond(active[r], MaxActive - 1)
                 THEN [d.sessions[s] EXCEPT !.revoked = r]
                 ELSE d.sessions[s]]]

Edited(d, r) == [d EXCEPT !.edits = @ \cup {r}]

(* What the request's flush makes of database d. *)
Effect(d, r) ==
    CASE r \in Logins -> Opened(d, r)
      [] r \in Logouts -> Revoked(d, r)
      [] r \in Rotations -> Rotated(d, r)
      [] OTHER -> Edited(d, r)

(* Mutant: the login's pruning is committed before the new session. *)
FlushPruningCommitted(r) ==
    /\ pc[r] = "checked"
    /\ LockFree(r)
    /\ writer' = r
    /\ tx' = Effect(db, r)
    /\ db' = IF r \in Logins THEN [tx' EXCEPT !.sessions[r] = NoSession] ELSE db
    /\ Goto(r, "flushed")
    /\ UNCHANGED <<session, target, token, created, clock, active, expired>>

Flush(r) ==
    /\ pc[r] = "checked"
    /\ Write(r, Effect(View(r), r))
    /\ Goto(r, "flushed")
    /\ UNCHANGED <<target, token, created, clock, active, expired>>

CommitRequest(r) ==
    /\ pc[r] = "flushed"
    /\ Commit(r)
    /\ Goto(r, "done")
    /\ UNCHANGED <<target, token, created, clock, active, expired>>

(* "database is locked" after busy_timeout; the except clause rolls back.  *)
Busy(r) ==
    /\ pc[r] = "checked"
    /\ LockBusy(r)
    /\ FlushError(r)
    /\ Goto(r, "broken")
    /\ UNCHANGED <<target, token, created, clock, active, expired>>

(* Cancellation or process death at an await. *)
Crash(r) ==
    /\ pc[r] \in PC \ (Ended \cup {"idle"})
    /\ Abandon(r)
    /\ Goto(r, "crashed")
    /\ UNCHANGED <<target, token, created, clock, active, expired>>

(* The same while COMMIT runs in the driver's thread: a login's session is *)
(* there, and so are its prunings, but nobody gets its cookie.             *)
CancelCommit(r) ==
    /\ pc[r] = "flushed"
    /\ Commit(r)
    /\ Goto(r, "unanswered")
    /\ UNCHANGED <<target, token, created, clock, active, expired>>

(* The lifetime of a session is over; older sessions ended before it. *)
Expire(s) ==
    /\ created[s] # 0
    /\ s \notin expired
    /\ \A t \in Logins \ expired : created[t] # 0 => created[t] >= created[s]
    /\ expired' = expired \cup {s}
    /\ UNCHANGED <<storeVars, pc, target, token, created, clock, active>>

-----------------------------------------------------------------------------
Step(r) ==
    \/ Verify(r) \/ RejectLogin(r) \/ SelectActive(r)
    \/ Check(r)
    \/ Flush(r) \/ CommitRequest(r) \/ Busy(r)

Next ==
    \/ \E r \in Requests : Begin(r) \/ Step(r) \/ Crash(r) \/ CancelCommit(r)
    \/ \E s \in Logins : Expire(s)

Spec == Init /\ [][Next]_vars

-----------------------------------------------------------------------------
(* What the request wrote is committed, whether its caller heard of it or  *)
(* not; reads write nothing.                                               *)
Written(r) == pc[r] \in {"done", "unanswered"}

TypeOK ==
    /\ db \in Database /\ tx \in Database
    /\ writer \in Requests \cup {NoRequest}
    /\ session \in [Requests -> SessionState]
    /\ pc \in [Requests -> PC]
    /\ target \in [Requests -> Logins \cup {NoRequest}]
    /\ token \in [Requests -> Tokens \cup {NoRequest}]
    /\ created \in [Logins -> Nat]
    /\ clock \in Nat
    /\ active \in [Logins -> SUBSET Logins]
    /\ expired \subseteq Logins

(* A request that arrives with a session that expired or was revoked, or   *)
(* with a CSRF token that was replaced, is refused however it interleaves  *)
(* with the rotations, logouts and logins still under way: no lost update  *)
(* of the sessions row brings the session or the token back.               *)
Stale(r) ==
    \/ target[r] \in expired
    \/ db.sessions[target[r]].revoked # NoRequest
    \/ r \in Logouts \cup Commands /\ db.sessions[target[r]].csrf # token[r]

StaleCredentialsRefused ==
    [][\A r \in Requests \ Logins :
         pc[r] = "submitted" /\ Stale(r) =>
             /\ pc'[r] \in {"submitted", "refused", "crashed"}
             /\ pc'[r] = "submitted" => Stale(r)']_vars

(* A login that displaces a session leaves a session of its own: nobody is *)
(* logged out by a login that was refused, timed out or was cancelled, but *)
(* for one that was cancelled while its COMMIT ran.                        *)
DisplacedByASession ==
    \A s, r \in Logins :
        Exists(db, s) /\ db.sessions[s].revoked = r => Exists(db, r) /\ Written(r)

(* A login restores the cap on active sessions whatever excess earlier     *)
(* concurrent logins left, as long as no session of the user was opened    *)
(* between its SELECT and its commit.                                      *)
CapRestored ==
    [][\A r \in Logins :
         pc[r] = "flushed" /\ Written(r)' /\ ActiveOf(db, Owner[r]) \subseteq active[r]
             => Cardinality(ActiveOf(db', Owner[r])) <= MaxActive]_vars

(* Sessions are opened and closed as in the registry. *)
Committed(t) == IF t \in Logins THEN Exists(db, t) ELSE Written(t)
SessionOf(t) == IF t \in Logins THEN t ELSE target[t]

StateOf(s) ==
    IF ~Exists(db, s) THEN "absent"
    ELSE IF db.sessions[s].revoked = NoRequest THEN "open" ELSE "closed"

CsrfOf(s) == IF Exists(db, s) THEN db.sessions[s].csrf ELSE NoRequest

Spent == {t \in Tokens : Committed(t) /\ CsrfOf(SessionOf(t)) # t}

Registry == INSTANCE SessionRegistry WITH
    Sessions <- Logins,
    NoToken <- NoRequest,
    state <- [s \in Logins |-> StateOf(s)],
    csrf <- [s \in Logins |-> CsrfOf(s)],
    spent <- Spent

(* Logins, logouts, rotations and the pruning of several requests, cut     *)
(* into SELECT, flush and commit, behave as the registry's single steps.   *)
ImplementsRegistry == Registry!Spec

(* settings.auth_max_active_sessions bounds the active sessions of a user. *)
ActiveSessionsCapped ==
    \A u \in Users : Cardinality(ActiveOf(db, u)) <= MaxActive

-----------------------------------------------------------------------------
(* The inductive invariant behind the safety properties. *)

(* The lock is held from flush to commit, and what is pending is the       *)
(* request's own effect on what is committed.                              *)
WriterInv ==
    /\ NothingPendingWithoutWriter
    /\ \A r \in Requests : pc[r] = "flushed" <=> writer = r
    /\ \A r \in Requests : writer = r => tx = Effect(db, r)

(* A session exists once its login is committed; its token was issued for  *)
(* it.                                                                     *)
SessionInv ==
    /\ \A s \in Logins : Exists(db, s) <=> Written(s)
    /\ \A s \in Logins : Exists(db, s) =>
          LET t == db.sessions[s].csrf IN Committed(t) /\ SessionOf(t) = s

(* What a request presents was given out before it began. *)
CredentialInv ==
    \A r \in Requests \ Logins : pc[r] # "idle" =>
        /\ target[r] \in Logins /\ Exists(db, target[r])
        /\ token[r] \in Tokens /\ Committed(token[r])
        /\ SessionOf(token[r]) = target[r]
        /\ r \in Reads => pc[r] \notin {"checked", "flushed"}

(* What a login found active it may displace, whenever its flush comes.    *)
ActiveInv ==
    \A r \in Logins : \A s \in active[r] :
        Exists(db, s) /\ Owner[s] = Owner[r]

IInv == TypeOK /\ WriterInv /\ SessionInv /\ CredentialInv /\ ActiveInv /\ DisplacedByASession
=============================================================================
