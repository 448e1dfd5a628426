---------------------------- MODULE LoginGuard ----------------------------
(***************************************************************************)
(* LoginGuard (modules/auth/service.py): a sliding window of attempts per  *)
(* login and per client in a table of bounded size, and a semaphore around *)
(* the password checks, which run in threads.                              *)
(*                                                                         *)
(* _consume_attempt awaits nothing while it holds its asyncio.Lock, so it  *)
(* is one action.  The clock is a counter that may stop at MaxTime.        *)
(***************************************************************************)
EXTENDS Integers, Sequences, FiniteSets

CONSTANTS
    Requests,       \* login requests
    Logins,         \* the keys "login:..."
    Clients,        \* the keys "client:..."
    Login,          \* per request
    Client,         \* per request, its address or NoClient
    NoClient,
    MaxAttempts,    \* auth_login_max_attempts
    Window,         \* auth_login_window_seconds
    MaxTracked,     \* _max_tracked_keys
    Concurrency,    \* auth_login_max_concurrency
    MaxTime         \* bound of the clock

Keys == Logins \cup Clients

ASSUME GuardAssumption ==
    /\ IsFiniteSet(Requests)
    /\ Logins \cap Clients = {}
    /\ Login \in [Requests -> Logins]
    /\ Client \in [Requests -> Clients \cup {NoClient}]
    /\ NoClient \notin Keys
    /\ MaxAttempts \in Nat \ {0}
    /\ Window \in Nat \ {0}
    /\ MaxTracked \in Nat \ {0}
    /\ Concurrency \in Nat \ {0}
    /\ MaxTime \in Nat

VARIABLES
    now,        \* monotonic()
    order,      \* the keys of _attempts, in insertion order
    attempts,   \* per key, its deque of times; empty if the key is not there
    queue,      \* who waits for a password slot, in order
    pc,         \* where each request is
    at,         \* when the request asked
    evicted     \* history: the keys that were evicted at some time

vars == <<now, order, attempts, queue, pc, at, evicted>>

Ended == {"refused", "broken", "answered"}

PC == {"idle", "queued", "verifying"} \cup Ended

KeysOf(r) == {Login[r], Client[r]} \ {NoClient}

Init ==
    /\ now = 0
    /\ order = <<>>
    /\ attempts = [k \in Keys |-> <<>>]
    /\ queue = <<>>
    /\ pc = [r \in Requests |-> "idle"]
    /\ at = [r \in Requests |-> 0]
    /\ evicted = {}

-----------------------------------------------------------------------------
(* The table after one turn of the first loop of _consume_attempt.         *)
Table == [order |-> order, attempts |-> attempts]

Tracked(t) == {t.order[i] : i \in DOMAIN t.order}

(* Mutant: the table may grow one key over its size. *)
EvictedLate(t, k) ==
    IF k \notin Tracked(t) /\ Len(t.order) > MaxTracked
    THEN [order |-> Tail(t.order), attempts |-> [t.attempts EXCEPT ![Head(t.order)] = <<>>]]
    ELSE t

(* self._attempts.pop(next(iter(self._attempts))) *)
Evicted(t, k) ==
    IF k \notin Tracked(t) /\ Len(t.order) >= MaxTracked
    THEN [order |-> Tail(t.order), attempts |-> [t.attempts EXCEPT ![Head(t.order)] = <<>>]]
    ELSE t

Added(t, k) ==
    IF k \in Tracked(t) THEN t ELSE [t EXCEPT !.order = Append(@, k)]

(* Mutant: attempts never leave the window. *)
RecentAll(times) == times

(* popleft while the head is not after the cutoff *)
Recent(times) ==
    LET gone == {i \in DOMAIN times : \A j \in 1..i : times[j] <= now - Window}
    IN  SubSeq(times, Cardinality(gone) + 1, Len(times))

Touched(t, k) ==
    LET added == Added(Evicted(t, k), k)
    IN  [added EXCEPT !.attempts[k] = Recent(@)]

Full(t, k) == Len(t.attempts[k]) >= MaxAttempts

AfterLogin(r) == Touched(Table, Login[r])

LoginFull(r) == Full(AfterLogin(r), Login[r])

(* The loop's second turn, for the client if there is one.                 *)
AfterKeys(r) ==
    IF LoginFull(r) \/ Client[r] = NoClient THEN AfterLogin(r)
    ELSE Touched(AfterLogin(r), Client[r])

AnyFull(r) ==
    LoginFull(r) \/ (Client[r] # NoClient /\ Full(AfterKeys(r), Client[r]))

(* The keys _consume_attempt evicts: one per turn of its loop at most.     *)
EvictedFor(r) ==
    (Tracked(Table) \ Tracked(Evicted(Table, Login[r])))
        \cup IF LoginFull(r) \/ Client[r] = NoClient THEN {}
             ELSE Tracked(AfterLogin(r)) \ Tracked(Evicted(AfterLogin(r), Client[r]))

(* Mutant: only the login is charged. *)
ChargedLogin(r, times) ==
    [k \in Keys |-> IF k = Login[r] THEN Append(times[k], now) ELSE times[k]]

(* Mutant: the cutoff is appended instead of the time. *)
ChargedCutoff(r, times) ==
    [k \in Keys |-> IF k \in KeysOf(r) THEN Append(times[k], now - Window) ELSE times[k]]

Charged(r, times) ==
    [k \in Keys |-> IF k \in KeysOf(r) THEN Append(times[k], now) ELSE times[k]]

Leave(r, label) ==
    /\ pc' = [pc EXCEPT ![r] = label]
    /\ at' = [at EXCEPT ![r] = now]
    /\ evicted' = evicted \cup EvictedFor(r)
    /\ UNCHANGED now

(* LoginRateLimitError, after the table was touched. *)
Refuse(r) ==
    /\ pc[r] = "idle"
    /\ AnyFull(r)
    /\ order' = AfterKeys(r).order
    /\ attempts' = AfterKeys(r).attempts
    /\ Leave(r, "refused")
    /\ UNCHANGED queue

Admit(r) ==
    /\ pc[r] = "idle"
    /\ ~AnyFull(r)
    /\ Login[r] \in Tracked(AfterKeys(r))
    /\ order' = AfterKeys(r).order
    /\ attempts' = Charged(r, AfterKeys(r).attempts)
    /\ queue' = Append(queue, r)
    /\ Leave(r, "queued")

(* Adding the client evicted the login: self._attempts[key] is a KeyError. *)
LoseLogin(r) ==
    /\ pc[r] = "idle"
    /\ ~AnyFull(r)
    /\ Login[r] \notin Tracked(AfterKeys(r))
    /\ order' = AfterKeys(r).order
    /\ attempts' = AfterKeys(r).attempts
    /\ Leave(r, "broken")
    /\ UNCHANGED queue

-----------------------------------------------------------------------------
Verifying == {r \in Requests : pc[r] = "verifying"}

(* async with self._password_slots, first come first served. *)
Acquire(r) ==
    /\ queue # <<>>
    /\ Head(queue) = r
    /\ Cardinality(Verifying) < Concurrency
    /\ queue' = Tail(queue)
    /\ pc' = [pc EXCEPT ![r] = "verifying"]
    /\ UNCHANGED <<now, order, attempts, at, evicted>>

(* Mutant: the request keeps its slot. *)
FinishHolding(r) ==
    /\ pc[r] = "verifying"
    /\ UNCHANGED vars

(* The thread returned whether the password is right. *)
Finish(r) ==
    /\ pc[r] = "verifying"
    /\ pc' = [pc EXCEPT ![r] = "answered"]
    /\ UNCHANGED <<now, order, attempts, queue, at, evicted>>

Tick ==
    /\ now < MaxTime
    /\ now' = now + 1
    /\ UNCHANGED <<order, attempts, queue, pc, at, evicted>>

Step(r) == Acquire(r) \/ Finish(r)

Next ==
    \/ \E r \in Requests : Refuse(r) \/ Admit(r) \/ LoseLogin(r) \/ Step(r)
    \/ Tick

Spec == Init /\ [][Next]_vars

(* Threads return and the loop resumes who waits for them; nobody has to   *)
(* log in and the clock may stop.                                          *)
FairSpec == Spec /\ \A r \in Requests : WF_vars(Step(r))

-----------------------------------------------------------------------------
TypeOK ==
    /\ now \in 0..MaxTime
    /\ order \in Seq(Keys)
    /\ attempts \in [Keys -> Seq(0..MaxTime)]
    /\ queue \in Seq(Requests)
    /\ pc \in [Requests -> PC]
    /\ at \in [Requests -> 0..MaxTime]
    /\ evicted \subseteq Keys

Admitted(r) == pc[r] \in {"queued", "verifying", "answered"}

(* The admissions of a key after some moment; in the window that ends now. *)
Since(k, cutoff) == {r \in Requests : Admitted(r) /\ k \in KeysOf(r) /\ at[r] > cutoff}

InWindow(k) == Since(k, now - Window)

(* "the built-in limiter bounds the frequency": no login and no client is  *)
(* admitted more than MaxAttempts times within any window, except a key    *)
(* that the bounded table evicted before.                                  *)
FrequencyBounded ==
    \A k \in Keys \ evicted : Cardinality(InWindow(k)) <= MaxAttempts

(* Nobody is refused early: a refusal means that the login or the client   *)
(* has used up the window, whatever was evicted, refused or pruned before. *)
RefusedOnlyWhenFull ==
    [][\A r \in Requests :
          pc[r] = "idle" /\ pc'[r] = "refused"
              => \E k \in KeysOf(r) : Cardinality(InWindow(k)) >= MaxAttempts]_vars

(* The table stays within its size and knows each key once, and no attempt *)
(* is kept for a key that was evicted.                                     *)
TableBounded ==
    /\ Len(order) <= MaxTracked
    /\ \A i, j \in DOMAIN order : i # j => order[i] # order[j]
    /\ \A k \in Keys : attempts[k] # <<>> => k \in Tracked(Table)

(* "and the parallelism" of the password checks: whoever is admitted gets  *)
(* a slot and an answer, although there are fewer slots than requests.     *)
EveryAdmittedAnswered ==
    \A r \in Requests : pc[r] = "queued" ~> pc[r] = "answered"
-----------------------------------------------------------------------------
(* How the table counts the admissions. *)
Kept(times, cutoff) == {i \in DOMAIN times : times[i] > cutoff}

(* Deques are in order of time and no longer than the limit. *)
TimesInv ==
    /\ \A r \in Requests : at[r] <= now
    /\ \A k \in Keys :
         /\ Len(attempts[k]) <= MaxAttempts
         /\ \A i \in DOMAIN attempts[k] :
              /\ attempts[k][i] <= now
              /\ \A j \in 1..i : attempts[k][j] <= attempts[k][i]

(* From the start of the window on, a deque has at most the admissions of  *)
(* its key, and all of them unless it was evicted.                         *)
CountInv ==
    \A k \in Keys : \A cutoff \in (now - Window)..(now - 1) :
        LET kept == Cardinality(Kept(attempts[k], cutoff))
            admitted == Cardinality(Since(k, cutoff))
        IN  kept <= admitted /\ (k \notin evicted => admitted <= kept)

(* Who waits for a slot waits once. *)
QueueInv ==
    /\ \A i \in DOMAIN queue : pc[queue[i]] = "queued"
    /\ \A i, j \in DOMAIN queue : i # j => queue[i] # queue[j]

IInv == TypeOK /\ TableBounded /\ TimesInv /\ CountInv /\ QueueInv
=============================================================================
