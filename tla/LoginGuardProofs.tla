------------------------- MODULE LoginGuardProofs -------------------------
(* Theorems about LoginGuard for any requests, logins, addresses and       *)
(* limits.                                                                 *)
EXTENDS LoginGuard, FiniteSetTheorems, FunctionTheorems, SequenceTheorems, TLAPS

USE GuardAssumption

Times == Seq(0..MaxTime)

Cutoffs == (now - Window)..(now - 1)

(* In order of time, up to now. *)
InOrder(times) ==
    \A i \in DOMAIN times : times[i] <= now /\ \A j \in 1..i : times[j] <= times[i]

-----------------------------------------------------------------------------
(* Deques. *)

LEMMA LengthInterval ==
    ASSUME NEW n \in Nat
    PROVE  IsFiniteSet(1..n) /\ Cardinality(1..n) = n
<1>1. IsFiniteSet(1..n) /\ Cardinality(1..n) = IF 1 > n THEN 0 ELSE n - 1 + 1
  BY FS_Interval
<1> QED
  BY <1>1

LEMMA KeptFinite ==
    ASSUME NEW times \in Times, NEW cutoff \in Int
    PROVE  /\ IsFiniteSet(Kept(times, cutoff))
           /\ Cardinality(Kept(times, cutoff)) \in Nat
           /\ Cardinality(Kept(times, cutoff)) <= Len(times)
<1>1. Kept(times, cutoff) \subseteq 1..Len(times)
  BY DEF Kept, Times
<1>2. IsFiniteSet(1..Len(times)) /\ Cardinality(1..Len(times)) = Len(times)
  BY LengthInterval DEF Times
<1> QED
  BY <1>1, <1>2, FS_Subset, FS_CardinalityType

(* What popleft takes away is a prefix of the deque. *)
Gone(times) == {i \in DOMAIN times : \A j \in 1..i : times[j] <= now - Window}

LEMMA GonePrefix ==
    ASSUME now \in Nat, NEW times \in Times
    PROVE  \E n \in 0..Len(times) : Gone(times) = 1..n /\ Cardinality(Gone(times)) = n
<1> DEFINE Left == (1..Len(times)) \ Gone(times)
<1>1. Len(times) \in Nat /\ DOMAIN times = 1..Len(times) /\ \A i \in 1..Len(times) : times[i] \in Int
  BY DEF Times
<1>2. \A n \in 0..Len(times) : Gone(times) = 1..n => Cardinality(Gone(times)) = n
  BY <1>1, LengthInterval
<1>3. CASE Left = {}
  <2>1. Gone(times) = 1..Len(times)
    BY <1>1, <1>3 DEF Gone
  <2>2. Len(times) \in 0..Len(times)
    BY <1>1
  <2> QED
    BY <1>2, <2>1, <2>2
<1>4. CASE Left # {}
  <2>1. PICK n \in Left : \A i \in Left : ~(i < n)
    <3>1. Left \subseteq Nat
      BY <1>1
    <3>2. PICK n \in Left : \A i \in Left : <<i, n>> \notin OpToRel(<, Nat)
      <4> HIDE DEF Left
      <4> QED
        BY <1>4, <3>1, NatLessThanWellFounded, WFMin
    <3> QED
      BY <3>1, <3>2 DEF OpToRel
  <2>2. PICK b \in 1..n : ~(times[b] <= now - Window)
    BY <1>1, <2>1 DEF Gone
  <2>3. Gone(times) = 1..(n - 1)
    <3>1. ASSUME NEW i \in Gone(times) PROVE i \in 1..(n - 1)
      BY <1>1, <2>1, <2>2, <3>1 DEF Gone
    <3>2. ASSUME NEW i \in 1..(n - 1) PROVE i \in Gone(times)
      BY <1>1, <2>1, <3>2
    <3> QED
      BY <3>1, <3>2
  <2> QED
    BY <1>1, <1>2, <2>1, <2>3
<1> QED
  BY <1>3, <1>4

(* Recent keeps the order, everything in the window and nothing else.      *)
LEMMA RecentFacts ==
    ASSUME now \in 0..MaxTime, NEW times \in Times, InOrder(times)
    PROVE  /\ Recent(times) \in Times /\ InOrder(Recent(times))
           /\ Len(Recent(times)) <= Len(times)
           /\ \A i \in DOMAIN Recent(times) : Recent(times)[i] > now - Window
           /\ \A cutoff \in Cutoffs :
                Cardinality(Kept(Recent(times), cutoff)) = Cardinality(Kept(times, cutoff))
<1> DEFINE rec == Recent(times)
<1>1. PICK n \in 0..Len(times) : Gone(times) = 1..n /\ Cardinality(Gone(times)) = n
  BY GonePrefix
<1>2. Len(times) \in Nat /\ DOMAIN times = 1..Len(times)
      /\ \A i \in 1..Len(times) : times[i] \in 0..MaxTime
  BY DEF Times
<1>3. rec = SubSeq(times, n + 1, Len(times))
  BY <1>1 DEF Recent, Gone
<1>4. /\ rec \in Times /\ Len(rec) = Len(times) - n /\ DOMAIN rec = 1..(Len(times) - n)
      /\ \A i \in 1..(Len(times) - n) : rec[i] = times[i + n]
  <2>1. \A i \in (n + 1)..Len(times) : times[i] \in 0..MaxTime
    BY <1>2
  <2> HIDE DEF rec
  <2>2. /\ rec \in Seq(0..MaxTime) /\ Len(rec) = Len(times) - n
        /\ \A i \in 1..(Len(times) - n) : rec[i] = times[n + 1 + i - 1]
    <3>1. n + 1 \in Int /\ Len(times) \in Int
      BY <1>2
    <3>2. /\ rec \in Seq(0..MaxTime)
          /\ Len(rec) = IF n + 1 <= Len(times) THEN Len(times) - (n + 1) + 1 ELSE 0
          /\ \A i \in 1..(Len(times) - (n + 1) + 1) : rec[i] = times[n + 1 + i - 1]
      BY <1>3, <2>1, <3>1, SubSeqProperties
    <3>3. \A l \in Nat : \A k \in 0..l :
            /\ (IF k + 1 <= l THEN l - (k + 1) + 1 ELSE 0) = l - k
            /\ l - (k + 1) + 1 = l - k
      OBVIOUS
    <3>4. Len(times) \in Nat /\ n \in 0..Len(times)
      BY <1>1, <1>2
    <3> QED
      BY <3>2, <3>3, <3>4
  <2> QED
    BY <1>2, <2>2 DEF Times
<1> HIDE DEF rec
<1>5. InOrder(rec)
  <2> SUFFICES ASSUME NEW i \in DOMAIN rec, NEW j \in 1..i
               PROVE  rec[i] <= now /\ rec[j] <= rec[i]
    BY <1>4 DEF InOrder
  <2>1. i \in 1..(Len(times) - n) /\ j \in 1..(Len(times) - n)
        /\ i + n \in DOMAIN times /\ j + n \in 1..(i + n)
    BY <1>2, <1>4
  <2>2. rec[i] = times[i + n] /\ rec[j] = times[j + n]
    BY <1>4, <2>1
  <2> QED
    BY <2>1, <2>2 DEF InOrder
<1>6. ASSUME NEW i \in DOMAIN rec PROVE rec[i] > now - Window
  <2>1. n + 1 \in DOMAIN times /\ n + 1 \notin Gone(times) /\ n + 1 <= i + n
        /\ i + n \in DOMAIN times
    BY <1>1, <1>2, <1>4
  <2>2. PICK j \in 1..(n + 1) : ~(times[j] <= now - Window)
    BY <2>1 DEF Gone
  <2>3. times[j] <= times[i + n]
    BY <2>1, <2>2, <1>2 DEF InOrder
  <2> QED
    BY <2>1, <2>2, <2>3, <1>2, <1>4
<1>7. ASSUME NEW cutoff \in Cutoffs
      PROVE  Cardinality(Kept(rec, cutoff)) = Cardinality(Kept(times, cutoff))
  <2> DEFINE f == [i \in Kept(rec, cutoff) |-> i + n]
  <2>1. cutoff \in Int /\ now - Window <= cutoff
    BY DEF Cutoffs
  <2>2. Kept(rec, cutoff) \subseteq 1..(Len(times) - n)
    BY <1>4 DEF Kept
  <2>3. f \in [Kept(rec, cutoff) -> Kept(times, cutoff)]
    BY <1>2, <1>4, <2>2 DEF Kept
  <2>4. \A a, b \in Kept(rec, cutoff) : f[a] = f[b] => a = b
    BY <2>2
  <2>5. ASSUME NEW k \in Kept(times, cutoff)
        PROVE  \E i \in Kept(rec, cutoff) : f[i] = k
    <3>1. k \in 1..Len(times) /\ times[k] > cutoff
      BY <1>2 DEF Kept
    <3>2. k \notin Gone(times)
      BY <3>1, <2>1, <1>2 DEF Gone
    <3>3. k - n \in 1..(Len(times) - n) /\ (k - n) + n = k
      BY <1>1, <1>2, <3>1, <3>2
    <3>4. k - n \in Kept(rec, cutoff)
      BY <1>4, <3>1, <3>3 DEF Kept
    <3> QED
      BY <3>3, <3>4
  <2>6. f \in Bijection(Kept(rec, cutoff), Kept(times, cutoff))
    <3> HIDE DEF f
    <3> QED
      BY <2>3, <2>4, <2>5, Fun_IsBij
  <2>7. IsFiniteSet(Kept(rec, cutoff))
    BY <1>4, <2>1, KeptFinite
  <2> HIDE DEF f
  <2> QED
    BY <2>6, <2>7, FS_Bijection DEF ExistsBijection
<1> QED
  BY <1>2, <1>1, <1>4, <1>5, <1>6, <1>7 DEF rec

(* A deque that is full has that many attempts in the window. *)
LEMMA FullDeque ==
    ASSUME now \in 0..MaxTime, NEW times \in Times,
           \A i \in DOMAIN times : times[i] > now - Window
    PROVE  Cardinality(Kept(times, now - Window)) = Len(times)
<1>1. Kept(times, now - Window) = 1..Len(times)
  BY DEF Kept, Times
<1> QED
  BY <1>1, LengthInterval DEF Times

(* One more attempt counts from now on. *)
LEMMA AppendFacts ==
    ASSUME now \in 0..MaxTime, NEW times \in Times, InOrder(times)
    PROVE  /\ Append(times, now) \in Times /\ InOrder(Append(times, now))
           /\ Len(Append(times, now)) = Len(times) + 1
           /\ \A cutoff \in Cutoffs :
                Cardinality(Kept(Append(times, now), cutoff))
                    = Cardinality(Kept(times, cutoff)) + 1
<1> DEFINE more == Append(times, now)
<1>1. Len(times) \in Nat /\ DOMAIN times = 1..Len(times)
      /\ \A i \in 1..Len(times) : times[i] \in 0..MaxTime
  BY DEF Times
<1>2. /\ more \in Times /\ Len(more) = Len(times) + 1
      /\ DOMAIN more = 1..(Len(times) + 1)
      /\ \A i \in 1..Len(times) : more[i] = times[i]
      /\ more[Len(times) + 1] = now
  BY <1>1, AppendProperties DEF Times
<1> HIDE DEF more
<1>3. InOrder(more)
  BY <1>1, <1>2 DEF InOrder
<1>4. ASSUME NEW cutoff \in Cutoffs
      PROVE  Cardinality(Kept(more, cutoff)) = Cardinality(Kept(times, cutoff)) + 1
  <2>1. cutoff \in Int /\ now > cutoff
    BY DEF Cutoffs
  <2>2. Kept(more, cutoff) = Kept(times, cutoff) \cup {Len(times) + 1}
    BY <1>1, <1>2, <2>1 DEF Kept
  <2>3. Len(times) + 1 \notin Kept(times, cutoff)
    BY <1>1 DEF Kept
  <2> QED
    BY <2>1, <2>2, <2>3, KeptFinite, FS_AddElement
<1> QED
  BY <1>2, <1>3, <1>4 DEF more
-----------------------------------------------------------------------------
(* Tables: what is said of the table between two turns of the loop, when   *)
(* the keys in `lost' were evicted.                                        *)
Good(t) ==
    /\ t \in [order : Seq(Keys), attempts : [Keys -> Times]]
    /\ Len(t.order) <= MaxTracked
    /\ \A i, j \in DOMAIN t.order : i # j => t.order[i] # t.order[j]
    /\ \A k \in Keys : /\ t.attempts[k] # <<>> => k \in Tracked(t)
                       /\ Len(t.attempts[k]) <= MaxAttempts
                       /\ InOrder(t.attempts[k])

Counts(t, lost) ==
    \A k \in Keys : \A cutoff \in Cutoffs :
        LET kept == Cardinality(Kept(t.attempts[k], cutoff))
            admitted == Cardinality(Since(k, cutoff))
        IN  kept <= admitted /\ (k \notin lost => admitted <= kept)

LEMMA SinceFinite ==
    ASSUME NEW k, NEW cutoff
    PROVE  IsFiniteSet(Since(k, cutoff)) /\ Cardinality(Since(k, cutoff)) \in Nat
<1>1. Since(k, cutoff) \subseteq Requests
  BY DEF Since
<1> QED
  BY <1>1, FS_Subset, FS_CardinalityType

(* Evicting makes room and forgets one key. *)
LEMMA EvictedFacts ==
    ASSUME now \in 0..MaxTime, NEW t, Good(t), NEW lost, Counts(t, lost), NEW k \in Keys
    PROVE  /\ Good(Evicted(t, k))
           /\ k \in Tracked(Evicted(t, k)) \/ Len(Evicted(t, k).order) < MaxTracked
           /\ Counts(Evicted(t, k), lost \cup (Tracked(t) \ Tracked(Evicted(t, k))))
<1>1. CASE ~(k \notin Tracked(t) /\ Len(t.order) >= MaxTracked)
  <2>1. Evicted(t, k) = t
    BY <1>1 DEF Evicted
  <2>2. Len(t.order) \in Nat
    BY DEF Good
  <2>3. Counts(t, lost \cup (Tracked(t) \ Tracked(t)))
    BY DEF Counts
  <2> QED
    BY <1>1, <2>1, <2>2, <2>3
<1>2. CASE k \notin Tracked(t) /\ Len(t.order) >= MaxTracked
  <2> DEFINE u == Evicted(t, k)
             head == Head(t.order)
  <2>1. u = [order |-> Tail(t.order), attempts |-> [t.attempts EXCEPT ![head] = <<>>]]
    BY <1>2 DEF Evicted
  <2>2. /\ t.order \in Seq(Keys) /\ Len(t.order) \in Nat /\ Len(t.order) >= 1
        /\ DOMAIN t.order = 1..Len(t.order) /\ t.order # <<>>
        /\ t.attempts \in [Keys -> Times]
    BY <1>2 DEF Good
  <2>3. /\ head = t.order[1] /\ head \in Keys
        /\ Tail(t.order) \in Seq(Keys) /\ Len(Tail(t.order)) = Len(t.order) - 1
        /\ DOMAIN Tail(t.order) = 1..(Len(t.order) - 1)
        /\ \A i \in 1..(Len(t.order) - 1) : Tail(t.order)[i] = t.order[i + 1]
    BY <2>2, HeadTailProperties
  <2>4. u.order = Tail(t.order) /\ u.attempts = [t.attempts EXCEPT ![head] = <<>>]
    BY <2>1
  <2> HIDE DEF u, head
  <2>5. Tracked(u) = Tracked(t) \ {head} /\ head \in Tracked(t)
    <3>1. ASSUME NEW x \in Tracked(u) PROVE x \in Tracked(t) /\ x # head
      <4>1. PICK i \in 1..(Len(t.order) - 1) : x = t.order[i + 1]
        BY <2>3, <2>4 DEF Tracked
      <4>2. i + 1 \in DOMAIN t.order /\ 1 \in DOMAIN t.order /\ i + 1 # 1
        BY <2>2
      <4> QED
        BY <4>1, <4>2, <2>3 DEF Tracked, Good
    <3>2. ASSUME NEW x \in Tracked(t), x # head PROVE x \in Tracked(u)
      <4>1. PICK i \in 1..Len(t.order) : x = t.order[i]
        BY <2>2 DEF Tracked
      <4>2. i # 1 /\ i - 1 \in 1..(Len(t.order) - 1) /\ (i - 1) + 1 = i
        BY <3>2, <4>1, <2>2, <2>3
      <4>3. Tail(t.order)[i - 1] = x
        BY <4>1, <4>2, <2>3
      <4> QED
        BY <4>2, <4>3, <2>3, <2>4 DEF Tracked
    <3>3. head \in Tracked(t)
      BY <2>2, <2>3 DEF Tracked
    <3> QED
      BY <3>1, <3>2, <3>3
  <2>6. Good(u)
    <3>1. u \in [order : Seq(Keys), attempts : [Keys -> Times]]
      BY <2>1, <2>2, <2>3 DEF Times, u
    <3>2. Len(u.order) <= MaxTracked
      BY <2>2, <2>3, <2>4 DEF Good
    <3>3. \A i, j \in DOMAIN u.order : i # j => u.order[i] # u.order[j]
      <4> SUFFICES ASSUME NEW i \in 1..(Len(t.order) - 1), NEW j \in 1..(Len(t.order) - 1), i # j
                   PROVE  t.order[i + 1] # t.order[j + 1]
        BY <2>3, <2>4
      <4>1. i + 1 \in DOMAIN t.order /\ j + 1 \in DOMAIN t.order /\ i + 1 # j + 1
        BY <2>2
      <4> QED
        BY <4>1 DEF Good
    <3>4. ASSUME NEW x \in Keys
          PROVE  /\ u.attempts[x] # <<>> => x \in Tracked(u)
                 /\ Len(u.attempts[x]) <= MaxAttempts
                 /\ InOrder(u.attempts[x])
      <4>1. CASE x = head
        BY <4>1, <2>2, <2>4 DEF InOrder
      <4>2. CASE x # head
        BY <4>2, <2>2, <2>4, <2>5 DEF Good
      <4> QED
        BY <4>1, <4>2
    <3> QED
      BY <3>1, <3>2, <3>3, <3>4 DEF Good
  <2>7. Len(u.order) < MaxTracked
    BY <2>2, <2>3, <2>4 DEF Good
  <2>8. Counts(u, lost \cup (Tracked(t) \ Tracked(u)))
    <3> SUFFICES ASSUME NEW x \in Keys, NEW cutoff \in Cutoffs
                 PROVE  LET kept == Cardinality(Kept(u.attempts[x], cutoff))
                            admitted == Cardinality(Since(x, cutoff))
                        IN  /\ kept <= admitted
                            /\ x \notin lost \cup (Tracked(t) \ Tracked(u)) => admitted <= kept
      BY DEF Counts
    <3>1. CASE x = head
      <4>1. Kept(u.attempts[x], cutoff) = {}
        BY <3>1, <2>2, <2>4 DEF Kept
      <4>2. x \in Tracked(t) \ Tracked(u)
        BY <3>1, <2>5
      <4> QED
        BY <4>1, <4>2, SinceFinite, FS_EmptySet
    <3>2. CASE x # head
      BY <3>2, <2>2, <2>4 DEF Counts
    <3> QED
      BY <3>1, <3>2
  <2> QED
    BY <2>6, <2>7, <2>8 DEF u
<1> QED
  BY <1>1, <1>2

(* Adding a key that has room keeps everything else. *)
LEMMA AddedFacts ==
    ASSUME NEW t, Good(t), NEW k \in Keys,
           k \in Tracked(t) \/ Len(t.order) < MaxTracked
    PROVE  Good(Added(t, k)) /\ k \in Tracked(Added(t, k)) /\ Added(t, k).attempts = t.attempts
<1>1. CASE k \in Tracked(t)
  BY <1>1 DEF Added
<1>2. CASE k \notin Tracked(t)
  <2> DEFINE u == Added(t, k)
  <2>1. t.order \in Seq(Keys) /\ Len(t.order) \in Nat /\ DOMAIN t.order = 1..Len(t.order)
        /\ t.attempts \in [Keys -> Times]
    BY DEF Good
  <2>2. u = [order |-> Append(t.order, k), attempts |-> t.attempts]
    BY <1>2 DEF Added, Good
  <2>3. /\ u.order \in Seq(Keys) /\ Len(u.order) = Len(t.order) + 1
        /\ DOMAIN u.order = 1..(Len(t.order) + 1)
        /\ \A i \in 1..Len(t.order) : u.order[i] = t.order[i]
        /\ u.order[Len(t.order) + 1] = k
    BY <2>1, <2>2, AppendProperties
  <2>4. u.attempts = t.attempts /\ u \in [order : Seq(Keys), attempts : [Keys -> Times]]
    BY <2>1, <2>2, <2>3
  <2> HIDE DEF u
  <2>5. Tracked(t) \subseteq Tracked(u) /\ k \in Tracked(u)
    <3>1. ASSUME NEW x \in Tracked(t) PROVE x \in Tracked(u)
      <4>1. PICK i \in 1..Len(t.order) : x = t.order[i]
        BY <2>1 DEF Tracked
      <4>2. i \in DOMAIN u.order /\ u.order[i] = x
        BY <4>1, <2>1, <2>3
      <4> QED
        BY <4>2 DEF Tracked
    <3>2. Len(t.order) + 1 \in DOMAIN u.order
      BY <2>1, <2>3
    <3> QED
      BY <3>1, <3>2, <2>3 DEF Tracked
  <2>6. \A i \in 1..Len(t.order) : t.order[i] # k
    BY <1>2, <2>1 DEF Tracked
  <2>7. \A i, j \in DOMAIN u.order : i # j => u.order[i] # u.order[j]
    <3> SUFFICES ASSUME NEW i \in 1..(Len(t.order) + 1), NEW j \in 1..(Len(t.order) + 1), i # j
                 PROVE  u.order[i] # u.order[j]
      BY <2>3
    <3>1. CASE i \in 1..Len(t.order) /\ j \in 1..Len(t.order)
      BY <3>1, <2>1, <2>3 DEF Good
    <3>2. CASE i = Len(t.order) + 1
      <4>1. j \in 1..Len(t.order)
        BY <3>2, <2>1
      <4> QED
        BY <3>2, <4>1, <2>3, <2>6
    <3>3. CASE j = Len(t.order) + 1
      <4>1. i \in 1..Len(t.order)
        BY <3>3, <2>1
      <4> QED
        BY <3>3, <4>1, <2>3, <2>6
    <3> QED
      BY <2>1, <3>1, <3>2, <3>3
  <2>8. Len(u.order) <= MaxTracked
    BY <1>2, <2>1, <2>3
  <2>9. Good(u)
    BY <2>4, <2>5, <2>7, <2>8 DEF Good
  <2> QED
    BY <2>4, <2>5, <2>9 DEF u
<1> QED
  BY <1>1, <1>2

(* One turn of the loop: the key is there, with its recent attempts.       *)
LEMMA TouchedFacts ==
    ASSUME now \in 0..MaxTime, NEW t, Good(t), NEW lost, Counts(t, lost), NEW k \in Keys
    PROVE  /\ Good(Touched(t, k)) /\ k \in Tracked(Touched(t, k))
           /\ Counts(Touched(t, k), lost \cup (Tracked(t) \ Tracked(Evicted(t, k))))
           /\ \A i \in DOMAIN Touched(t, k).attempts[k] :
                 Touched(t, k).attempts[k][i] > now - Window
<1> DEFINE evict == Evicted(t, k)
           added == Added(evict, k)
           gone == lost \cup (Tracked(t) \ Tracked(evict))
           u == Touched(t, k)
<1>1. Good(evict) /\ Counts(evict, gone)
      /\ (k \in Tracked(evict) \/ Len(evict.order) < MaxTracked)
  BY EvictedFacts
<1> HIDE DEF evict
<1>2. Good(added) /\ k \in Tracked(added) /\ added.attempts = evict.attempts
  BY <1>1, AddedFacts
<1>3. u = [added EXCEPT !.attempts[k] = Recent(@)]
  BY DEF Touched, evict
<1> HIDE DEF added, u
<1>4. /\ added \in [order : Seq(Keys), attempts : [Keys -> Times]]
      /\ added.attempts[k] \in Times /\ InOrder(added.attempts[k])
  BY <1>2 DEF Good
<1>5. /\ Recent(added.attempts[k]) \in Times /\ InOrder(Recent(added.attempts[k]))
      /\ Len(Recent(added.attempts[k])) <= Len(added.attempts[k])
      /\ \A i \in DOMAIN Recent(added.attempts[k]) :
            Recent(added.attempts[k])[i] > now - Window
      /\ \A cutoff \in Cutoffs : Cardinality(Kept(Recent(added.attempts[k]), cutoff))
                                    = Cardinality(Kept(added.attempts[k], cutoff))
  BY <1>4, RecentFacts
<1>6. u.order = added.order
      /\ u.attempts = [added.attempts EXCEPT ![k] = Recent(added.attempts[k])]
      /\ u \in [order : Seq(Keys), attempts : [Keys -> Times]]
  BY <1>3, <1>4, <1>5
<1>7. Tracked(u) = Tracked(added)
  BY <1>6 DEF Tracked
<1>8. \A x \in Keys : u.attempts[x] = IF x = k THEN Recent(added.attempts[k]) ELSE added.attempts[x]
  BY <1>4, <1>6
<1>9. Good(u)
  <2>1. ASSUME NEW x \in Keys
        PROVE  /\ u.attempts[x] # <<>> => x \in Tracked(u)
               /\ Len(u.attempts[x]) <= MaxAttempts
               /\ InOrder(u.attempts[x])
    <3>1. CASE x = k
      <4>1. Len(added.attempts[k]) \in Nat /\ Len(added.attempts[k]) <= MaxAttempts
            /\ Len(Recent(added.attempts[k])) \in Nat
        BY <1>2, <1>4, <1>5 DEF Good, Times
      <4> QED
        BY <3>1, <4>1, <1>2, <1>5, <1>7, <1>8
    <3>2. CASE x # k
      BY <3>2, <1>2, <1>7, <1>8 DEF Good
    <3> QED
      BY <3>1, <3>2
  <2> QED
    BY <2>1, <1>2, <1>6 DEF Good
<1>10. Counts(u, gone)
  BY <1>1, <1>2, <1>5, <1>8 DEF Counts
<1> QED
  BY <1>2, <1>5, <1>7, <1>8, <1>9, <1>10 DEF u, evict
-----------------------------------------------------------------------------
(* The invariant is that of a table, between the steps.                    *)
LEMMA TableOfState ==
    IInv => /\ TypeOK /\ QueueInv /\ (\A r \in Requests : at[r] <= now)
            /\ Good(Table) /\ Counts(Table, evicted)
BY DEF IInv, TypeOK, TableBounded, TimesInv, CountInv, Good, Counts, Table, Tracked, InOrder,
       Times, Cutoffs

LEMMA StateOfTable ==
    /\ TypeOK /\ QueueInv /\ (\A r \in Requests : at[r] <= now)
    /\ Good(Table) /\ Counts(Table, evicted)
    => IInv
<1> SUFFICES ASSUME TypeOK, QueueInv, \A r \in Requests : at[r] <= now,
                    Good(Table), Counts(Table, evicted)
             PROVE  IInv
  OBVIOUS
<1>1. Table.order = order /\ Table.attempts = attempts
  BY DEF Table
<1>2. TableBounded
  BY <1>1 DEF Good, TableBounded
<1>3. TimesInv
  BY <1>1 DEF Good, TimesInv, InOrder
<1>4. CountInv
  BY <1>1 DEF Counts, CountInv, Cutoffs
<1> QED
  BY <1>2, <1>3, <1>4 DEF IInv

(* What _consume_attempt leaves, and what a full deque means.              *)
LEMMA ConsumeFacts ==
    ASSUME IInv, NEW r \in Requests
    PROVE  /\ Good(AfterKeys(r)) /\ Counts(AfterKeys(r), evicted \cup EvictedFor(r))
           /\ AnyFull(r) => \E k \in KeysOf(r) : Cardinality(InWindow(k)) >= MaxAttempts
           /\ ~AnyFull(r) => \A k \in KeysOf(r) :
                /\ k # Login[r] => k \in Tracked(AfterKeys(r))
                /\ k \in Tracked(AfterKeys(r)) => Len(AfterKeys(r).attempts[k]) < MaxAttempts
           /\ EvictedFor(r) \subseteq Keys
<1> DEFINE login == Login[r]
           client == Client[r]
           first == AfterLogin(r)
           lost == evicted \cup (Tracked(Table) \ Tracked(Evicted(Table, login)))
<1>1. now \in 0..MaxTime /\ login \in Keys /\ Good(Table) /\ Counts(Table, evicted)
  BY TableOfState DEF IInv, TypeOK, Keys
<1>2. /\ Good(first) /\ login \in Tracked(first) /\ Counts(first, lost)
      /\ \A i \in DOMAIN first.attempts[login] : first.attempts[login][i] > now - Window
  BY <1>1, TouchedFacts DEF AfterLogin
<1>3. \A t : Good(t) => Tracked(t) \subseteq Keys
  BY DEF Good, Tracked
<1>4. \A t, lst : \A k \in Keys :
        /\ Good(t) /\ Counts(t, lst) /\ Full(t, k)
        /\ \A i \in DOMAIN t.attempts[k] : t.attempts[k][i] > now - Window
        => Cardinality(InWindow(k)) >= MaxAttempts
  <2> SUFFICES ASSUME NEW t, NEW lst, NEW k \in Keys, Good(t), Counts(t, lst), Full(t, k),
                      \A i \in DOMAIN t.attempts[k] : t.attempts[k][i] > now - Window
               PROVE  Cardinality(InWindow(k)) >= MaxAttempts
    OBVIOUS
  <2>1. t.attempts[k] \in Times /\ Len(t.attempts[k]) \in Nat
    BY DEF Good, Times
  <2>2. Cardinality(Kept(t.attempts[k], now - Window)) = Len(t.attempts[k])
    BY <1>1, <2>1, FullDeque
  <2>3. now - Window \in Cutoffs
    BY <1>1 DEF Cutoffs
  <2>4. Cardinality(Kept(t.attempts[k], now - Window)) <= Cardinality(Since(k, now - Window))
    BY <2>3 DEF Counts
  <2>5. Cardinality(Since(k, now - Window)) \in Nat
    BY SinceFinite
  <2> QED
    BY <2>1, <2>2, <2>4, <2>5 DEF InWindow, Full
<1>5. login \in KeysOf(r) /\ (client # NoClient => client \in KeysOf(r) /\ client \in Clients)
  BY DEF KeysOf, Keys
<1> HIDE DEF login, client, first, lost
<1>6. CASE LoginFull(r) \/ client = NoClient
  <2>1. AfterKeys(r) = first /\ lost = evicted \cup EvictedFor(r) /\ EvictedFor(r) \subseteq Keys
    BY <1>1, <1>3, <1>6 DEF AfterKeys, EvictedFor, first, lost, client, login
  <2>2. AnyFull(r) <=> LoginFull(r)
    BY <1>6 DEF AnyFull, client
  <2>3. LoginFull(r) => Cardinality(InWindow(login)) >= MaxAttempts
    BY <1>1, <1>2, <1>4 DEF LoginFull, first, login
  <2>4. ~LoginFull(r) => /\ KeysOf(r) = {login}
                         /\ Len(first.attempts[login]) < MaxAttempts
    <3> SUFFICES ASSUME ~LoginFull(r)
                 PROVE  KeysOf(r) = {login} /\ Len(first.attempts[login]) < MaxAttempts
      OBVIOUS
    <3>1. KeysOf(r) = {login}
      BY <1>1, <1>6 DEF KeysOf, client, login
    <3>2. Len(first.attempts[login]) \in Nat
      BY <1>1, <1>2 DEF Good, Times
    <3> QED
      BY <3>1, <3>2 DEF LoginFull, Full, first, login
  <2> QED
    BY <1>2, <1>5, <2>1, <2>2, <2>3, <2>4 DEF login
<1>7. CASE ~LoginFull(r) /\ client # NoClient
  <2> DEFINE both == Touched(first, client)
  <2>1. AfterKeys(r) = both /\ (AnyFull(r) <=> Full(both, client))
        /\ EvictedFor(r) = (Tracked(Table) \ Tracked(Evicted(Table, login)))
                             \cup (Tracked(first) \ Tracked(Evicted(first, client)))
    BY <1>7 DEF AfterKeys, AnyFull, EvictedFor, first, client, login
  <2>2. client \in Keys /\ client # login /\ KeysOf(r) = {login, client}
    BY <1>1, <1>5, <1>7 DEF Keys, KeysOf, client, login
  <2>3. /\ Good(both) /\ client \in Tracked(both)
        /\ Counts(both, lost \cup (Tracked(first) \ Tracked(Evicted(first, client))))
        /\ \A i \in DOMAIN both.attempts[client] : both.attempts[client][i] > now - Window
    BY <1>1, <1>2, <2>2, TouchedFacts
  <2>4. both.attempts[login] \in {<<>>, first.attempts[login]}
    <3>1. /\ first.attempts \in [Keys -> Times] /\ first \in [order : Seq(Keys), attempts : [Keys -> Times]]
      BY <1>2 DEF Good
    <3>2. Evicted(first, client).attempts[login] \in {<<>>, first.attempts[login]}
          /\ Evicted(first, client) \in [order : Seq(Keys), attempts : [Keys -> Times]]
      BY <1>1, <1>2, <2>2, <3>1, EvictedFacts DEF Evicted, Good
    <3>3. Added(Evicted(first, client), client).attempts = Evicted(first, client).attempts
      BY <1>1, <1>2, <2>2, AddedFacts, EvictedFacts
    <3>4. Added(Evicted(first, client), client) \in [order : Seq(Keys), attempts : [Keys -> Times]]
      <4>1. Good(Added(Evicted(first, client), client))
        BY <1>1, <1>2, <2>2, AddedFacts, EvictedFacts
      <4> QED
        BY <4>1 DEF Good
    <3>5. both.attempts[login] = Added(Evicted(first, client), client).attempts[login]
      BY <1>1, <2>2, <3>4 DEF Touched
    <3> QED
      BY <3>2, <3>3, <3>5
  <2> HIDE DEF both
  <2>5. Counts(both, evicted \cup EvictedFor(r)) /\ EvictedFor(r) \subseteq Keys
    <3>1. evicted \cup EvictedFor(r) = lost \cup (Tracked(first) \ Tracked(Evicted(first, client)))
      BY <2>1 DEF lost
    <3> QED
      BY <1>1, <1>2, <1>3, <2>1, <2>3, <3>1
  <2>6. AnyFull(r) => Cardinality(InWindow(client)) >= MaxAttempts
    BY <1>4, <2>1, <2>2, <2>3
  <2>7. Len(both.attempts[login]) < MaxAttempts
    <3>1. Len(first.attempts[login]) \in Nat /\ ~(Len(first.attempts[login]) >= MaxAttempts)
      BY <1>1, <1>2, <1>7 DEF Good, Times, LoginFull, Full, first, login
    <3> QED
      BY <3>1, <2>4
  <2>8. ~AnyFull(r) => Len(both.attempts[client]) < MaxAttempts
    <3>1. Len(both.attempts[client]) \in Nat
      BY <2>2, <2>3 DEF Good, Times
    <3> QED
      BY <3>1, <2>1 DEF Full
  <2> QED
    BY <2>1, <2>2, <2>3, <2>5, <2>6, <2>7, <2>8 DEF login
<1> QED
  BY <1>6, <1>7
-----------------------------------------------------------------------------
(* The steps keep the invariant. *)

LEMMA StateOfTableNext ==
    ASSUME TypeOK', QueueInv', \A r \in Requests : at'[r] <= now',
           Good(Table)', Counts(Table, evicted)'
    PROVE  IInv'
<1>1. (TypeOK /\ QueueInv /\ (\A r \in Requests : at[r] <= now)
         /\ Good(Table) /\ Counts(Table, evicted))'
  OBVIOUS
<1>2. (TypeOK /\ QueueInv /\ (\A r \in Requests : at[r] <= now)
         /\ Good(Table) /\ Counts(Table, evicted) => IInv)'
  BY StateOfTable, PTL
<1> QED
  BY <1>1, <1>2

LEMMA Initial == Init => IInv
<1> SUFFICES ASSUME Init PROVE IInv
  OBVIOUS
<1> USE DEF Init
<1>1. TypeOK
  BY DEF TypeOK, PC, Ended
<1>2. Good(Table)
  BY DEF Good, Table, Times, InOrder
<1>3. Counts(Table, evicted)
  <2>1. \A k \in Keys : \A cutoff \in Cutoffs :
            Kept(Table.attempts[k], cutoff) = {} /\ Since(k, cutoff) = {}
    BY DEF Kept, Since, Admitted, Table
  <2>2. Cardinality({}) = 0
    BY FS_EmptySet
  <2> SUFFICES ASSUME NEW k \in Keys, NEW cutoff \in Cutoffs
               PROVE  /\ Cardinality(Kept(Table.attempts[k], cutoff)) = 0
                      /\ Cardinality(Since(k, cutoff)) = 0
    BY DEF Counts
  <2> QED
    BY <2>1, <2>2
<1> QED
  BY <1>1, <1>2, <1>3, StateOfTable DEF QueueInv, TypeOK

(* Of the counts only the admissions can change when the table does not.   *)
LEMMA SameTable ==
    ASSUME IInv, TypeOK', QueueInv', UNCHANGED <<now, order, attempts, at, evicted>>,
           \A r \in Requests : Admitted(r)' <=> Admitted(r)
    PROVE  IInv'
<1>1. Good(Table)' /\ \A r \in Requests : at'[r] <= now'
  BY TableOfState DEF Good, Table, Tracked, InOrder, Times, IInv, TimesInv
<1>2. \A k, cutoff : Since(k, cutoff)' = Since(k, cutoff)
  BY DEF Since, KeysOf
<1>3. Counts(Table, evicted)'
  BY <1>2, TableOfState DEF Counts, Cutoffs, Table, Kept
<1> QED
  BY <1>1, <1>3, StateOfTableNext

(* A request that is refused or loses its login counts for no key. *)
LEMMA TurnedAway ==
    ASSUME IInv, NEW r \in Requests, pc[r] = "idle", NEW label \in {"refused", "broken"},
           order' = AfterKeys(r).order, attempts' = AfterKeys(r).attempts,
           Leave(r, label), UNCHANGED queue
    PROVE  IInv'
<1>1. /\ now' = now /\ pc' = [pc EXCEPT ![r] = label] /\ at' = [at EXCEPT ![r] = now]
      /\ evicted' = evicted \cup EvictedFor(r)
  BY DEF Leave
<1>2. Good(AfterKeys(r)) /\ Counts(AfterKeys(r), evicted') /\ EvictedFor(r) \subseteq Keys
  BY <1>1, ConsumeFacts
<1>3. TypeOK'
  BY <1>1, <1>2 DEF IInv, TypeOK, Good, Times, PC, Ended
<1>4. Table' = AfterKeys(r)
  BY <1>2 DEF Table, Good
<1>5. \A k, cutoff : Since(k, cutoff)' = Since(k, cutoff)
  <2> SUFFICES ASSUME NEW k, NEW cutoff, NEW q \in Requests
               PROVE  /\ Admitted(q)' <=> Admitted(q)
                      /\ Admitted(q) => at'[q] = at[q]
    BY DEF Since, KeysOf
  <2>1. CASE q = r
    BY <2>1, <1>1 DEF Admitted, IInv, TypeOK
  <2>2. CASE q # r
    BY <2>2, <1>1 DEF Admitted, IInv, TypeOK
  <2> QED
    BY <2>1, <2>2
<1>6. Good(Table)'
  <2>1. Good(Table') = Good(Table)'
    BY <1>1 DEF Good, Tracked, InOrder, Times
  <2> QED
    BY <2>1, <1>2, <1>4
<1>7. Counts(Table, evicted)'
  BY <1>1, <1>2, <1>4, <1>5 DEF Counts, Cutoffs, Kept
<1>8. \A q \in Requests : at'[q] <= now'
  BY <1>1 DEF IInv, TypeOK, TimesInv
<1>9. QueueInv'
  BY <1>1 DEF IInv, TypeOK, QueueInv
<1> QED
  BY <1>3, <1>6, <1>7, <1>8, <1>9, StateOfTableNext

(* Every key of an admitted request counts one more, and has room for it.  *)
LEMMA AdmitStep ==
    ASSUME IInv, NEW r \in Requests, Admit(r)
    PROVE  IInv'
<1> DEFINE t == AfterKeys(r)
<1>1. /\ now' = now /\ pc' = [pc EXCEPT ![r] = "queued"] /\ at' = [at EXCEPT ![r] = now]
      /\ evicted' = evicted \cup EvictedFor(r) /\ queue' = Append(queue, r)
      /\ order' = t.order /\ attempts' = Charged(r, t.attempts)
      /\ pc[r] = "idle" /\ ~AnyFull(r) /\ Login[r] \in Tracked(t)
  BY DEF Admit, Leave
<1>2. Good(t) /\ Counts(t, evicted') /\ EvictedFor(r) \subseteq Keys
  BY <1>1, ConsumeFacts
<1>3. \A k \in KeysOf(r) : k \in Tracked(t) /\ Len(t.attempts[k]) < MaxAttempts
  BY <1>1, ConsumeFacts
<1> HIDE DEF t
<1>4. now \in 0..MaxTime /\ t.order \in Seq(Keys) /\ t.attempts \in [Keys -> Times]
  BY <1>2 DEF IInv, TypeOK, Good
<1>5. \A k \in Keys :
        /\ k \in KeysOf(r) => attempts'[k] = Append(t.attempts[k], now)
        /\ k \notin KeysOf(r) => attempts'[k] = t.attempts[k]
  BY <1>1 DEF Charged
<1>6. ASSUME NEW k \in Keys
      PROVE  /\ attempts'[k] \in Times /\ InOrder(attempts'[k])
             /\ Len(attempts'[k]) <= MaxAttempts
             /\ attempts'[k] # <<>> => k \in Tracked(t)
  <2>1. t.attempts[k] \in Times /\ InOrder(t.attempts[k]) /\ Len(t.attempts[k]) <= MaxAttempts
        /\ (t.attempts[k] # <<>> => k \in Tracked(t)) /\ Len(t.attempts[k]) \in Nat
    BY <1>2, <1>4 DEF Good, Times
  <2>2. CASE k \notin KeysOf(r)
    BY <2>1, <2>2, <1>5
  <2>3. CASE k \in KeysOf(r)
    <3>1. attempts'[k] \in Times /\ InOrder(attempts'[k])
          /\ Len(attempts'[k]) = Len(t.attempts[k]) + 1
      BY <1>4, <1>5, <2>1, <2>3, AppendFacts
    <3> QED
      BY <1>3, <2>1, <2>3, <3>1
  <2> QED
    BY <2>2, <2>3
<1>7. TypeOK'
  <2>1. attempts' \in [Keys -> Times]
    BY <1>1, <1>6 DEF Charged
  <2>2. queue' \in Seq(Requests)
    BY <1>1, AppendProperties DEF IInv, TypeOK
  <2> QED
    BY <1>1, <1>2, <1>4, <2>1, <2>2 DEF IInv, TypeOK, Times, PC
<1>8. Good(Table)'
  <2>1. Tracked(Table)' = Tracked(t)
    BY <1>1 DEF Tracked, Table
  <2>2. Table' \in [order : Seq(Keys), attempts : [Keys -> Times]]
    BY <1>7 DEF TypeOK, Table, Times
  <2>3. \A k \in Keys : InOrder(Table.attempts[k])'
    BY <1>1, <1>6 DEF InOrder, Table
  <2>4. Len(Table'.order) <= MaxTracked
        /\ \A i, j \in DOMAIN Table'.order : i # j => Table'.order[i] # Table'.order[j]
    BY <1>1, <1>2 DEF Good, Table
  <2>5. \A k \in Keys : /\ Table'.attempts[k] # <<>> => k \in Tracked(t)
                        /\ Len(Table'.attempts[k]) <= MaxAttempts
    BY <1>6 DEF Table
  <2> QED
    BY <2>1, <2>2, <2>3, <2>4, <2>5 DEF Good, Times
<1>9. Counts(Table, evicted)'
  <2> SUFFICES ASSUME NEW k \in Keys, NEW cutoff \in Cutoffs
               PROVE  LET kept == Cardinality(Kept(attempts'[k], cutoff))
                          admitted == Cardinality(Since(k, cutoff)')
                      IN  kept <= admitted /\ (k \notin evicted' => admitted <= kept)
    BY <1>1 DEF Counts, Cutoffs, Table, Kept
  <2>1. cutoff < now /\ cutoff \in Int
    BY <1>4 DEF Cutoffs
  <2>2. \A q \in Requests \ {r} : (Admitted(q)' <=> Admitted(q)) /\ at'[q] = at[q]
    BY <1>1 DEF Admitted, IInv, TypeOK
  <2>3. ~Admitted(r) /\ Admitted(r)' /\ at'[r] = now
    BY <1>1 DEF Admitted, IInv, TypeOK
  <2>4. LET kept == Cardinality(Kept(t.attempts[k], cutoff))
            admitted == Cardinality(Since(k, cutoff))
        IN  /\ kept <= admitted /\ (k \notin evicted' => admitted <= kept)
            /\ kept \in Nat /\ admitted \in Nat
    BY <1>2, <1>4, <2>1, SinceFinite, KeptFinite DEF Counts
  <2>5. CASE k \notin KeysOf(r)
    <3>1. Since(k, cutoff)' = Since(k, cutoff)
      BY <2>2, <2>5 DEF Since, KeysOf
    <3> QED
      BY <1>5, <2>4, <2>5, <3>1
  <2>6. CASE k \in KeysOf(r)
    <3>1. Since(k, cutoff)' = Since(k, cutoff) \cup {r} /\ r \notin Since(k, cutoff)
      BY <2>1, <2>2, <2>3, <2>6 DEF Since, KeysOf
    <3>2. Cardinality(Since(k, cutoff)') = Cardinality(Since(k, cutoff)) + 1
      BY <3>1, SinceFinite, FS_AddElement
    <3>3. t.attempts[k] \in Times /\ InOrder(t.attempts[k])
      BY <1>2, <1>4 DEF Good
    <3>4. Cardinality(Kept(attempts'[k], cutoff)) = Cardinality(Kept(t.attempts[k], cutoff)) + 1
      BY <1>4, <1>5, <2>6, <3>3, AppendFacts
    <3> QED
      BY <2>4, <3>2, <3>4
  <2> QED
    BY <2>5, <2>6
<1>10. \A q \in Requests : at'[q] <= now'
  BY <1>1, <1>4 DEF IInv, TypeOK, TimesInv
<1>11. QueueInv'
  <2>1. queue \in Seq(Requests) /\ QueueInv /\ Len(queue) \in Nat /\ pc \in [Requests -> PC]
    BY DEF IInv, TypeOK
  <2>2. /\ Len(queue') = Len(queue) + 1 /\ queue'[Len(queue) + 1] = r
        /\ \A i \in 1..Len(queue) : queue'[i] = queue[i]
        /\ DOMAIN queue' = 1..(Len(queue) + 1) /\ DOMAIN queue = 1..Len(queue)
    BY <1>1, <2>1, AppendProperties
  <2>3. \A i \in 1..Len(queue) : queue[i] # r /\ queue[i] \in Requests /\ pc[queue[i]] = "queued"
    BY <1>1, <2>1 DEF QueueInv
  <2>4. \A i \in DOMAIN queue' : pc'[queue'[i]] = "queued"
    BY <1>1, <2>1, <2>2, <2>3
  <2>5. \A i, j \in DOMAIN queue' : i # j => queue'[i] # queue'[j]
    <3> SUFFICES ASSUME NEW i \in 1..(Len(queue) + 1), NEW j \in 1..(Len(queue) + 1), i # j
                 PROVE  queue'[i] # queue'[j]
      BY <2>2
    <3>1. CASE i \in 1..Len(queue) /\ j \in 1..Len(queue)
      BY <3>1, <2>1, <2>2 DEF QueueInv
    <3>2. CASE i \in 1..Len(queue) /\ j = Len(queue) + 1
      BY <3>2, <2>2, <2>3
    <3>3. CASE i = Len(queue) + 1 /\ j \in 1..Len(queue)
      BY <3>3, <2>2, <2>3
    <3> QED
      BY <2>1, <3>1, <3>2, <3>3
  <2> QED
    BY <2>4, <2>5 DEF QueueInv
<1> QED
  BY <1>7, <1>8, <1>9, <1>10, <1>11, StateOfTableNext

LEMMA AcquireStep ==
    ASSUME IInv, NEW r \in Requests, Acquire(r)
    PROVE  IInv'
<1>1. /\ queue \in Seq(Requests) /\ queue # <<>> /\ r = Head(queue) /\ queue' = Tail(queue)
      /\ pc' = [pc EXCEPT ![r] = "verifying"] /\ pc \in [Requests -> PC] /\ QueueInv
  BY DEF Acquire, IInv, TypeOK
<1>2. /\ Len(queue) \in Nat /\ Len(queue) >= 1 /\ DOMAIN queue = 1..Len(queue) /\ queue[1] = r
      /\ Tail(queue) \in Seq(Requests) /\ DOMAIN Tail(queue) = 1..(Len(queue) - 1)
      /\ \A i \in 1..(Len(queue) - 1) : Tail(queue)[i] = queue[i + 1]
  BY <1>1, HeadTailProperties
<1>3. pc[r] = "queued"
  BY <1>1, <1>2 DEF QueueInv
<1>4. \A i \in 1..(Len(queue) - 1) :
        i + 1 \in DOMAIN queue /\ queue[i + 1] \in Requests /\ queue[i + 1] # r
  BY <1>1, <1>2 DEF QueueInv
<1>5. QueueInv'
  <2>1. \A i \in DOMAIN queue' : pc'[queue'[i]] = "queued"
    BY <1>1, <1>2, <1>4 DEF QueueInv
  <2>2. \A i, j \in DOMAIN queue' : i # j => queue'[i] # queue'[j]
    <3> SUFFICES ASSUME NEW i \in 1..(Len(queue) - 1), NEW j \in 1..(Len(queue) - 1), i # j
                 PROVE  queue[i + 1] # queue[j + 1]
      <4>1. /\ DOMAIN queue' = 1..(Len(queue) - 1)
            /\ \A i \in 1..(Len(queue) - 1) : queue'[i] = queue[i + 1]
        BY <1>1, <1>2
      <4> QED
        BY <4>1
    <3>1. i + 1 # j + 1 /\ i + 1 \in DOMAIN queue /\ j + 1 \in DOMAIN queue
      BY <1>4
    <3> QED
      BY <1>1, <3>1 DEF QueueInv
  <2> QED
    BY <2>1, <2>2 DEF QueueInv
<1>6. TypeOK'
  BY <1>1, <1>2 DEF Acquire, IInv, TypeOK, PC
<1>7. \A q \in Requests : Admitted(q)' <=> Admitted(q)
  BY <1>1, <1>3 DEF Admitted
<1> QED
  BY <1>5, <1>6, <1>7, SameTable DEF Acquire

LEMMA FinishStep ==
    ASSUME IInv, NEW r \in Requests, Finish(r)
    PROVE  IInv'
<1>1. /\ pc[r] = "verifying" /\ pc' = [pc EXCEPT ![r] = "answered"] /\ queue' = queue
      /\ pc \in [Requests -> PC] /\ queue \in Seq(Requests)
  BY DEF Finish, IInv, TypeOK
<1>2. TypeOK'
  BY <1>1 DEF Finish, IInv, TypeOK, PC, Ended
<1>3. QueueInv'
  BY <1>1 DEF IInv, QueueInv
<1>4. \A q \in Requests : Admitted(q)' <=> Admitted(q)
  BY <1>1 DEF Admitted
<1> QED
  BY <1>2, <1>3, <1>4, SameTable DEF Finish

(* The clock only takes moments out of the window. *)
LEMMA TickStep ==
    ASSUME IInv, Tick
    PROVE  IInv'
<1>1. /\ now \in 0..MaxTime /\ now' = now + 1 /\ now' \in 0..MaxTime
      /\ UNCHANGED <<order, attempts, queue, pc, at, evicted>>
  BY DEF Tick, IInv, TypeOK
<1>2. TypeOK' /\ QueueInv'
  BY <1>1 DEF IInv, TypeOK, QueueInv, PC, Ended
<1>3. /\ Good(Table) /\ Counts(Table, evicted) /\ \A r \in Requests : at[r] <= now
      /\ attempts \in [Keys -> Times] /\ at \in [Requests -> 0..MaxTime]
  BY TableOfState DEF IInv, TypeOK, Times
<1>4. \A r \in Requests : at'[r] <= now'
  BY <1>1, <1>3
<1>5. Good(Table)'
  <2>1. ASSUME NEW k \in Keys PROVE InOrder(attempts[k])'
    <3>1. InOrder(attempts[k]) /\ attempts[k] \in Seq(0..MaxTime)
      BY <1>3 DEF Good, Table, Times
    <3> QED
      BY <1>1, <3>1 DEF InOrder
  <2> QED
    BY <1>1, <1>3, <2>1 DEF Good, Table, Tracked, Times
<1>6. Counts(Table, evicted)'
  <2> SUFFICES ASSUME NEW k \in Keys, NEW cutoff \in (now' - Window)..(now' - 1)
               PROVE  LET kept == Cardinality(Kept(attempts[k], cutoff))
                          admitted == Cardinality(Since(k, cutoff))
                      IN  kept <= admitted /\ (k \notin evicted => admitted <= kept)
    BY <1>1 DEF Counts, Cutoffs, Table, Kept, Since, KeysOf, Admitted
  <2>1. CASE cutoff \in Cutoffs
    BY <1>3, <2>1 DEF Counts, Table
  <2>2. CASE cutoff \notin Cutoffs
    <3>1. cutoff = now
      BY <1>1, <2>2 DEF Cutoffs
    <3>2. Since(k, cutoff) = {}
      BY <1>1, <1>3, <3>1 DEF Since
    <3>3. Kept(attempts[k], cutoff) = {}
      <4>1. InOrder(attempts[k]) /\ attempts[k] \in Seq(0..MaxTime)
        BY <1>3 DEF Good, Table, Times
      <4> QED
        BY <1>1, <3>1, <4>1 DEF Kept, InOrder
    <3> QED
      BY <3>2, <3>3, FS_EmptySet
  <2> QED
    BY <2>1, <2>2
<1> QED
  BY <1>2, <1>4, <1>5, <1>6, StateOfTableNext

LEMMA NextInv == IInv /\ [Next]_vars => IInv'
<1> SUFFICES ASSUME IInv, [Next]_vars PROVE IInv'
  OBVIOUS
<1>1. CASE UNCHANGED vars
  <2>1. TypeOK' /\ QueueInv'
    BY <1>1 DEF vars, IInv, TypeOK, QueueInv, PC, Ended
  <2>2. \A r \in Requests : Admitted(r)' <=> Admitted(r)
    BY <1>1 DEF vars, Admitted
  <2> QED
    BY <1>1, <2>1, <2>2, SameTable DEF vars
<1>2. CASE Tick
  BY <1>2, TickStep
<1>3. ASSUME NEW r \in Requests, Refuse(r) \/ Admit(r) \/ LoseLogin(r) \/ Step(r)
      PROVE  IInv'
  <2>1. CASE Refuse(r) \/ LoseLogin(r)
    BY <2>1, TurnedAway DEF Refuse, LoseLogin
  <2> QED
    BY <1>3, <2>1, AdmitStep, AcquireStep, FinishStep DEF Step
<1> QED
  BY <1>1, <1>2, <1>3 DEF Next

-----------------------------------------------------------------------------
(* The table counts the admissions of every key that was never evicted,    *)
(* and never more than them, for any limits and any table size.            *)
THEOREM InvariantHolds == Spec => []IInv
BY Initial, NextInv, PTL DEF Spec

(* No login and no client that was not evicted is admitted more often than *)
(* the limit within any window.                                            *)
THEOREM Bounded == Spec => []FrequencyBounded
<1>1. IInv => FrequencyBounded
  <2> SUFFICES ASSUME IInv, NEW k \in Keys \ evicted
               PROVE  Cardinality(InWindow(k)) <= MaxAttempts
    BY DEF FrequencyBounded
  <2> DEFINE kept == Cardinality(Kept(attempts[k], now - Window))
             admitted == Cardinality(InWindow(k))
  <2>1. now - Window \in Cutoffs /\ now - Window \in Int /\ attempts[k] \in Times
    BY DEF IInv, TypeOK, Cutoffs, Times
  <2>2. admitted <= kept
    BY <2>1 DEF IInv, CountInv, Cutoffs, InWindow
  <2>3. kept <= Len(attempts[k]) /\ Len(attempts[k]) <= MaxAttempts
    BY <2>1, KeptFinite DEF IInv, TimesInv
  <2>4. kept \in Nat /\ admitted \in Nat /\ Len(attempts[k]) \in Nat
    <3>1. Len(attempts[k]) \in Nat
      BY <2>1 DEF Times
    <3>2. kept \in Nat
      BY <2>1, KeptFinite
    <3> QED
      BY <3>1, <3>2, SinceFinite DEF InWindow
  <2> HIDE DEF kept, admitted
  <2>5. admitted <= MaxAttempts
    BY <2>2, <2>3, <2>4
  <2> QED
    BY <2>5 DEF admitted
<1> QED
  BY InvariantHolds, <1>1, PTL

(* The table stays within its size and keeps nothing of an evicted key.    *)
THEOREM TableStaysBounded == Spec => []TableBounded
<1>1. IInv => TableBounded
  BY DEF IInv
<1> QED
  BY InvariantHolds, <1>1, PTL

(* Nobody is refused before the login or the client has used up the        *)
(* window, whatever was evicted.                                           *)
THEOREM RefusedLate == Spec => RefusedOnlyWhenFull
<1> DEFINE Late == \A r \in Requests :
              pc[r] = "idle" /\ pc'[r] = "refused"
                  => \E k \in KeysOf(r) : Cardinality(InWindow(k)) >= MaxAttempts
<1>1. IInv /\ [Next]_vars => [Late]_vars
  <2> SUFFICES ASSUME IInv, Next, NEW r \in Requests, pc[r] = "idle", pc'[r] = "refused"
               PROVE  \E k \in KeysOf(r) : Cardinality(InWindow(k)) >= MaxAttempts
    OBVIOUS
  <2>1. pc \in [Requests -> PC]
    BY DEF IInv, TypeOK
  <2>2. ~Tick
    BY DEF Tick
  <2>3. PICK q \in Requests : Refuse(q) \/ Admit(q) \/ LoseLogin(q) \/ Step(q)
    BY <2>2 DEF Next
  <2>4. Refuse(r)
    BY <2>1, <2>3 DEF Refuse, Admit, LoseLogin, Leave, Step, Acquire, Finish
  <2> QED
    BY <2>4, ConsumeFacts DEF Refuse
<1> QED
  BY <1>1, InvariantHolds, PTL DEF Spec, RefusedOnlyWhenFull
=============================================================================
