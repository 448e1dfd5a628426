------------------------- MODULE PublicReadsProofs -------------------------
(* Theorems about PublicReads for any matches, rows, limits and commits.   *)
EXTENDS PublicReads, FiniteSetTheorems, TLAPS

USE ReadsAssumption

-----------------------------------------------------------------------------
(* Rows and orders. *)

LEMMA RowTypes ==
    ASSUME NEW t \in Tables, NEW m \in Matches
    PROVE  /\ t.matches[m] \in MatchRow
           /\ t.matches[m].starts \in Nat
           /\ m \in Nat
<1>1. t.matches[m] \in Rows[m]
  BY DEF Tables
<1>2. Rows[m] \subseteq MatchRow
  OBVIOUS
<1> QED
  BY <1>1, <1>2 DEF MatchRow

(* A finite set that is ordered has an element that none precedes.         *)
LEMMA LeastElement ==
    ASSUME NEW S, IsFiniteSet(S), S # {}, NEW R,
           \A x \in S : <<x, x>> \notin R,
           \A x, y, z \in S : <<x, y>> \in R /\ <<y, z>> \in R => <<x, z>> \in R
    PROVE  \E m \in S : \A n \in S : <<n, m>> \notin R
<1> DEFINE E(m) == {n \in S : <<n, m>> \in R}
           T == {E(m) : m \in S}
<1>1. T \subseteq SUBSET S /\ T # {}
  <2>1. \A m \in S : E(m) \in T /\ E(m) \subseteq S
    OBVIOUS
  <2>2. ASSUME NEW f \in T
        PROVE  f \subseteq S
    <3>1. PICK m \in S : f = E(m)
      BY <2>2
    <3> QED
      BY <3>1
  <2> HIDE DEF T, E
  <2> QED
    BY <2>1, <2>2
<1>2. IsWellFoundedOn(StrictSubsetOrdering(S), SUBSET S)
  <2>1. FiniteSubsetsOf(S) = SUBSET S
    BY FS_FiniteSubsetsOfFinite
  <2>2. IsWellFoundedOn(StrictSubsetOrdering(S), FiniteSubsetsOf(S))
    BY FS_StrictSubsetOrderingWellFounded
  <2> HIDE DEF T, E
  <2> QED
    BY <2>1, <2>2
<1>3. PICK e \in T : \A f \in T : <<f, e>> \notin StrictSubsetOrdering(S)
  <2> HIDE DEF T
  <2> QED
    BY <1>1, <1>2, WFMin
<1>4. PICK m \in S : e = E(m)
  BY <1>3
<1>5. ASSUME NEW n \in S, <<n, m>> \in R
      PROVE  FALSE
  <2>1. E(n) \subseteq E(m)
    BY <1>5
  <2>2. n \in E(m) /\ n \notin E(n)
    BY <1>5
  <2>3. <<E(n), E(m)>> \in StrictSubsetOrdering(S)
    BY <2>1, <2>2 DEF StrictSubsetOrdering
  <2> QED
    BY <2>3, <1>3, <1>4
<1> QED
  BY <1>5

(* starts_at and id order the matches. *)
LEMMA BeforeOrders ==
    ASSUME NEW t \in Tables
    PROVE  /\ \A m \in Matches : ~Before(t, m, m)
           /\ \A m, n \in Matches : m # n => Before(t, m, n) \/ Before(t, n, m)
           /\ \A m, n, o \in Matches :
                Before(t, m, n) /\ Before(t, n, o) => Before(t, m, o)
BY RowTypes DEF Before

(* So does the order of the next match. *)
LEMMA SoonerOrders ==
    ASSUME NEW t \in Tables
    PROVE  /\ \A m \in Matches : ~Sooner(t, m, m)
           /\ \A m, n \in Matches : m # n => Sooner(t, m, n) \/ Sooner(t, n, m)
           /\ \A m, n, o \in Matches :
                Sooner(t, m, n) /\ Sooner(t, n, o) => Sooner(t, m, o)
BY BeforeOrders DEF Sooner

(* There is a next match whenever one is awaited. *)
LEMMA NextMatchExists ==
    ASSUME NEW t \in Tables, Upcoming(t) # {}
    PROVE  NextMatch(t) \in Upcoming(t) /\ NextMatch(t) # NoMatch
<1> DEFINE R == {p \in Matches \X Matches : Sooner(t, p[1], p[2])}
<1>1. Upcoming(t) \subseteq Matches /\ IsFiniteSet(Upcoming(t))
  BY FS_Subset DEF Upcoming
<1>2. \A m, n \in Matches : <<m, n>> \in R <=> Sooner(t, m, n)
  OBVIOUS
<1>3. PICK m \in Upcoming(t) : \A n \in Upcoming(t) : <<n, m>> \notin R
  <2>1. \A x \in Upcoming(t) : <<x, x>> \notin R
    BY <1>1, <1>2, SoonerOrders
  <2>2. \A x, y, z \in Upcoming(t) :
            <<x, y>> \in R /\ <<y, z>> \in R => <<x, z>> \in R
    <3> HIDE DEF R
    <3> QED
      BY <1>1, <1>2, SoonerOrders
  <2> HIDE DEF R
  <2> QED
    BY <1>1, <2>1, <2>2, LeastElement
<1>4. \A n \in Upcoming(t) \ {m} : Sooner(t, m, n)
  <2> HIDE DEF R
  <2> QED
    BY <1>1, <1>2, <1>3, SoonerOrders
<1>5. NextMatch(t) \in Upcoming(t)
  BY <1>4 DEF NextMatch
<1> QED
  BY <1>1, <1>5

(* A feed with room for more tells every result. *)
LEMMA RoomForAll ==
    ASSUME NEW t \in Tables, Cardinality(RecentResults(t)) < Limit
    PROVE  RecentResults(t) = Results(t)
<1> DEFINE S == Results(t) \ RecentResults(t)
           R == {p \in Matches \X Matches : Before(t, p[2], p[1])}
           Later(m) == {n \in Results(t) : Before(t, m, n)}
<1>1. Results(t) \subseteq Matches /\ RecentResults(t) \subseteq Results(t)
  BY DEF Results, RecentResults
<1>2. \A m, n \in Matches : <<m, n>> \in R <=> Before(t, n, m)
  OBVIOUS
<1>3. IsFiniteSet(S) /\ IsFiniteSet(RecentResults(t))
  BY <1>1, FS_Subset
<1> SUFFICES ASSUME S # {} PROVE FALSE
  BY <1>1
<1>4. PICK m \in S : \A n \in S : <<n, m>> \notin R
  <2>1. S \subseteq Matches
    BY <1>1
  <2>2. \A x \in S : <<x, x>> \notin R
    <3> HIDE DEF R, S
    <3> QED
      BY <2>1, <1>2, BeforeOrders
  <2>3. \A x, y, z \in S :
            <<x, y>> \in R /\ <<y, z>> \in R => <<x, z>> \in R
    <3> HIDE DEF R, S
    <3> QED
      BY <2>1, <1>2, BeforeOrders
  <2> HIDE DEF R, S
  <2> QED
    BY <1>3, <2>2, <2>3, LeastElement
<1>5. Later(m) \subseteq RecentResults(t)
  BY <1>1, <1>2, <1>4
<1>6. Cardinality(Later(m)) <= Cardinality(RecentResults(t))
  BY <1>3, <1>5, FS_Subset
<1>7. Cardinality(Later(m)) \in Nat /\ Cardinality(RecentResults(t)) \in Nat
  BY <1>3, <1>5, FS_Subset, FS_CardinalityType
<1>8. Cardinality(Later(m)) < Limit
  BY <1>6, <1>7
<1>9. m \in RecentResults(t)
  BY <1>8, <1>4 DEF RecentResults
<1> QED
  BY <1>4, <1>9

-----------------------------------------------------------------------------
(* Ranks and pages. *)

(* A row has fewer rows ahead of it than the list has rows. *)
LEMMA RankBelowCount ==
    ASSUME NEW t \in Tables
    PROVE  /\ Cardinality(Listed(t)) \in Nat
           /\ \A m \in Matches : IsFiniteSet(Ahead(t, m)) /\ Rank(t, m) \in Nat
           /\ \A m \in Listed(t) : Rank(t, m) < Cardinality(Listed(t))
<1>1. Listed(t) \subseteq Matches /\ IsFiniteSet(Listed(t))
  BY FS_Subset DEF Listed
<1>2. Cardinality(Listed(t)) \in Nat
  BY <1>1, FS_CardinalityType
<1>3. ASSUME NEW m \in Matches
      PROVE  IsFiniteSet(Ahead(t, m)) /\ Rank(t, m) \in Nat
  BY <1>1, FS_Subset, FS_CardinalityType DEF Ahead, Rank
<1>4. ASSUME NEW m \in Listed(t)
      PROVE  Rank(t, m) < Cardinality(Listed(t))
  <2>1. m \notin Ahead(t, m)
    BY <1>1, BeforeOrders DEF Ahead
  <2>2. Cardinality(Ahead(t, m) \cup {m}) = Rank(t, m) + 1
    BY <2>1, <1>1, <1>3, FS_AddElement DEF Rank
  <2>3. Ahead(t, m) \cup {m} \subseteq Listed(t)
    BY DEF Ahead
  <2>4. Cardinality(Ahead(t, m) \cup {m}) <= Cardinality(Listed(t))
    BY <2>3, <1>1, FS_Subset
  <2>5. Rank(t, m) \in Nat
    BY <1>1, <1>3
  <2> QED
    BY <2>2, <2>4, <2>5, <1>2
<1> QED
  BY <1>2, <1>3, <1>4

(* A rank rises only when another row comes in before. *)
LEMMA RankMonotone ==
    ASSUME NEW t \in Tables, NEW u \in Tables, NEW m \in Matches,
           Ahead(t, m) \subseteq Ahead(u, m)
    PROVE  Rank(t, m) <= Rank(u, m)
BY RankBelowCount, FS_Subset DEF Rank

(* Pages follow one another. *)
LEMMA PageBorders ==
    ASSUME NEW p \in Nat \ {0}
    PROVE  /\ (p - 1) * PageSize \in Nat
           /\ p * PageSize \in Nat
           /\ p * PageSize = (p - 1) * PageSize + PageSize
           /\ (p + 1) - 1 = p
OBVIOUS

(* The last page ends after the last row. *)
LEMMA TotalPagesEnough ==
    ASSUME NEW count \in Nat, NEW p \in Nat, ~(p < TotalPages(count))
    PROVE  count <= p * PageSize
<1> DEFINE q == TotalPages(count)
<1>1. q \in Nat /\ count + PageSize - 1 < q * PageSize + PageSize
  BY DEF TotalPages
<1>2. q <= p
  BY <1>1
<1>3. q * PageSize <= p * PageSize
  BY <1>1, <1>2
<1> QED
  BY <1>1, <1>3
-----------------------------------------------------------------------------
(* The steps keep the invariant. *)

LEMMA Initial == Init => IInv
BY DEF Init, IInv, TypeOK, PC, FeedInv, ListInv, NothingLost, ResultsToldOnce,
       PagesComplete, PagesDistinct

(* The rows that a SELECT loads are matches of the table. *)
LEMMA LoadedFacts ==
    ASSUME TypeOK, NEW ms, ms \subseteq Matches
    PROVE  /\ DOMAIN Loaded(ms) = DOMAIN session \cup ms
           /\ \A m \in DOMAIN Loaded(ms) : Loaded(ms)[m] \in MatchRow
           /\ \A m \in ms \ DOMAIN session : Loaded(ms)[m] = db.matches[m]
BY RowTypes DEF TypeOK, Loaded

LEMMA AskForFeedStep == IInv /\ AskForFeed => IInv'
<1> SUFFICES ASSUME IInv, AskForFeed PROVE IInv'
  OBVIOUS
<1> USE DEF AskForFeed, feedVars, listVars
<1>1. TypeOK'
  BY DEF IInv, TypeOK, PC
<1>2. FeedInv' /\ ListInv'
  BY DEF IInv, FeedInv, ListInv, Awaited, Told, Public
<1>3. NothingLost' /\ ResultsToldOnce' /\ PagesComplete'
  BY DEF NothingLost, ResultsToldOnce, PagesComplete
<1>4. PagesDistinct'
  <2>1. steady' \subseteq Matches /\ got = [m \in Matches |-> 0]
    BY DEF IInv, ListInv
  <2> QED
    BY <2>1 DEF PagesDistinct
<1> QED
  BY <1>1, <1>2, <1>3, <1>4 DEF IInv

LEMMA SelectNextStep == IInv /\ SelectNext => IInv'
<1> SUFFICES ASSUME IInv, SelectNext PROVE IInv'
  OBVIOUS
<1> USE DEF SelectNext, listVars, historyVars
<1>1. TypeOK /\ db \in Tables /\ DOMAIN session = {}
  BY DEF IInv, TypeOK, FeedInv
<1>2. next' \in Matches \cup {NoMatch} /\ (next' = NoMatch => Upcoming(db) = {})
  BY <1>1, NextMatchExists DEF Upcoming, NextMatch
<1>3. TypeOK'
  BY <1>1, <1>2, LoadedFacts DEF TypeOK, PC
<1>4. FeedInv'
  <2>1. DOMAIN session' \subseteq {next'}
    BY <1>1, <1>2, LoadedFacts
  <2>2. \A m \in steady : Awaited(db, m) \/ Told(db, m)
    BY DEF IInv, FeedInv
  <2>3. next' = NoMatch => \A m \in steady : Told(db, m)
    BY <1>1, <1>2, <2>2 DEF Awaited, Upcoming, TypeOK
  <2>4. \A m : Awaited(db, m)' = Awaited(db, m) /\ Told(db, m)' = Told(db, m)
    BY DEF Awaited, Told, Public
  <2> QED
    BY <2>1, <2>2, <2>3, <2>4 DEF FeedInv
<1>5. ListInv'
  BY DEF IInv, ListInv
<1>6. NothingLost' /\ ResultsToldOnce' /\ PagesComplete'
  BY DEF NothingLost, ResultsToldOnce, PagesComplete
<1>7. PagesDistinct'
  BY DEF IInv, PagesDistinct
<1> QED
  BY <1>3, <1>4, <1>5, <1>6, <1>7 DEF IInv

LEMMA SelectResultsStep == IInv /\ SelectResults => IInv'
<1> SUFFICES ASSUME IInv, SelectResults PROVE IInv'
  OBVIOUS
<1> USE DEF SelectResults, listVars, historyVars
<1>1. TypeOK /\ db \in Tables /\ DOMAIN session \subseteq {next}
  BY DEF IInv, TypeOK, FeedInv
<1>2. results' \subseteq Results(db) /\ results' \subseteq Matches
  BY DEF RecentResults, Results
<1>3. TypeOK'
  <2>1. /\ DOMAIN session' = DOMAIN session \cup results'
        /\ \A m \in DOMAIN session' : session'[m] \in MatchRow
    BY <1>1, <1>2, LoadedFacts
  <2> QED
    BY <1>1, <1>2, <2>1 DEF TypeOK, PC
<1>4. FeedInv'
  BY DEF FeedInv
<1>5. ListInv'
  BY DEF IInv, ListInv
<1>6. NothingLost'
  <2> SUFFICES ASSUME next = NoMatch, Cardinality(results') < Limit, NEW m \in steady
               PROVE  m \in results'
    BY DEF NothingLost
  <2>1. m \in Matches /\ Told(db, m)
    BY <1>1 DEF IInv, FeedInv, TypeOK
  <2>2. m \in Results(db)
    BY <2>1 DEF Told, Results
  <2> QED
    BY <1>1, <2>2, RoomForAll
<1>7. ResultsToldOnce'
  <2> SUFFICES ASSUME NEW m \in results' \ {next}
               PROVE  session'[m].status = "finished" /\ session'[m].starts <= Now
    BY DEF ResultsToldOnce
  <2>1. session'[m] = db.matches[m]
    BY <1>1, <1>2, LoadedFacts
  <2> QED
    BY <1>2, <2>1 DEF Results
<1>8. PagesComplete'
  BY DEF PagesComplete
<1>9. PagesDistinct'
  BY DEF IInv, PagesDistinct
<1> QED
  BY <1>3, <1>4, <1>5, <1>6, <1>7, <1>8, <1>9 DEF IInv

LEMMA AskForListStep == IInv /\ AskForList => IInv'
<1> SUFFICES ASSUME IInv, AskForList PROVE IInv'
  OBVIOUS
<1> USE DEF AskForList, feedVars, listVars
<1>1. db \in Tables /\ steady' \subseteq Matches /\ page = 1 /\ got = [m \in Matches |-> 0]
  BY DEF IInv, TypeOK, ListInv, Listed
<1>2. TypeOK'
  BY <1>1 DEF IInv, TypeOK, PC
<1>3. FeedInv'
  BY DEF FeedInv
<1>4. ListInv'
  <2>1. Listed(db)' = Listed(db) /\ \A m : Rank(db, m)' = Rank(db, m)
    BY DEF Listed, Public, Rank, Ahead, Before
  <2>2. \A m \in steady' : Rank(db, m) \in Nat /\ got[m] = 0
    BY <1>1, RankBelowCount
  <2>3. (page - 1) * PageSize = 0
    BY <1>1
  <2> QED
    BY <2>1, <2>2, <2>3 DEF ListInv
<1>5. NothingLost' /\ ResultsToldOnce' /\ PagesComplete'
  BY DEF NothingLost, ResultsToldOnce, PagesComplete
<1>6. PagesDistinct'
  BY <1>1 DEF PagesDistinct
<1> QED
  BY <1>2, <1>3, <1>4, <1>5, <1>6 DEF IInv

LEMMA CountRowsStep == IInv /\ CountRows => IInv'
<1> SUFFICES ASSUME IInv, CountRows PROVE IInv'
  OBVIOUS
<1> USE DEF CountRows, feedVars
<1>1. db \in Tables
  BY DEF IInv, TypeOK
<1>2. TypeOK'
  BY <1>1, RankBelowCount DEF IInv, TypeOK, PC
<1>3. FeedInv'
  BY DEF FeedInv
<1>4. ListInv'
  <2>1. Listed(db)' = Listed(db) /\ \A m : Rank(db, m)' = Rank(db, m)
    BY DEF Listed, Public, Rank, Ahead, Before
  <2>2. \A m \in steady : m \in Listed(db)
    BY DEF IInv, ListInv
  <2>3. \A m \in steady : Rank(db, m) < total'
    BY <1>1, <2>2, RankBelowCount
  <2> QED
    BY <2>1, <2>2, <2>3 DEF IInv, ListInv
<1>5. NothingLost' /\ ResultsToldOnce' /\ PagesComplete'
  BY DEF NothingLost, ResultsToldOnce, PagesComplete
<1>6. PagesDistinct'
  BY DEF IInv, PagesDistinct
<1> QED
  BY <1>2, <1>3, <1>4, <1>5, <1>6 DEF IInv

(* A page shows what is at its places and leaves the rest. *)
LEMMA SelectPageStep == IInv /\ SelectPage => IInv'
<1> SUFFICES ASSUME IInv, SelectPage PROVE IInv'
  OBVIOUS
<1> USE DEF SelectPage, feedVars, historyVars
<1> DEFINE low == (page - 1) * PageSize
           high == page * PageSize
<1>1. /\ db \in Tables /\ page \in Nat \ {0} /\ total \in Nat
      /\ steady \subseteq Matches /\ got \in [Matches -> Nat]
  BY DEF IInv, TypeOK
<1>2. low \in Nat /\ high \in Nat /\ low <= high
  BY <1>1, PageBorders
<1>3. \A m \in steady :
        /\ m \in Listed(db)
        /\ got[m] > 0 /\ m \notin overtaken => got[m] = 1 /\ Rank(db, m) < low
        /\ got[m] = 0 /\ m \notin receded => low <= Rank(db, m)
        /\ m \notin late => Rank(db, m) < total
  BY DEF IInv, ListInv
<1>4. \A m \in steady : Rank(db, m) \in Nat
  BY <1>1, RankBelowCount
<1>5. \A m \in steady :
        m \in Page(db, page) <=> low <= Rank(db, m) /\ Rank(db, m) < high
  BY <1>3 DEF Page
<1>6. \A m \in steady :
        got'[m] = IF low <= Rank(db, m) /\ Rank(db, m) < high THEN got[m] + 1 ELSE got[m]
  BY <1>1, <1>5
<1> HIDE DEF low, high
<1>7. ASSUME NEW m \in steady
      PROVE  /\ got'[m] > 0 /\ m \notin overtaken => got'[m] = 1 /\ Rank(db, m) < high
             /\ got'[m] = 0 /\ m \notin receded => high <= Rank(db, m)
  <2>1. got[m] \in Nat /\ Rank(db, m) \in Nat
    BY <1>1, <1>4
  <2> QED
    BY <1>2, <1>3, <1>6, <2>1
<1>8. TypeOK'
  BY <1>1 DEF IInv, TypeOK, PC
<1>9. FeedInv'
  BY DEF FeedInv
<1>10. ListInv'
  <2>1. CASE page < TotalPages(total)
    <3>1. (page' - 1) * PageSize = high
      BY <1>1, <2>1 DEF high
    <3>2. Listed(db)' = Listed(db) /\ \A m : Rank(db, m)' = Rank(db, m)
      BY DEF Listed, Public, Rank, Ahead, Before
    <3> QED
      BY <2>1, <3>1, <3>2, <1>3, <1>7 DEF ListInv
  <2>2. CASE ~(page < TotalPages(total))
    BY <2>2 DEF ListInv
  <2> QED
    BY <2>1, <2>2
<1>11. NothingLost' /\ ResultsToldOnce'
  BY DEF NothingLost, ResultsToldOnce
<1>12. PagesComplete'
  <2> SUFFICES ASSUME ~(page < TotalPages(total)), NEW m \in steady, got'[m] = 0,
                      m \notin receded, m \notin late
               PROVE  FALSE
    BY DEF PagesComplete
  <2>1. total <= high
    BY <1>1, TotalPagesEnough DEF high
  <2>2. high <= Rank(db, m) /\ Rank(db, m) < total
    BY <1>3, <1>7
  <2> QED
    BY <2>1, <2>2, <1>1, <1>2, <1>4
<1>13. PagesDistinct'
  <2> SUFFICES ASSUME NEW m \in steady, got'[m] > 1, m \notin overtaken
               PROVE  FALSE
    BY DEF PagesDistinct
  <2>1. got'[m] \in Nat
    BY <1>1, <1>8 DEF TypeOK
  <2> QED
    BY <1>7, <2>1
<1> QED
  BY <1>8, <1>9, <1>10, <1>11, <1>12, <1>13 DEF IInv
-----------------------------------------------------------------------------
(* Commits of others. *)

(* A transaction leaves rows that the matches may have. *)
LEMMA CommittedTables == IInv /\ CommitTable => db' \in Tables
<1> SUFFICES ASSUME IInv, CommitTable PROVE db' \in Tables
  OBVIOUS
<1>1. db \in Tables
  BY DEF IInv, TypeOK
<1>2. CASE db' \in Edited
  <2> DEFINE New(ms) ==
                {f \in [ms -> UNION {Rows[m] : m \in ms}] : \A m \in ms : f[m] \in Rows[m]}
  <2>0. PICK ms \in Together : \E new \in New(ms) :
               db' = [db EXCEPT !.matches =
                         [m \in Matches |-> IF m \in ms THEN new[m] ELSE db.matches[m]]]
    BY <1>2 DEF Edited
  <2>1. PICK new \in New(ms) :
               db' = [db EXCEPT !.matches =
                         [m \in Matches |-> IF m \in ms THEN new[m] ELSE db.matches[m]]]
    BY <2>0
  <2> DEFINE rows == [m \in Matches |-> IF m \in ms THEN new[m] ELSE db.matches[m]]
  <2>2. ms \subseteq Matches
    OBVIOUS
  <2>3. \A m \in Matches : rows[m] \in Rows[m]
    BY <1>1, <2>2 DEF Tables
  <2>4. rows \in [Matches -> UNION {Rows[m] : m \in Matches}]
    BY <2>3
  <2>5. db'.matches = rows /\ db' = [matches |-> rows, open |-> db.open]
    BY <1>1, <2>1 DEF Tables
  <2> HIDE DEF rows
  <2> QED
    BY <1>1, <2>3, <2>4, <2>5 DEF Tables
<1>3. CASE db' \in Reopened
  BY <1>1, <1>3 DEF Reopened, Tables
<1> QED
  BY <1>2, <1>3 DEF CommitTable

LEMMA CommitTableStep == IInv /\ CommitTable => IInv'
<1> SUFFICES ASSUME IInv, CommitTable PROVE IInv'
  OBVIOUS
<1>1. db \in Tables /\ db' \in Tables
  BY CommittedTables DEF IInv, TypeOK
<1>2. /\ UNCHANGED <<pc, session, next, results, page, total, got>>
      /\ pc \notin {"idle", "feedDone", "listDone"}
      /\ commits < MaxCommits /\ commits' = commits + 1
  BY DEF CommitTable, feedVars, listVars
<1> DEFINE came == {m \in steady : ~(Ahead(db', m) \subseteq Ahead(db, m))}
           left == {m \in steady : ~(Ahead(db, m) \subseteq Ahead(db', m))}
<1>3. steady \subseteq Matches
  BY DEF IInv, TypeOK
<1>4. CASE pc \in {"feed", "feedResults"}
  <2>1. /\ steady' = {m \in steady : Told(db', m) \/ (Awaited(db', m) /\ ~Told(db, m))}
        /\ UNCHANGED <<overtaken, receded, late>>
    BY <1>4 DEF CommitTable
  <2>2. TypeOK'
    BY <1>1, <1>2, <2>1 DEF IInv, TypeOK
  <2>3. FeedInv'
    <3>1. \A m \in steady' : Awaited(db, m)' \/ Told(db, m)'
      BY <2>1 DEF Awaited, Told, Public
    <3>2. pc = "feedResults" /\ next = NoMatch => \A m \in steady' : Told(db, m)'
      BY <2>1 DEF IInv, FeedInv, Told, Public
    <3> QED
      BY <1>2, <3>1, <3>2 DEF IInv, FeedInv
  <2>4. ListInv'
    BY <1>2, <1>4 DEF IInv, ListInv
  <2>5. NothingLost' /\ ResultsToldOnce' /\ PagesComplete'
    BY <1>2 DEF NothingLost, ResultsToldOnce, PagesComplete
  <2>6. PagesDistinct'
    BY <1>2, <2>1 DEF IInv, PagesDistinct
  <2> QED
    BY <2>2, <2>3, <2>4, <2>5, <2>6 DEF IInv
<1>5. CASE pc \in {"count", "select"}
  <2>1. /\ steady' = steady \cap {m \in Listed(db') :
                          db'.matches[m].starts = db.matches[m].starts}
        /\ overtaken' = overtaken \cup came
        /\ receded' = receded \cup left
        /\ late' = late \cup came
    BY <1>5 DEF CommitTable
  <2>2. TypeOK'
    BY <1>1, <1>2, <2>1 DEF IInv, TypeOK
  <2>3. FeedInv'
    BY <1>2, <1>5 DEF FeedInv
  <2>4. ListInv'
    <3>1. \A m \in Matches :
            /\ Rank(db, m) \in Nat /\ Rank(db', m) \in Nat
            /\ m \notin came /\ m \in steady => Rank(db', m) <= Rank(db, m)
            /\ m \notin left /\ m \in steady => Rank(db, m) <= Rank(db', m)
      BY <1>1, <1>3, RankBelowCount, RankMonotone
    <3>2. (page - 1) * PageSize \in Nat /\ total \in Nat
      BY PageBorders DEF IInv, TypeOK
    <3>3. ASSUME NEW m \in steady'
          PROVE  /\ m \in Listed(db')
                 /\ got[m] > 0 /\ m \notin overtaken' =>
                       got[m] = 1 /\ Rank(db', m) < (page - 1) * PageSize
                 /\ got[m] = 0 /\ m \notin receded' =>
                       (page - 1) * PageSize <= Rank(db', m)
                 /\ pc = "select" /\ m \notin late' => Rank(db', m) < total
      <4>1. m \in steady /\ m \in Matches /\ m \in Listed(db')
        BY <1>3, <2>1
      <4>2. /\ got[m] > 0 /\ m \notin overtaken =>
                  got[m] = 1 /\ Rank(db, m) < (page - 1) * PageSize
            /\ got[m] = 0 /\ m \notin receded => (page - 1) * PageSize <= Rank(db, m)
            /\ pc = "select" /\ m \notin late => Rank(db, m) < total
        BY <1>5, <4>1 DEF IInv, ListInv
      <4>3. /\ m \notin overtaken' => m \notin overtaken /\ m \notin came
            /\ m \notin receded' => m \notin receded /\ m \notin left
            /\ m \notin late' => m \notin late /\ m \notin came
        BY <2>1
      <4> HIDE DEF came, left
      <4> QED
        BY <3>1, <3>2, <4>1, <4>2, <4>3
    <3>4. Listed(db)' = Listed(db') /\ \A m : Rank(db, m)' = Rank(db', m)
      BY DEF Listed, Public, Rank, Ahead, Before
    <3> QED
      BY <1>2, <1>5, <3>3, <3>4 DEF ListInv
  <2>5. NothingLost' /\ ResultsToldOnce' /\ PagesComplete'
    BY <1>2 DEF NothingLost, ResultsToldOnce, PagesComplete
  <2>6. PagesDistinct'
    BY <1>2, <2>1 DEF IInv, PagesDistinct
  <2> QED
    BY <2>2, <2>3, <2>4, <2>5, <2>6 DEF IInv
<1> QED
  BY <1>2, <1>4, <1>5 DEF IInv, TypeOK, PC

LEMMA Stuttering == IInv /\ UNCHANGED vars => IInv'
<1> SUFFICES ASSUME IInv, UNCHANGED vars PROVE IInv'
  OBVIOUS
<1> USE DEF vars, feedVars, listVars, historyVars
<1>1. TypeOK'
  BY DEF IInv, TypeOK
<1>2. FeedInv'
  BY DEF IInv, FeedInv, Awaited, Told, Public
<1>3. ListInv'
  BY DEF IInv, ListInv, Listed, Public, Rank, Ahead, Before
<1>4. NothingLost' /\ ResultsToldOnce' /\ PagesComplete' /\ PagesDistinct'
  BY DEF IInv, NothingLost, ResultsToldOnce, PagesComplete, PagesDistinct
<1> QED
  BY <1>1, <1>2, <1>3, <1>4 DEF IInv

-----------------------------------------------------------------------------
(* The invariant holds, and with it what the visitor is promised.          *)
THEOREM InvariantHolds == Spec => []IInv
<1>1. IInv /\ [Next]_vars => IInv'
  BY AskForFeedStep, SelectNextStep, SelectResultsStep, AskForListStep, CountRowsStep,
     SelectPageStep, CommitTableStep, Stuttering DEF Next
<1> QED
  BY Initial, <1>1, PTL DEF Spec

(* Whatever the rows, the limit and the commits between the two SELECTs, a *)
(* match that was awaited or told all the time is not lost by the feed.    *)
THEOREM NothingLostHolds == Spec => []NothingLost
<1>1. IInv => NothingLost
  BY DEF IInv
<1> QED
  BY InvariantHolds, <1>1, PTL

(* A result is told with a finished row, unless the feed shows it twice.   *)
THEOREM ResultsToldOnceHolds == Spec => []ResultsToldOnce
<1>1. IInv => ResultsToldOnce
  BY DEF IInv
<1> QED
  BY InvariantHolds, <1>1, PTL

(* For any page size and number of commits, a client that follows the      *)
(* pages misses only matches that a commit moved across a page's border.   *)
THEOREM PagesCompleteHolds == Spec => []PagesComplete
<1>1. IInv => PagesComplete
  BY DEF IInv
<1> QED
  BY InvariantHolds, <1>1, PTL

(* And it is shown a match twice only if another came in before it.        *)
THEOREM PagesDistinctHolds == Spec => []PagesDistinct
<1>1. IInv => PagesDistinct
  BY DEF IInv
<1> QED
  BY InvariantHolds, <1>1, PTL
=============================================================================
