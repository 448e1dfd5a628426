---------------------------- MODULE PublicReads ----------------------------
(***************************************************************************)
(* What one visitor is shown while editors and imports commit: the home    *)
(* feed (HomeService.get), or one list page after page                     *)
(* (MatchRepository.list filtered by a status).  A request runs several    *)
(* SELECTs, and each sees the rows committed at its own moment.            *)
(* Matches are numbers, in the order of their ids.                         *)
(***************************************************************************)
EXTENDS Naturals, FiniteSets

CONSTANTS
    Matches, Competitions,
    NoMatch,
    Now,            \* when the home feed is asked for
    Limit,          \* results in the feed
    PageSize,
    Wanted,         \* the status the list is filtered by
    Rows,           \* Rows[m]: the rows that match m may have
    Together,       \* matches that one transaction changes
    MaxCommits      \* bound: commits while the visitor reads

Status == {"scheduled", "live", "finished", "postponed", "cancelled"}

MatchRow == [starts : Nat, status : Status, competition : Competitions, deleted : BOOLEAN]

(* The matches, and the competitions that are active and not deleted.      *)
Tables ==
    [matches : {rows \in [Matches -> UNION {Rows[m] : m \in Matches}] :
                    \A m \in Matches : rows[m] \in Rows[m]},
     open : SUBSET Competitions]

ASSUME ReadsAssumption ==
    /\ Matches \subseteq Nat /\ IsFiniteSet(Matches) /\ NoMatch \notin Matches
    /\ {Now, MaxCommits} \subseteq Nat
    /\ {Limit, PageSize} \subseteq Nat \ {0}
    /\ Wanted \in Status
    /\ Rows \in [Matches -> SUBSET MatchRow]
    /\ Together \subseteq SUBSET Matches

VARIABLES
    db,         \* the committed table
    pc,         \* where the visitor is
    session,    \* the rows the request's session has loaded, as it read them
    next,       \* the feed's next match
    results,    \* the feed's recent results
    page,       \* the page the client asked for
    total,      \* the count of its answer
    got,        \* how often the client was shown each match
    commits,
    steady,     \* history: matches that were there all the time
    overtaken,  \* history: matches that another one came in before
    receded,    \* history: matches that another one left from before
    late        \* history: matches overtaken since the last count

feedVars == <<session, next, results>>
listVars == <<page, total, got>>
historyVars == <<steady, overtaken, receded, late>>
vars == <<db, pc, feedVars, listVars, commits, historyVars>>

PC == {"idle", "feed", "feedResults", "feedDone", "count", "select", "listDone"}

-----------------------------------------------------------------------------
(* _public_filters; the team of a match is never deactivated.              *)
Public(t, m) == ~t.matches[m].deleted /\ t.matches[m].competition \in t.open

(* starts_at, id *)
Before(t, m, n) ==
    \/ t.matches[m].starts < t.matches[n].starts
    \/ t.matches[m].starts = t.matches[n].starts /\ m < n

(* Mutant: only scheduled matches come next. *)
ScheduledOnly(t) ==
    {m \in Matches : /\ Public(t, m)
                     /\ t.matches[m].status = "scheduled"
                     /\ t.matches[m].starts >= Now}

(* next_public_match: live ones, and scheduled ones that are not over.     *)
Upcoming(t) ==
    {m \in Matches : /\ Public(t, m)
                     /\ \/ t.matches[m].status = "live"
                        \/ t.matches[m].status = "scheduled" /\ t.matches[m].starts >= Now}

(* Live ones first. *)
Sooner(t, m, n) ==
    LET live(x) == t.matches[x].status = "live"
    IN  (live(m) /\ ~live(n)) \/ (live(m) = live(n) /\ Before(t, m, n))

NextMatch(t) ==
    IF Upcoming(t) = {} THEN NoMatch
    ELSE CHOOSE m \in Upcoming(t) : \A n \in Upcoming(t) \ {m} : Sooner(t, m, n)

(* Mutant: whatever has started counts as a result. *)
Started(t) == {m \in Matches : Public(t, m) /\ t.matches[m].starts <= Now}

(* recent_public_results: the latest of those that have started.           *)
Results(t) ==
    {m \in Matches : /\ Public(t, m)
                     /\ t.matches[m].status = "finished"
                     /\ t.matches[m].starts <= Now}

RecentResults(t) ==
    {m \in Results(t) : Cardinality({n \in Results(t) : Before(t, m, n)}) < Limit}

(* The rows of a list, and those before one of them.                       *)
Listed(t) == {m \in Matches : Public(t, m) /\ t.matches[m].status = Wanted}

Ahead(t, m) == {n \in Listed(t) : Before(t, n, m)}

Rank(t, m) == Cardinality(Ahead(t, m))

(* Mutant: one row more, to know whether a page follows. *)
PageAndOneMore(t, p) ==
    {m \in Listed(t) : /\ (p - 1) * PageSize <= Rank(t, m)
                       /\ Rank(t, m) <= p * PageSize}

(* ORDER BY starts_at, id OFFSET (p - 1) * PageSize LIMIT PageSize *)
Page(t, p) ==
    {m \in Listed(t) : /\ (p - 1) * PageSize <= Rank(t, m)
                       /\ Rank(t, m) < p * PageSize}

(* Mutant: rounded down, but one page at least. *)
TotalPagesDown(count) == IF count < PageSize THEN 1 ELSE count \div PageSize

(* PaginatedResponse.create *)
TotalPages(count) == (count + PageSize - 1) \div PageSize

(* What the feed is about: matches to come, and matches that are over.     *)
Awaited(t, m) ==
    /\ Public(t, m)
    /\ \/ t.matches[m].status = "live"
       \/ t.matches[m].status = "scheduled" /\ t.matches[m].starts >= Now

Told(t, m) ==
    Public(t, m) /\ t.matches[m].status = "finished" /\ t.matches[m].starts <= Now

-----------------------------------------------------------------------------
Init ==
    /\ db \in Tables
    /\ pc = "idle"
    /\ session = [m \in {} |-> 0]
    /\ next = NoMatch /\ results = {}
    /\ page = 1 /\ total = 0 /\ got = [m \in Matches |-> 0]
    /\ commits = 0
    /\ steady = {} /\ overtaken = {} /\ receded = {} /\ late = {}

(* The identity map: a row that is loaded already keeps what was read.     *)
Loaded(ms) ==
    [m \in DOMAIN session \cup ms |->
        IF m \in DOMAIN session THEN session[m] ELSE db.matches[m]]

AskForFeed ==
    /\ pc = "idle"
    /\ pc' = "feed"
    /\ steady' = {m \in Matches : Awaited(db, m) \/ Told(db, m)}
    /\ UNCHANGED <<db, feedVars, listVars, commits, overtaken, receded, late>>

SelectNext ==
    /\ pc = "feed"
    /\ pc' = "feedResults"
    /\ next' = NextMatch(db)
    /\ session' = Loaded({next'} \ {NoMatch})
    /\ UNCHANGED <<db, results, listVars, commits, historyVars>>

SelectResults ==
    /\ pc = "feedResults"
    /\ pc' = "feedDone"
    /\ results' = RecentResults(db)
    /\ session' = Loaded(results')
    /\ UNCHANGED <<db, next, listVars, commits, historyVars>>

AskForList ==
    /\ pc = "idle"
    /\ pc' = "count"
    /\ steady' = Listed(db)
    /\ UNCHANGED <<db, feedVars, listVars, commits, overtaken, receded, late>>

(* Mutant: the offset of the last row instead of the number of rows. *)
CountOffset ==
    /\ pc = "count"
    /\ pc' = "select"
    /\ total' = Cardinality(Listed(db)) - 1
    /\ late' = {}
    /\ UNCHANGED <<db, feedVars, page, got, commits, steady, overtaken, receded>>

CountRows ==
    /\ pc = "count"
    /\ pc' = "select"
    /\ total' = Cardinality(Listed(db))
    /\ late' = {}
    /\ UNCHANGED <<db, feedVars, page, got, commits, steady, overtaken, receded>>

(* The answer, and the client's request for the page after it.             *)
SelectPage ==
    /\ pc = "select"
    /\ got' = [m \in Matches |-> IF m \in Page(db, page) THEN got[m] + 1 ELSE got[m]]
    /\ IF page < TotalPages(total)
       THEN pc' = "count" /\ page' = page + 1
       ELSE pc' = "listDone" /\ UNCHANGED page
    /\ UNCHANGED <<db, feedVars, total, commits, historyVars>>

(* What one transaction of an editor or an import makes of the table. *)
Edited ==
    UNION {{[db EXCEPT !.matches =
                [m \in Matches |-> IF m \in ms THEN new[m] ELSE db.matches[m]]] :
                new \in {f \in [ms -> UNION {Rows[m] : m \in ms}] :
                            \A m \in ms : f[m] \in Rows[m]}} : ms \in Together}

Reopened ==
    {[db EXCEPT !.open = IF c \in @ THEN @ \ {c} ELSE @ \cup {c}] : c \in Competitions}

CommitTable ==
    /\ pc \in PC \ {"idle", "feedDone", "listDone"}
    /\ commits < MaxCommits
    /\ commits' = commits + 1
    /\ db' \in Edited \cup Reopened
    /\ IF pc \in {"feed", "feedResults"}
       THEN /\ steady' = {m \in steady : Told(db', m) \/ (Awaited(db', m) /\ ~Told(db, m))}
            /\ UNCHANGED <<overtaken, receded, late>>
       ELSE LET came == {m \in steady : ~(Ahead(db', m) \subseteq Ahead(db, m))}
                left == {m \in steady : ~(Ahead(db, m) \subseteq Ahead(db', m))}
            IN  /\ steady' = steady \cap {m \in Listed(db') :
                                 db'.matches[m].starts = db.matches[m].starts}
                /\ overtaken' = overtaken \cup came
                /\ receded' = receded \cup left
                /\ late' = late \cup came
    /\ UNCHANGED <<pc, feedVars, listVars>>

Next ==
    \/ AskForFeed \/ SelectNext \/ SelectResults
    \/ AskForList \/ CountRows \/ SelectPage
    \/ CommitTable

Spec == Init /\ [][Next]_vars

-----------------------------------------------------------------------------
TypeOK ==
    /\ db \in Tables
    /\ pc \in PC
    /\ DOMAIN session \subseteq Matches
    /\ \A m \in DOMAIN session : session[m] \in MatchRow
    /\ next \in Matches \cup {NoMatch}
    /\ results \subseteq Matches
    /\ page \in Nat \ {0} /\ total \in Nat
    /\ got \in [Matches -> Nat]
    /\ commits \in 0..MaxCommits
    /\ {steady, overtaken, receded, late} \subseteq SUBSET Matches

(* A match that goes from scheduled to live to finished while the feed is  *)
(* put together is not lost between the two SELECTs: a feed without a next *)
(* match and with room for results shows every match that was one or the   *)
(* other all the time.                                                     *)
NothingLost ==
    pc = "feedDone" /\ next = NoMatch /\ Cardinality(results) < Limit =>
        steady \subseteq results

(* A recent result is told with the row of a finished match that has       *)
(* started, unless the feed shows the same match as the next one: then the *)
(* session tells both times what it read first.                            *)
ResultsToldOnce ==
    pc = "feedDone" => \A m \in results \ {next} :
        session[m].status = "finished" /\ session[m].starts <= Now

(* A client that follows the pages is shown every match that is in the     *)
(* list all the time, unless an earlier one left the list meanwhile, or    *)
(* came in between the two SELECTs of the last answer.                     *)
PagesComplete ==
    pc = "listDone" => \A m \in steady : got[m] = 0 => m \in receded \cup late

(* And none of them twice, unless an earlier one came in meanwhile.        *)
PagesDistinct ==
    \A m \in steady : got[m] > 1 => m \in overtaken

-----------------------------------------------------------------------------
(* What holds between the SELECTs. *)

(* Nothing was told before a feed is put together; its first SELECT loads  *)
(* only the next match, and leaves nothing to come if there is none.       *)
FeedInv ==
    /\ pc \in {"idle", "feed"} => DOMAIN session = {}
    /\ pc = "feedResults" => DOMAIN session \subseteq {next}
    /\ pc \in {"feed", "feedResults"} =>
         \A m \in steady : Awaited(db, m) \/ Told(db, m)
    /\ pc = "feedResults" /\ next = NoMatch => \A m \in steady : Told(db, m)

(* Which page a match of the list is on: one that was shown is behind the  *)
(* client and one that was not is ahead, unless another one passed it; and *)
(* the count goes as far as every match that was there when it was taken.  *)
ListInv ==
    /\ pc \in {"idle", "feed", "feedResults", "feedDone"} =>
         page = 1 /\ got = [m \in Matches |-> 0]
    /\ pc \in {"count", "select"} => \A m \in steady :
         /\ m \in Listed(db)
         /\ got[m] > 0 /\ m \notin overtaken =>
               got[m] = 1 /\ Rank(db, m) < (page - 1) * PageSize
         /\ got[m] = 0 /\ m \notin receded => (page - 1) * PageSize <= Rank(db, m)
         /\ pc = "select" /\ m \notin late => Rank(db, m) < total

IInv ==
    /\ TypeOK /\ FeedInv /\ ListInv
    /\ NothingLost /\ ResultsToldOnce /\ PagesComplete /\ PagesDistinct
=============================================================================
