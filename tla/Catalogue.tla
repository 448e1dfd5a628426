----------------------------- MODULE Catalogue -----------------------------
(***************************************************************************)
(* MatchService, CompetitionService and VenueService (modules/matches),    *)
(* PlayerService (modules/club), AchievementService (modules/achievements) *)
(* and a match that an import upserts with its competition and its venue   *)
(* (imports/asb_applier.py), running at the same time over one SQLite      *)
(* database.                                                               *)
(*                                                                         *)
(* Every command has one shape: read the row, check what it refers to, its *)
(* external identity and its columns, flush, record the audit entry,       *)
(* commit.  Everything up to the flush reads without a lock.  A row has    *)
(* the columns the checks look at; a score, like a coordinate, is there or *)
(* not, and `identity' is (source, external_id).  No command edits a team  *)
(* or a media asset.                                                       *)
(***************************************************************************)
EXTENDS SqliteUnitOfWork

CONSTANTS
    Teams, Assets, Competitions, Venues, Matches, Players, Achievements,  \* primary keys
    Identities,
    NoIdentity,     \* external_id IS NULL
    NoReference,    \* venue_id or photo_asset_id IS NULL
    NoRow,          \* a key no row has yet
    Menus,          \* what the requests of one behaviour may ask for
    Catalogues,     \* the rows there may be at the start
    Faults          \* which of {"busy", "crash"} the environment may cause

Commands == UNION Menus

(* The tables with an external identity, and those commands are about.     *)
Identified == Competitions \cup Venues \cup Matches
Edited == Identified \cup Players \cup Achievements
Entities == Edited \cup Teams \cup Assets

Status == {"scheduled", "live", "finished", "postponed", "cancelled"}

TeamRow == [deleted : BOOLEAN]

AssetRow == [deleted : BOOLEAN]

PlayerRow ==
    [team : Teams, photo : Assets \cup {NoReference}, active : BOOLEAN, deleted : BOOLEAN]

AchievementRow == [team : Teams, media : Assets, active : BOOLEAN, deleted : BOOLEAN]

CompetitionRow ==
    [identity : Identities \cup {NoIdentity}, active : BOOLEAN, deleted : BOOLEAN]

VenueRow ==
    [identity : Identities \cup {NoIdentity}, latitude : BOOLEAN, longitude : BOOLEAN,
     active : BOOLEAN, deleted : BOOLEAN]

MatchRow ==
    [identity : Identities \cup {NoIdentity}, status : Status, home : BOOLEAN, away : BOOLEAN,
     team : Teams, competition : Competitions, venue : Venues \cup {NoReference},
     featured : BOOLEAN, deleted : BOOLEAN]

Peers(e) ==
    IF e \in Competitions THEN Competitions ELSE IF e \in Venues THEN Venues ELSE Matches

RowOf(e) ==
    CASE e \in Competitions -> CompetitionRow
      [] e \in Venues -> VenueRow
      [] e \in Matches -> MatchRow
      [] e \in Players -> PlayerRow
      [] e \in Achievements -> AchievementRow
      [] e \in Teams -> TeamRow
      [] e \in Assets -> AssetRow

Rows == CompetitionRow \cup VenueRow \cup MatchRow \cup PlayerRow \cup AchievementRow
            \cup TeamRow \cup AssetRow

(* The columns a row refers to others with, and which of them the services *)
(* look up: the photo of a player is not among them.                       *)
MatchReferences == {"team", "competition", "venue"}
PlayerReferences == {"team"}
AchievementReferences == {"team", "media"}

LookedUp(e) ==
    CASE e \in Matches -> MatchReferences
      [] e \in Players -> PlayerReferences
      [] e \in Achievements -> AchievementReferences
      [] OTHER -> {}

ForeignKeys(e) == IF e \in Players THEN PlayerReferences \cup {"photo"} ELSE LookedUp(e)

References(row, columns) == {row[column] : column \in columns} \ {NoReference}

(* A game ASB reports; `ahead' if it starts after the clock of the import. *)
Game == [identity : Identities, finished : BOOLEAN, ahead : BOOLEAN,
         team : Teams, competition : Competitions, venue : Venues \cup {NoReference}]

(* The competition and the venue of a game. *)
Upserted(game) == {game.competition, game.venue} \ {NoReference}

(* _validate_match *)
ScoreFits(row) ==
    /\ row.home = row.away
    /\ row.status = "finished" => row.home
    /\ row.status \in {"scheduled", "postponed", "cancelled"} => ~row.home

(* Mutant: a PATCH of a match is stored without being validated. *)
AcceptableAny(e, row) == e \in Venues => row.latitude = row.longitude

Acceptable(e, row) ==
    /\ e \in Matches => ScoreFits(row)
    /\ e \in Venues => row.latitude = row.longitude

(* The partial unique index of (source, external_id) keeps deleted rows.   *)
IdentityUnique(rows, e) ==
    e \in Identified /\ rows[e].identity # NoIdentity =>
        \A p \in Peers(e) \ {e} : rows[p] # NoRow => rows[p].identity # rows[e].identity

(* PRAGMA foreign_keys=ON *)
ForeignKeysHold(rows, e) ==
    \A other \in References(rows[e], ForeignKeys(e)) : rows[other] # NoRow

(* What the database accepts: CHECK constraints, indexes, foreign keys.    *)
Storable(rows, e) ==
    /\ e \in Matches => rows[e].home = rows[e].away
    /\ e \in Venues => rows[e].latitude = rows[e].longitude
    /\ IdentityUnique(rows, e)
    /\ ForeignKeysHold(rows, e)

(* The bodies the routers accept: a whole valid row, or some columns of    *)
(* one, none of them cleared that must be there.                           *)
IsCreation(c) ==
    c.payload \in RowOf(c.subject) /\ ~c.payload.deleted /\ Acceptable(c.subject, c.payload)

IsEdit(c) ==
    \E row \in RowOf(c.subject) :
        /\ DOMAIN c.payload \subseteq DOMAIN row \ {"deleted"}
        /\ \A column \in DOMAIN c.payload : c.payload[column] = row[column]

IsCommand(c) ==
    \/ c.op = "create" /\ IsCreation(c)
    \/ c.op = "update" /\ IsEdit(c)
    \/ c.op = "delete"
    \/ c.op = "import" /\ c.subject \in Matches /\ c.payload \in Game

ASSUME CatalogueAssumption ==
    /\ LET tables == <<Teams, Assets, Competitions, Venues, Matches, Players, Achievements>>
       IN  \A i, j \in DOMAIN tables : i # j => tables[i] \cap tables[j] = {}
    /\ NoIdentity \notin Identities
    /\ NoReference \notin Entities
    /\ NoRow \notin Rows \cup Commands
    /\ \A c \in Commands : c.subject \in Edited /\ IsCommand(c)
    /\ \A rows \in Catalogues : \A e \in Entities :
          rows[e] # NoRow =>
              rows[e] \in RowOf(e) /\ Acceptable(e, rows[e]) /\ Storable(rows, e)
    /\ \A menu \in Menus : \A c, d \in menu :
          c.op = "import" /\ d.op = "update" /\ d.subject \in Upserted(c.payload) =>
              "identity" \notin DOMAIN d.payload
    /\ \A rows \in Catalogues : \A a \in Assets : rows[a] # NoRow => ~rows[a].deleted
    /\ Catalogues \subseteq [Entities -> Rows \cup {NoRow}]
    /\ Faults \subseteq {"busy", "crash"}

VARIABLES
    pc,         \* where each request is
    command,    \* what each request asks for; NoRow before it is there
    subject,    \* the row it is about
    seen,       \* that row as the request read it
    result,     \* the row as its answer and its audit entry tell it
    gone        \* history: what is deleted since before a request began

vars == <<storeVars, pc, command, subject, seen, result, gone>>

(* "unanswered": cancelled during its COMMIT. *)
Ended == {"done", "notFound", "refused", "broken", "crashed", "unanswered"}
InFlight == {"finding", "checking", "identifying", "writing", "auditing", "committing"}
PC == {"idle"} \cup InFlight \cup Ended

Entry == [by : Requests, op : {"create", "update", "delete", "import"},
          entity : Entities \cup Requests,
          before : Rows \cup {NoRow}, after : Rows \cup {NoRow}]

Database == [rows : [Entities -> Rows \cup {NoRow}], log : SUBSET Entry]

Init ==
    /\ \E rows \in Catalogues : StoreInit([rows |-> rows, log |-> {}])
    /\ pc = [r \in Requests |-> "idle"]
    /\ command = [r \in Requests |-> NoRow]
    /\ subject = [r \in Requests |-> NoRow]
    /\ seen = [r \in Requests |-> NoRow]
    /\ result = [r \in Requests |-> NoRow]
    /\ gone = [r \in Requests |-> {}]

-----------------------------------------------------------------------------
Goto(r, label) == pc' = [pc EXCEPT ![r] = label]

Op(r) == command[r].op
Row(r) == View(r).rows[subject[r]]
Visible(row) == row # NoRow /\ ~row.deleted

(* The request ends and what it had read goes with it. *)
Leave(r, label) ==
    /\ Goto(r, label)
    /\ seen' = [seen EXCEPT ![r] = NoRow]
    /\ result' = [result EXCEPT ![r] = NoRow]
    /\ gone' = [q \in Requests |->
                   IF q = r THEN {} ELSE {e \in gone[q] : ~Visible(db'.rows[e])}]
    /\ UNCHANGED <<command, subject>>

(* The router has authorised the editor; a new row's key is a fresh uuid4. *)
(* The competition and the venue of a game are known already: ImportJobs   *)
(* models what an import adds.                                             *)
Begin(r) ==
    /\ pc[r] = "idle"
    /\ \E menu \in Menus : \E c \in menu :
         /\ \A q \in Requests : command[q] # NoRow => command[q] \in menu
         /\ c.op \in {"create", "import"} =>
              /\ db.rows[c.subject] = NoRow
              /\ \A q \in Requests : subject[q] # c.subject
         /\ c.op = "import" => \A e \in Upserted(c.payload) : db.rows[e] # NoRow
         /\ command' = [command EXCEPT ![r] = c]
         /\ subject' = [subject EXCEPT ![r] = c.subject]
         /\ gone' = [gone EXCEPT ![r] =
                       {e \in Entities : db.rows[e] # NoRow /\ db.rows[e].deleted}]
         /\ Goto(r, IF c.op = "create" THEN "checking" ELSE "finding")
    /\ UNCHANGED <<storeVars, seen, result>>

(* A row some columns of which an UPDATE sets. *)
With(row, changes, columns) ==
    [column \in DOMAIN row |-> IF column \in columns THEN changes[column] ELSE row[column]]

-----------------------------------------------------------------------------
(* get: deleted rows are not found. *)
FindRow(r) ==
    /\ pc[r] = "finding"
    /\ Op(r) \in {"update", "delete"}
    /\ Visible(Row(r))
    /\ seen' = [seen EXCEPT ![r] = Row(r)]
    /\ Goto(r, IF Op(r) = "delete" THEN "writing" ELSE "checking")
    /\ UNCHANGED <<storeVars, command, subject, result, gone>>

RowNotFound(r) ==
    /\ pc[r] = "finding"
    /\ Op(r) \in {"update", "delete"}
    /\ ~Visible(Row(r))
    /\ ExitWithError(r)
    /\ Leave(r, "notFound")

(* An import looks its team up first; nobody edits teams. *)
TeamFound(r) == Visible(View(r).rows[command[r].payload.team])

TeamNotFound(r) ==
    /\ pc[r] = "finding"
    /\ Op(r) = "import"
    /\ ~TeamFound(r)
    /\ ExitWithError(r)
    /\ Leave(r, "notFound")

(* The lookup of a venue skips deleted ones, so that it is inserted again, *)
(* and the index of its identity refuses it.                               *)
VenueRefused(r) ==
    /\ pc[r] = "finding"
    /\ Op(r) = "import"
    /\ TeamFound(r)
    /\ \E e \in Upserted(command[r].payload) \cap Venues : View(r).rows[e].deleted
    /\ LockFree(r)
    /\ FlushError(r)
    /\ Leave(r, "broken")

(* What an import sets of its competition and its venue, and their rows if *)
(* an UPDATE names these columns.                                          *)
Listed == [active |-> TRUE, deleted |-> FALSE]

Relisted(rows, columns) ==
    [e \in Entities |->
       IF e \in DOMAIN columns THEN With(rows[e], Listed, columns[e]) ELSE rows[e]]

(* The UPDATE names what differed when the import read the row: is_deleted *)
(* of a competition that is deleted since before, of a venue never.        *)
Differs(r, e, columns) ==
    /\ e \in Venues => "deleted" \notin columns
    /\ e \in gone[r] => "deleted" \in columns

(* The items of an import before the match may have been written, and then *)
(* its transaction holds the lock already.                                 *)
ApplyEarlierItems(r) ==
    /\ pc[r] = "finding"
    /\ Op(r) = "import"
    /\ TeamFound(r)
    /\ writer # r
    /\ \E columns \in [Upserted(command[r].payload) -> SUBSET DOMAIN Listed] :
         /\ \A e \in DOMAIN columns : Differs(r, e, columns[e])
         /\ Write(r, [View(r) EXCEPT !.rows = Relisted(@, columns)])
    /\ UNCHANGED <<pc, command, subject, seen, result, gone>>

(* What was deleted already has been written back. *)
EarlierItemsApplied(r) ==
    TeamFound(r) /\ (writer = r \/ Upserted(command[r].payload) \cap gone[r] = {})

(* get_by_external_identity finds deleted matches, too. *)
FindGame(r) ==
    /\ pc[r] = "finding"
    /\ Op(r) = "import"
    /\ EarlierItemsApplied(r)
    /\ \E m \in Matches :
         /\ View(r).rows[m] # NoRow
         /\ View(r).rows[m].identity = command[r].payload.identity
         /\ subject' = [subject EXCEPT ![r] = m]
         /\ seen' = [seen EXCEPT ![r] = View(r).rows[m]]
    /\ Goto(r, "writing")
    /\ UNCHANGED <<storeVars, command, result, gone>>

GameIsNew(r) ==
    /\ pc[r] = "finding"
    /\ Op(r) = "import"
    /\ EarlierItemsApplied(r)
    /\ \A m \in Matches :
         View(r).rows[m] # NoRow => View(r).rows[m].identity # command[r].payload.identity
    /\ Goto(r, "writing")
    /\ UNCHANGED <<storeVars, command, subject, seen, result, gone>>

-----------------------------------------------------------------------------
GameStatus(game) ==
    IF game.finished THEN "finished" ELSE IF game.ahead THEN "scheduled" ELSE "postponed"

GameColumns(game) ==
    [identity |-> game.identity, status |-> GameStatus(game),
     home |-> game.finished, away |-> game.finished,
     team |-> game.team, competition |-> game.competition, venue |-> game.venue,
     deleted |-> FALSE]

SoftDeletion(e) ==
    IF e \in Matches THEN [deleted |-> TRUE, featured |-> FALSE]
                     ELSE [deleted |-> TRUE, active |-> FALSE]

(* The attributes a command sets. *)
Changes(r) ==
    CASE Op(r) = "delete" -> SoftDeletion(subject[r])
      [] Op(r) = "import" -> GameColumns(command[r].payload)
      [] OTHER -> command[r].payload

(* A new row: the columns a game does not give have their defaults.        *)
NewRow(r) ==
    IF Op(r) = "import"
    THEN [column \in DOMAIN GameColumns(command[r].payload) \cup {"featured"} |->
             IF column = "featured" THEN FALSE ELSE GameColumns(command[r].payload)[column]]
    ELSE command[r].payload

(* The ORM object once the attributes are set. *)
Object(r) ==
    IF seen[r] = NoRow THEN NewRow(r) ELSE With(seen[r], Changes(r), DOMAIN Changes(r))

(* Mutant: the whole object is written back. *)
DirtyAll(r) == DOMAIN seen[r]

(* The columns an UPDATE names: those that differ from what was read.      *)
Dirty(r) == {column \in DOMAIN Changes(r) : Changes(r)[column] # seen[r][column]}

NothingDirty(r) == seen[r] # NoRow /\ Dirty(r) = {}

(* The row as INSERT or UPDATE leaves it. *)
Written(r) == IF seen[r] = NoRow THEN NewRow(r) ELSE With(Row(r), Object(r), Dirty(r))

-----------------------------------------------------------------------------
(* _require_references and _require_team: for a new row and for one that   *)
(* is to refer to something else.                                          *)
RequiredReferences(r) ==
    LET columns == LookedUp(subject[r])
    IN  IF seen[r] # NoRow /\ \A column \in columns : Object(r)[column] = seen[r][column]
        THEN {}
        ELSE References(Object(r), columns)

(* Mutant: a row that is deleted is found, too. *)
ReferencesExist(r) == \A e \in RequiredReferences(r) : View(r).rows[e] # NoRow

ReferencesVisible(r) == \A e \in RequiredReferences(r) : Visible(View(r).rows[e])

RequireReferences(r) ==
    /\ pc[r] = "checking"
    /\ ReferencesVisible(r)
    /\ Goto(r, IF subject[r] \in Identified THEN "identifying" ELSE "writing")
    /\ UNCHANGED <<storeVars, command, subject, seen, result, gone>>

ReferenceNotFound(r) ==
    /\ pc[r] = "checking"
    /\ ~ReferencesVisible(r)
    /\ ExitWithError(r)
    /\ Leave(r, "notFound")

(* _ensure_external_identity_available: the lookup skips deleted venues.   *)
IdentityAvailable(r) ==
    Object(r).identity # NoIdentity =>
        \A p \in Peers(subject[r]) \ {subject[r]} :
            LET row == View(r).rows[p]
            IN  row # NoRow /\ (p \in Venues => ~row.deleted)
                    => row.identity # Object(r).identity

Accept(r) ==
    /\ pc[r] = "identifying"
    /\ IdentityAvailable(r)
    /\ Acceptable(subject[r], Object(r))
    /\ Goto(r, "writing")
    /\ UNCHANGED <<storeVars, command, subject, seen, result, gone>>

Refuse(r) ==
    /\ pc[r] = "identifying"
    /\ ~(IdentityAvailable(r) /\ Acceptable(subject[r], Object(r)))
    /\ ExitWithError(r)
    /\ Leave(r, "refused")

-----------------------------------------------------------------------------
(* CompetitionRepository and VenueRepository return the object as it is,   *)
(* the others read the row again after their flush.                        *)
Reloaded == Matches \cup Players \cup Achievements

Answer(r, row) ==
    IF Op(r) \in {"delete", "import"} THEN NoRow
    ELSE IF subject[r] \in Reloaded THEN row ELSE Object(r)

WriteRow(r) ==
    /\ pc[r] = "writing"
    /\ ~NothingDirty(r)
    /\ LET rows == [View(r).rows EXCEPT ![subject[r]] = Written(r)]
       IN  Storable(rows, subject[r]) /\ Write(r, [View(r) EXCEPT !.rows = rows])
    /\ result' = [result EXCEPT ![r] = Answer(r, Written(r))]
    /\ Goto(r, "auditing")
    /\ UNCHANGED <<command, subject, seen, gone>>

(* IntegrityError, which nobody catches. *)
WriteRefused(r) ==
    /\ pc[r] = "writing"
    /\ ~NothingDirty(r)
    /\ LockFree(r)
    /\ ~Storable([View(r).rows EXCEPT ![subject[r]] = Written(r)], subject[r])
    /\ FlushError(r)
    /\ Leave(r, "broken")

(* The flush sends no statement and takes no lock. *)
WriteNothing(r) ==
    /\ pc[r] = "writing"
    /\ NothingDirty(r)
    /\ result' = [result EXCEPT ![r] = Answer(r, Row(r))]
    /\ Goto(r, "auditing")
    /\ UNCHANGED <<storeVars, command, subject, seen, gone>>

(* An import has one entry, about its job. *)
EntryOf(r) ==
    IF Op(r) = "import"
    THEN [by |-> r, op |-> "import", entity |-> r, before |-> NoRow, after |-> NoRow]
    ELSE [by |-> r, op |-> Op(r), entity |-> subject[r], before |-> seen[r], after |-> result[r]]

(* Mutant: the change is committed first and the entry afterwards. *)
RecordAuditLater(r) ==
    /\ pc[r] = "auditing"
    /\ LockFree(r)
    /\ db' = View(r)
    /\ tx' = [View(r) EXCEPT !.log = @ \cup {EntryOf(r)}]
    /\ writer' = r
    /\ Goto(r, "committing")
    /\ UNCHANGED <<session, command, subject, seen, result, gone>>

RecordAudit(r) ==
    /\ pc[r] = "auditing"
    /\ Write(r, [View(r) EXCEPT !.log = @ \cup {EntryOf(r)}])
    /\ Goto(r, "committing")
    /\ UNCHANGED <<command, subject, seen, result, gone>>

CommitChange(r) ==
    /\ pc[r] = "committing"
    /\ Commit(r)
    /\ Leave(r, "done")

-----------------------------------------------------------------------------
(* "database is locked" after busy_timeout. *)
Busy(r) ==
    /\ "busy" \in Faults
    /\ \/ pc[r] = "finding" /\ Op(r) = "import" /\ TeamFound(r)
       \/ pc[r] = "writing" /\ ~NothingDirty(r)
       \/ pc[r] = "auditing"
    /\ LockBusy(r)
    /\ FlushError(r)
    /\ Leave(r, "broken")

Crash(r) ==
    /\ "crash" \in Faults
    /\ pc[r] \in InFlight
    /\ Abandon(r)
    /\ Leave(r, "crashed")

(* Its task is cancelled while COMMIT runs in the driver's thread.         *)
CancelCommit(r) ==
    /\ "crash" \in Faults
    /\ pc[r] = "committing"
    /\ Commit(r)
    /\ Leave(r, "unanswered")

Step(r) ==
    \/ FindRow(r) \/ RowNotFound(r)
    \/ TeamNotFound(r) \/ VenueRefused(r) \/ ApplyEarlierItems(r) \/ FindGame(r) \/ GameIsNew(r)
    \/ RequireReferences(r) \/ ReferenceNotFound(r) \/ Accept(r) \/ Refuse(r)
    \/ WriteRow(r) \/ WriteRefused(r) \/ WriteNothing(r)
    \/ RecordAudit(r) \/ CommitChange(r) \/ Busy(r)

Next == \E r \in Requests : Begin(r) \/ Step(r) \/ Crash(r) \/ CancelCommit(r)

Spec == Init /\ [][Next]_vars

-----------------------------------------------------------------------------
TypeOK ==
    /\ db \in Database /\ tx \in Database
    /\ writer \in Requests \cup {NoRequest}
    /\ session \in [Requests -> SessionState]
    /\ pc \in [Requests -> PC]
    /\ command \in [Requests -> Commands \cup {NoRow}]
    /\ subject \in [Requests -> Entities \cup {NoRow}]
    /\ seen \in [Requests -> Rows \cup {NoRow}]
    /\ result \in [Requests -> Rows \cup {NoRow}]
    /\ gone \in [Requests -> SUBSET Entities]

Committed(r) == pc[r] \in {"done", "unanswered"}

Commits(r) == pc[r] = "committing" /\ Committed(r)'

(* Edits of different columns do not undo each other: whatever other       *)
(* requests committed since the row was read, an update changes no column  *)
(* but those it was asked to.                                              *)
OnlyNamedColumnsChange ==
    [][\A r \in Requests : Commits(r) /\ Op(r) = "update" =>
          \A column \in DOMAIN db.rows[subject[r]] \ DOMAIN command[r].payload :
              db'.rows[subject[r]][column] = db.rows[subject[r]][column]]_vars

(* A match whose score does not fit its status is repaired, or the edit    *)
(* refused, by whoever changes it next: only a request that was overtaken  *)
(* between its read and its commit can leave one.                          *)
UnracedEditsFit ==
    [][\A r \in Requests :
          /\ Commits(r) /\ subject[r] \in Matches /\ Op(r) # "delete"
          /\ db.rows[subject[r]] = seen[r]
          /\ db'.rows[subject[r]] # db.rows[subject[r]]
          => ScoreFits(db'.rows[subject[r]])]_vars

(* References are looked up before the lock and deleting a row asks nobody *)
(* who refers to it; still no command makes a row refer to something that  *)
(* was deleted before the command began and is deleted after it, whatever  *)
(* other edits of the same row are merged with its own.                    *)
NoReferenceToLongGone ==
    [][\A r \in Requests : Commits(r) /\ Op(r) # "delete" =>
          LET e == subject[r]
              kept == IF db.rows[e] = NoRow THEN {} ELSE References(db.rows[e], ForeignKeys(e))
          IN  \A other \in (References(db'.rows[e], ForeignKeys(e)) \ kept) \cap gone[r] :
                  Visible(db'.rows[other])]_vars

History == INSTANCE CatalogueHistory WITH rows <- db.rows, log <- db.log

(* The committed rows and the audit log behave as the history: a command   *)
(* changes one row in the same step as its entry, only deletions and       *)
(* imports touch is_deleted, and the entry of a match, a player or an      *)
(* achievement that changed tells the row that was committed.              *)
ImplementsHistory == History!Spec

(* "A scheduled match cannot have a score", a finished one must have one.  *)
ScoresFit ==
    \A m \in Matches : db.rows[m] # NoRow => ScoreFits(db.rows[m])

-----------------------------------------------------------------------------
(* What every row is, whoever is at work. *)
KeyInv ==
    /\ \A e \in Entities : db.rows[e] # NoRow => db.rows[e] \in RowOf(e)
    /\ \A a \in Assets : db.rows[a] # NoRow => ~db.rows[a].deleted

(* Where a request may hold the lock, and where it must. *)
LockInv(r) ==
    /\ pc[r] = "committing" => writer = r
    /\ pc[r] = "auditing" /\ writer # r => NothingDirty(r)
    /\ writer = r => \/ pc[r] \in {"auditing", "committing"}
                     \/ pc[r] \in {"finding", "writing"} /\ Op(r) = "import"

(* A request that is to add a row. *)
Adds(r) == pc[r] \in InFlight /\ seen[r] = NoRow /\ Op(r) \in {"create", "import"}

(* What a request knows of its row: it is still there, or still is not.    *)
SeenInv(r) ==
    /\ pc[r] = "idle" <=> command[r] = NoRow
    /\ pc[r] \notin InFlight => seen[r] = NoRow
    /\ pc[r] \in InFlight => command[r] \in Commands /\ subject[r] \in Edited
    /\ pc[r] \in InFlight /\ Op(r) # "import" => subject[r] = command[r].subject
    /\ pc[r] \in InFlight /\ Op(r) = "import" =>
         /\ subject[r] \in Matches
         /\ \A e \in Upserted(command[r].payload) : db.rows[e] # NoRow
    /\ pc[r] = "finding" => seen[r] = NoRow /\ Op(r) # "create"
    /\ pc[r] \in {"checking", "identifying"} => Op(r) \in {"create", "update"}
    /\ pc[r] \in InFlight \ {"finding"} /\ Op(r) \in {"update", "delete"} => seen[r] # NoRow
    /\ pc[r] \in InFlight /\ Op(r) = "create" => seen[r] = NoRow
    /\ seen[r] # NoRow => /\ seen[r] \in RowOf(subject[r])
                          /\ db.rows[subject[r]] # NoRow
                          /\ Op(r) = "delete" => ~seen[r].deleted
    /\ Adds(r) => db.rows[subject[r]] = NoRow

(* What its checks have shown: what they asked for was not deleted when it *)
(* began, and the row it will write was acceptable.                        *)
CheckedInv(r) ==
    /\ pc[r] \in {"identifying", "writing", "auditing", "committing"}
         /\ Op(r) \in {"create", "update"} => RequiredReferences(r) \cap gone[r] = {}
    /\ pc[r] \in {"writing", "auditing", "committing"}
         /\ Op(r) \in {"create", "update"} /\ subject[r] \in Identified =>
             Acceptable(subject[r], Object(r))
    /\ pc[r] \in {"writing", "auditing", "committing"} /\ Op(r) = "import" =>
         command[r].payload.team \notin gone[r]

(* What was deleted when a request began, and was not brought back.        *)
GoneInv(r) == \A e \in gone[r] : db.rows[e] # NoRow /\ db.rows[e].deleted

(* What its commit makes of the row: the columns it writes, over whatever  *)
(* others have committed.                                                  *)
Outcome(r) ==
    IF seen[r] = NoRow THEN NewRow(r) ELSE With(db.rows[subject[r]], Object(r), Dirty(r))

(* What the answer and the entry tell: that row, where it is sure to.      *)
AnswerInv(r) ==
    pc[r] \in {"auditing", "committing"} =>
        /\ Op(r) \in {"delete", "import"} => result[r] = NoRow
        /\ Op(r) = "create" => result[r] = NewRow(r)
        /\ Op(r) = "update" /\ subject[r] \in Reloaded /\ ~NothingDirty(r) =>
             result[r] = Outcome(r)

(* The competition or venue of an import as its transaction leaves it.     *)
Relisting(r, e) ==
    \E columns \in SUBSET DOMAIN Listed :
        tx.rows[e] = With(db.rows[e], Listed, columns) /\ Differs(r, e, columns)

(* What its transaction holds that is not committed yet.                   *)
PendingInv(r) ==
    /\ writer = r =>
        /\ \A e \in Entities \ {subject[r]} :
             \/ tx.rows[e] = db.rows[e]
             \/ Op(r) = "import" /\ e \in Upserted(command[r].payload) /\ Relisting(r, e)
        /\ tx.rows[subject[r]] =
             IF pc[r] \in {"auditing", "committing"} THEN Outcome(r) ELSE db.rows[subject[r]]
        /\ tx.log = IF pc[r] = "committing" THEN db.log \cup {EntryOf(r)} ELSE db.log
    /\ (writer = r \/ pc[r] \in {"writing", "auditing", "committing"}) /\ Op(r) = "import" =>
        \A e \in Upserted(command[r].payload) \cap gone[r] : writer = r /\ Visible(tx.rows[e])

RequestInv(r) ==
    LockInv(r) /\ SeenInv(r) /\ CheckedInv(r) /\ GoneInv(r) /\ AnswerInv(r) /\ PendingInv(r)

AddedApart ==
    \A r, q \in Requests : r # q /\ Adds(r) /\ Adds(q) => subject[r] # subject[q]

LogInv == \A entry \in db.log : Committed(entry.by)

(* How the places of the requests, the lock and the rows go together. *)
IInv ==
    /\ TypeOK /\ KeyInv /\ NothingPendingWithoutWriter /\ AddedApart /\ LogInv
    /\ \A r \in Requests : RequestInv(r)
=============================================================================
