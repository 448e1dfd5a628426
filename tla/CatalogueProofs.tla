-------------------------- MODULE CatalogueProofs --------------------------
(* Theorems about Catalogue for any tables, requests and faults.           *)
EXTENDS Catalogue, Integers, TLAPS

-----------------------------------------------------------------------------
(* The tables have no key in common. *)
LEMMA TablesApart ==
    /\ Teams \cap Assets = {} /\ Teams \cap Competitions = {} /\ Teams \cap Venues = {}
    /\ Teams \cap Matches = {} /\ Teams \cap Players = {} /\ Teams \cap Achievements = {}
    /\ Assets \cap Competitions = {} /\ Assets \cap Venues = {} /\ Assets \cap Matches = {}
    /\ Assets \cap Players = {} /\ Assets \cap Achievements = {}
    /\ Competitions \cap Venues = {} /\ Competitions \cap Matches = {}
    /\ Competitions \cap Players = {} /\ Competitions \cap Achievements = {}
    /\ Venues \cap Matches = {} /\ Venues \cap Players = {} /\ Venues \cap Achievements = {}
    /\ Matches \cap Players = {} /\ Matches \cap Achievements = {}
    /\ Players \cap Achievements = {}
<1> DEFINE tables == <<Teams, Assets, Competitions, Venues, Matches, Players, Achievements>>
<1>1. \A i, j \in 1..7 : i # j => tables[i] \cap tables[j] = {}
  BY CatalogueAssumption
<1> QED
  BY <1>1

(* So every key has the rows, the references and the commands of one.      *)
LEMMA TableOf ==
    ASSUME NEW e
    PROVE  /\ e \in Competitions => RowOf(e) = CompetitionRow /\ LookedUp(e) = {}
                                     /\ ForeignKeys(e) = {}
           /\ e \in Venues => RowOf(e) = VenueRow /\ LookedUp(e) = {} /\ ForeignKeys(e) = {}
           /\ e \in Matches => RowOf(e) = MatchRow /\ LookedUp(e) = MatchReferences
                                /\ ForeignKeys(e) = MatchReferences
           /\ e \in Players => RowOf(e) = PlayerRow /\ LookedUp(e) = PlayerReferences
                                /\ ForeignKeys(e) = PlayerReferences \cup {"photo"}
           /\ e \in Achievements => RowOf(e) = AchievementRow
                                     /\ LookedUp(e) = AchievementReferences
                                     /\ ForeignKeys(e) = AchievementReferences
           /\ e \in Teams => RowOf(e) = TeamRow
           /\ e \in Assets => RowOf(e) = AssetRow
<1>1. CASE e \in Competitions
  BY <1>1, TablesApart DEF RowOf, LookedUp, ForeignKeys
<1>2. CASE e \in Venues
  BY <1>2, TablesApart DEF RowOf, LookedUp, ForeignKeys
<1>3. CASE e \in Matches
  BY <1>3, TablesApart DEF RowOf, LookedUp, ForeignKeys
<1>4. CASE e \in Players
  BY <1>4, TablesApart DEF RowOf, LookedUp, ForeignKeys
<1>5. CASE e \in Achievements
  BY <1>5, TablesApart DEF RowOf, LookedUp, ForeignKeys
<1>6. CASE e \in Teams
  BY <1>6, TablesApart DEF RowOf
<1>7. CASE e \in Assets
  BY <1>7, TablesApart DEF RowOf
<1> QED
  BY <1>1, <1>2, <1>3, <1>4, <1>5, <1>6, <1>7, TablesApart

(* The rows of a table are rows; none is the missing one.                  *)
LEMMA RowsOfTables ==
    ASSUME NEW e \in Entities
    PROVE  RowOf(e) \subseteq Rows /\ NoRow \notin RowOf(e)
<1>1. NoRow \notin Rows
  BY CatalogueAssumption
<1> QED
  BY <1>1, TableOf DEF Entities, Edited, Identified, Rows

(* What commands are about, and the rest, are keys.                        *)
LEMMA EntitiesOf == /\ Edited \subseteq Entities /\ Identified \subseteq Edited
                    /\ Competitions \cup Venues \cup Matches \cup Players \cup Achievements
                          \subseteq Edited
                    /\ Teams \cup Assets \subseteq Entities /\ Assets \cap Edited = {}
                    /\ Teams \cap Edited = {}
BY TablesApart DEF Entities, Edited, Identified

-----------------------------------------------------------------------------
(* Two rows of one table have the same columns, and their mixture is a row *)
(* of the table again.                                                     *)
LEMMA RowColumns ==
    ASSUME NEW e \in Entities, NEW row \in RowOf(e)
    PROVE  /\ row = [column \in DOMAIN row |-> row[column]]
           /\ "deleted" \in DOMAIN row /\ row.deleted \in BOOLEAN
           /\ \A other \in RowOf(e) : DOMAIN other = DOMAIN row
<1>1. CASE e \in Competitions
  <2>1. RowOf(e) = CompetitionRow
    BY <1>1, TableOf
  <2>2. "deleted" \in DOMAIN row /\ row.deleted \in BOOLEAN
    BY <2>1 DEF CompetitionRow
  <2>3. \A other \in RowOf(e) : DOMAIN other = DOMAIN row
    BY <2>1 DEF CompetitionRow
  <2>4. row = [column \in DOMAIN row |-> row[column]]
    BY <2>1 DEF CompetitionRow
  <2> QED
    BY <2>2, <2>3, <2>4
<1>2. CASE e \in Venues
  <2>1. RowOf(e) = VenueRow
    BY <1>2, TableOf
  <2>2. "deleted" \in DOMAIN row /\ row.deleted \in BOOLEAN
    BY <2>1 DEF VenueRow
  <2>3. \A other \in RowOf(e) : DOMAIN other = DOMAIN row
    BY <2>1 DEF VenueRow
  <2>4. row = [column \in DOMAIN row |-> row[column]]
    BY <2>1 DEF VenueRow
  <2> QED
    BY <2>2, <2>3, <2>4
<1>3. CASE e \in Matches
  <2>1. RowOf(e) = MatchRow
    BY <1>3, TableOf
  <2>2. "deleted" \in DOMAIN row /\ row.deleted \in BOOLEAN
    BY <2>1 DEF MatchRow
  <2>3. \A other \in RowOf(e) : DOMAIN other = DOMAIN row
    BY <2>1 DEF MatchRow
  <2>4. row = [column \in DOMAIN row |-> row[column]]
    BY <2>1 DEF MatchRow
  <2> QED
    BY <2>2, <2>3, <2>4
<1>4. CASE e \in Players
  <2>1. RowOf(e) = PlayerRow
    BY <1>4, TableOf
  <2>2. "deleted" \in DOMAIN row /\ row.deleted \in BOOLEAN
    BY <2>1 DEF PlayerRow
  <2>3. \A other \in RowOf(e) : DOMAIN other = DOMAIN row
    BY <2>1 DEF PlayerRow
  <2>4. row = [column \in DOMAIN row |-> row[column]]
    BY <2>1 DEF PlayerRow
  <2> QED
    BY <2>2, <2>3, <2>4
<1>5. CASE e \in Achievements
  <2>1. RowOf(e) = AchievementRow
    BY <1>5, TableOf
  <2>2. "deleted" \in DOMAIN row /\ row.deleted \in BOOLEAN
    BY <2>1 DEF AchievementRow
  <2>3. \A other \in RowOf(e) : DOMAIN other = DOMAIN row
    BY <2>1 DEF AchievementRow
  <2>4. row = [column \in DOMAIN row |-> row[column]]
    BY <2>1 DEF AchievementRow
  <2> QED
    BY <2>2, <2>3, <2>4
<1>6. CASE e \in Teams
  <2>1. RowOf(e) = TeamRow
    BY <1>6, TableOf
  <2>2. "deleted" \in DOMAIN row /\ row.deleted \in BOOLEAN
    BY <2>1 DEF TeamRow
  <2>3. \A other \in RowOf(e) : DOMAIN other = DOMAIN row
    BY <2>1 DEF TeamRow
  <2>4. row = [column \in DOMAIN row |-> row[column]]
    BY <2>1 DEF TeamRow
  <2> QED
    BY <2>2, <2>3, <2>4
<1>7. CASE e \in Assets
  <2>1. RowOf(e) = AssetRow
    BY <1>7, TableOf
  <2>2. "deleted" \in DOMAIN row /\ row.deleted \in BOOLEAN
    BY <2>1 DEF AssetRow
  <2>3. \A other \in RowOf(e) : DOMAIN other = DOMAIN row
    BY <2>1 DEF AssetRow
  <2>4. row = [column \in DOMAIN row |-> row[column]]
    BY <2>1 DEF AssetRow
  <2> QED
    BY <2>2, <2>3, <2>4
<1> QED
  BY <1>1, <1>2, <1>3, <1>4, <1>5, <1>6, <1>7 DEF Entities, Edited, Identified

(* A row some columns of which come from another one of its table.         *)
LEMMA MixedRow ==
    ASSUME NEW e \in Entities, NEW row \in RowOf(e), NEW other \in RowOf(e), NEW columns
    PROVE  With(row, other, columns) \in RowOf(e)
<1>1. CASE e \in Competitions
  <2>1. row \in CompetitionRow /\ other \in CompetitionRow
    BY <1>1, TableOf
  <2>2. With(row, other, columns) \in CompetitionRow
    BY <2>1 DEF With, CompetitionRow
  <2> QED
    BY <1>1, <2>2, TableOf
<1>2. CASE e \in Venues
  <2>1. row \in VenueRow /\ other \in VenueRow
    BY <1>2, TableOf
  <2>2. With(row, other, columns) \in VenueRow
    BY <2>1 DEF With, VenueRow
  <2> QED
    BY <1>2, <2>2, TableOf
<1>3. CASE e \in Matches
  <2>1. row \in MatchRow /\ other \in MatchRow
    BY <1>3, TableOf
  <2>2. With(row, other, columns) \in MatchRow
    BY <2>1 DEF With, MatchRow
  <2> QED
    BY <1>3, <2>2, TableOf
<1>4. CASE e \in Players
  <2>1. row \in PlayerRow /\ other \in PlayerRow
    BY <1>4, TableOf
  <2>2. With(row, other, columns) \in PlayerRow
    BY <2>1 DEF With, PlayerRow
  <2> QED
    BY <1>4, <2>2, TableOf
<1>5. CASE e \in Achievements
  <2>1. row \in AchievementRow /\ other \in AchievementRow
    BY <1>5, TableOf
  <2>2. With(row, other, columns) \in AchievementRow
    BY <2>1 DEF With, AchievementRow
  <2> QED
    BY <1>5, <2>2, TableOf
<1>6. CASE e \in Teams
  <2>1. row \in TeamRow /\ other \in TeamRow
    BY <1>6, TableOf
  <2>2. With(row, other, columns) \in TeamRow
    BY <2>1 DEF With, TeamRow
  <2> QED
    BY <1>6, <2>2, TableOf
<1>7. CASE e \in Assets
  <2>1. row \in AssetRow /\ other \in AssetRow
    BY <1>7, TableOf
  <2>2. With(row, other, columns) \in AssetRow
    BY <2>1 DEF With, AssetRow
  <2> QED
    BY <1>7, <2>2, TableOf
<1> QED
  BY <1>1, <1>2, <1>3, <1>4, <1>5, <1>6, <1>7 DEF Entities, Edited, Identified

(* The columns an UPDATE names are new, the others stay.                   *)
LEMMA WithColumns ==
    ASSUME NEW row, NEW changes, NEW columns
    PROVE  /\ DOMAIN With(row, changes, columns) = DOMAIN row
           /\ \A column \in DOMAIN row : With(row, changes, columns)[column] =
                IF column \in columns THEN changes[column] ELSE row[column]
BY DEF With

(* An UPDATE of no column. *)
LEMMA WithNothing ==
    ASSUME NEW e \in Entities, NEW row \in RowOf(e), NEW changes
    PROVE  With(row, changes, {}) = row
BY RowColumns DEF With

(* So is a row some columns of which are set as in another one.            *)
LEMMA ChangedRow ==
    ASSUME NEW e \in Entities, NEW row \in RowOf(e), NEW other \in RowOf(e), NEW changes,
           \A column \in DOMAIN changes : changes[column] = other[column]
    PROVE  With(row, changes, DOMAIN changes) \in RowOf(e)
<1>1. With(row, changes, DOMAIN changes) = With(row, other, DOMAIN changes)
  BY DEF With
<1> QED
  BY <1>1, MixedRow

(* What the routers let through.                                           *)
LEMMA CommandFacts ==
    ASSUME NEW c \in Commands
    PROVE  /\ c # NoRow /\ c.subject \in Edited
           /\ c.op \in {"create", "update", "delete", "import"}
           /\ c.op = "create" => IsCreation(c)
           /\ c.op = "update" => IsEdit(c)
           /\ c.op = "import" => c.subject \in Matches /\ c.payload \in Game
BY CatalogueAssumption DEF IsCommand

-----------------------------------------------------------------------------
(* What a game gives is a row of a match, new or of one that is there.     *)
LEMMA GameRow ==
    ASSUME NEW r \in Requests, Op(r) = "import", command[r].payload \in Game
    PROVE  /\ NewRow(r) \in MatchRow
           /\ DOMAIN GameColumns(command[r].payload) =
                {"identity", "status", "home", "away", "team", "competition", "venue", "deleted"}
           /\ \A column \in DOMAIN GameColumns(command[r].payload) :
                NewRow(r)[column] = GameColumns(command[r].payload)[column]
<1> DEFINE game == command[r].payload
<1>1. GameStatus(game) \in Status
  BY DEF Status, GameStatus
<1>2. /\ GameColumns(game).identity \in Identities /\ GameColumns(game).status \in Status
      /\ GameColumns(game).home \in BOOLEAN /\ GameColumns(game).away \in BOOLEAN
      /\ GameColumns(game).team \in Teams /\ GameColumns(game).competition \in Competitions
      /\ GameColumns(game).venue \in Venues \cup {NoReference}
      /\ GameColumns(game).deleted = FALSE
  BY <1>1 DEF GameColumns, Game
<1>3. DOMAIN GameColumns(game) =
        {"identity", "status", "home", "away", "team", "competition", "venue", "deleted"}
  BY DEF GameColumns
<1>4. NewRow(r) = [column \in DOMAIN GameColumns(game) \cup {"featured"} |->
                     IF column = "featured" THEN FALSE ELSE GameColumns(game)[column]]
  BY DEF NewRow
<1>5. \A column \in DOMAIN GameColumns(game) : NewRow(r)[column] = GameColumns(game)[column]
  BY <1>3, <1>4
<1>6. NewRow(r).featured = FALSE
  BY <1>4
<1>7. DOMAIN NewRow(r) = {"identity", "status", "home", "away", "team", "competition", "venue",
                          "featured", "deleted"}
  BY <1>3, <1>4
<1>8. NewRow(r) \in MatchRow
  <2> HIDE DEF game
  <2>1. /\ NewRow(r).identity \in Identities /\ NewRow(r).status \in Status
        /\ NewRow(r).home \in BOOLEAN /\ NewRow(r).away \in BOOLEAN
        /\ NewRow(r).team \in Teams /\ NewRow(r).competition \in Competitions
        /\ NewRow(r).venue \in Venues \cup {NoReference}
        /\ NewRow(r).deleted = FALSE /\ NewRow(r).featured = FALSE
    BY <1>2, <1>3, <1>5, <1>6
  <2>2. NewRow(r) = [column \in {"identity", "status", "home", "away", "team", "competition",
                                 "venue", "featured", "deleted"} |-> NewRow(r)[column]]
    BY <1>4, <1>7
  <2> QED
    BY <2>1, <2>2 DEF MatchRow
<1> QED
  BY <1>3, <1>5, <1>8

(* What a deletion sets, some row of the table has. *)
LEMMA DeletedRow ==
    ASSUME NEW e \in Edited, NEW row \in RowOf(e)
    PROVE  /\ DOMAIN SoftDeletion(e) \subseteq DOMAIN row
           /\ \E other \in RowOf(e) : \A column \in DOMAIN SoftDeletion(e) :
                SoftDeletion(e)[column] = other[column]
<1>1. CASE e \in Competitions
  <2> DEFINE other == [identity |-> row.identity, active |-> FALSE, deleted |-> TRUE]
  <2>1. row \in CompetitionRow /\ RowOf(e) = CompetitionRow
    BY <1>1, TableOf
  <2>2. other \in RowOf(e)
    BY <2>1 DEF CompetitionRow
  <2>3. SoftDeletion(e) = [deleted |-> TRUE, active |-> FALSE]
    BY <1>1, TablesApart DEF SoftDeletion
  <2>4. \A column \in DOMAIN SoftDeletion(e) : SoftDeletion(e)[column] = other[column]
    <3>1. /\ DOMAIN SoftDeletion(e) = {"deleted", "active"}
          /\ SoftDeletion(e)["deleted"] = TRUE /\ SoftDeletion(e)["active"] = FALSE
      BY <2>3
    <3>2. other["deleted"] = TRUE /\ other["active"] = FALSE
      OBVIOUS
    <3> QED
      BY <3>1, <3>2
  <2>5. DOMAIN SoftDeletion(e) \subseteq DOMAIN row
    BY <2>1, <2>3 DEF CompetitionRow
  <2> QED
    BY <2>2, <2>4, <2>5
<1>2. CASE e \in Venues
  <2> DEFINE other == [identity |-> row.identity, latitude |-> row.latitude, longitude |-> row.longitude, active |-> FALSE, deleted |-> TRUE]
  <2>1. row \in VenueRow /\ RowOf(e) = VenueRow
    BY <1>2, TableOf
  <2>2. other \in RowOf(e)
    BY <2>1 DEF VenueRow
  <2>3. SoftDeletion(e) = [deleted |-> TRUE, active |-> FALSE]
    BY <1>2, TablesApart DEF SoftDeletion
  <2>4. \A column \in DOMAIN SoftDeletion(e) : SoftDeletion(e)[column] = other[column]
    <3>1. /\ DOMAIN SoftDeletion(e) = {"deleted", "active"}
          /\ SoftDeletion(e)["deleted"] = TRUE /\ SoftDeletion(e)["active"] = FALSE
      BY <2>3
    <3>2. other["deleted"] = TRUE /\ other["active"] = FALSE
      OBVIOUS
    <3> QED
      BY <3>1, <3>2
  <2>5. DOMAIN SoftDeletion(e) \subseteq DOMAIN row
    BY <2>1, <2>3 DEF VenueRow
  <2> QED
    BY <2>2, <2>4, <2>5
<1>3. CASE e \in Matches
  <2> DEFINE other == [identity |-> row.identity, status |-> row.status, home |-> row.home, away |-> row.away, 
                        team |-> row.team, competition |-> row.competition, venue |-> row.venue, featured |-> FALSE, deleted |-> TRUE]
  <2>1. row \in MatchRow /\ RowOf(e) = MatchRow
    BY <1>3, TableOf
  <2>2. other \in RowOf(e)
    BY <2>1 DEF MatchRow
  <2>3. SoftDeletion(e) = [deleted |-> TRUE, featured |-> FALSE]
    BY <1>3, TablesApart DEF SoftDeletion
  <2>4. \A column \in DOMAIN SoftDeletion(e) : SoftDeletion(e)[column] = other[column]
    <3>1. /\ DOMAIN SoftDeletion(e) = {"deleted", "featured"}
          /\ SoftDeletion(e)["deleted"] = TRUE /\ SoftDeletion(e)["featured"] = FALSE
      BY <2>3
    <3>2. other["deleted"] = TRUE /\ other["featured"] = FALSE
      OBVIOUS
    <3> QED
      BY <3>1, <3>2
  <2>5. DOMAIN SoftDeletion(e) \subseteq DOMAIN row
    BY <2>1, <2>3 DEF MatchRow
  <2> QED
    BY <2>2, <2>4, <2>5
<1>4. CASE e \in Players
  <2> DEFINE other == [team |-> row.team, photo |-> row.photo, active |-> FALSE, deleted |-> TRUE]
  <2>1. row \in PlayerRow /\ RowOf(e) = PlayerRow
    BY <1>4, TableOf
  <2>2. other \in RowOf(e)
    BY <2>1 DEF PlayerRow
  <2>3. SoftDeletion(e) = [deleted |-> TRUE, active |-> FALSE]
    BY <1>4, TablesApart DEF SoftDeletion
  <2>4. \A column \in DOMAIN SoftDeletion(e) : SoftDeletion(e)[column] = other[column]
    <3>1. /\ DOMAIN SoftDeletion(e) = {"deleted", "active"}
          /\ SoftDeletion(e)["deleted"] = TRUE /\ SoftDeletion(e)["active"] = FALSE
      BY <2>3
    <3>2. other["deleted"] = TRUE /\ other["active"] = FALSE
      OBVIOUS
    <3> QED
      BY <3>1, <3>2
  <2>5. DOMAIN SoftDeletion(e) \subseteq DOMAIN row
    BY <2>1, <2>3 DEF PlayerRow
  <2> QED
    BY <2>2, <2>4, <2>5
<1>5. CASE e \in Achievements
  <2> DEFINE other == [team |-> row.team, media |-> row.media, active |-> FALSE, deleted |-> TRUE]
  <2>1. row \in AchievementRow /\ RowOf(e) = AchievementRow
    BY <1>5, TableOf
  <2>2. other \in RowOf(e)
    BY <2>1 DEF AchievementRow
  <2>3. SoftDeletion(e) = [deleted |-> TRUE, active |-> FALSE]
    BY <1>5, TablesApart DEF SoftDeletion
  <2>4. \A column \in DOMAIN SoftDeletion(e) : SoftDeletion(e)[column] = other[column]
    <3>1. /\ DOMAIN SoftDeletion(e) = {"deleted", "active"}
          /\ SoftDeletion(e)["deleted"] = TRUE /\ SoftDeletion(e)["active"] = FALSE
      BY <2>3
    <3>2. other["deleted"] = TRUE /\ other["active"] = FALSE
      OBVIOUS
    <3> QED
      BY <3>1, <3>2
  <2>5. DOMAIN SoftDeletion(e) \subseteq DOMAIN row
    BY <2>1, <2>3 DEF AchievementRow
  <2> QED
    BY <2>2, <2>4, <2>5
<1> QED
  BY <1>1, <1>2, <1>3, <1>4, <1>5 DEF Edited, Identified

(* The row of a request once it knows what it is about. *)
LEMMA ObjectRow ==
    ASSUME NEW r \in Requests, SeenInv(r), pc[r] \in InFlight \ {"finding"}
    PROVE  /\ subject[r] \in Entities
           /\ seen[r] = NoRow => NewRow(r) \in RowOf(subject[r]) /\ Object(r) = NewRow(r)
           /\ seen[r] # NoRow => /\ seen[r] \in RowOf(subject[r])
                                 /\ DOMAIN Changes(r) \subseteq DOMAIN seen[r]
                                 /\ Object(r) = With(seen[r], Changes(r), DOMAIN Changes(r))
           /\ Object(r) \in RowOf(subject[r])
<1> DEFINE e == subject[r]  c == command[r]
<1>1. e \in Edited /\ e \in Entities /\ c \in Commands
  BY EntitiesOf DEF SeenInv
<1>2. CASE seen[r] = NoRow
  <2>1. Op(r) \in {"create", "import"}
    BY <1>1, <1>2, CommandFacts DEF SeenInv, Op
  <2>2. CASE Op(r) = "create"
    BY <1>1, <1>2, <2>2, CommandFacts DEF SeenInv, Op, IsCreation, NewRow, Object
  <2>3. CASE Op(r) = "import"
    <3>1. e \in Matches /\ c.payload \in Game
      BY <1>1, <2>3, CommandFacts DEF SeenInv, Op
    <3>2. NewRow(r) \in RowOf(e)
      BY <2>3, <3>1, GameRow, TableOf
    <3> QED
      BY <1>1, <1>2, <3>2 DEF Object
  <2> QED
    BY <2>1, <2>2, <2>3
<1>3. CASE seen[r] # NoRow
  <2>1. seen[r] \in RowOf(e)
    BY <1>3 DEF SeenInv
  <2>2. PICK other \in RowOf(e) : /\ DOMAIN Changes(r) \subseteq DOMAIN seen[r]
                                  /\ \A column \in DOMAIN Changes(r) :
                                       Changes(r)[column] = other[column]
    <3>1. Op(r) \in {"update", "delete", "import"}
      BY <1>1, <1>3, CommandFacts DEF SeenInv, Op
    <3>2. CASE Op(r) = "update"
      <4>1. PICK other \in RowOf(e) :
              /\ DOMAIN c.payload \subseteq DOMAIN other \ {"deleted"}
              /\ \A column \in DOMAIN c.payload : c.payload[column] = other[column]
        BY <1>1, <3>2, CommandFacts DEF SeenInv, Op, IsEdit
      <4>2. DOMAIN other = DOMAIN seen[r]
        BY <1>1, <2>1, RowColumns
      <4> QED
        BY <3>2, <4>1, <4>2 DEF Changes
    <3>3. CASE Op(r) = "delete"
      BY <1>1, <2>1, <3>3, DeletedRow DEF Changes
    <3>4. CASE Op(r) = "import"
      <4>1. e \in Matches /\ c.payload \in Game
        BY <1>1, <3>4, CommandFacts DEF SeenInv, Op
      <4>2. seen[r] \in MatchRow /\ NewRow(r) \in RowOf(e) /\ Changes(r) = GameColumns(c.payload)
        BY <2>1, <3>4, <4>1, GameRow, TableOf DEF Changes
      <4>3. DOMAIN GameColumns(c.payload) \subseteq DOMAIN seen[r]
        BY <3>4, <4>1, <4>2, GameRow DEF MatchRow
      <4> QED
        BY <3>4, <4>1, <4>2, <4>3, GameRow
    <3> QED
      BY <3>1, <3>2, <3>3, <3>4
  <2>3. Object(r) = With(seen[r], Changes(r), DOMAIN Changes(r))
    BY <1>3 DEF Object
  <2>4. Object(r) \in RowOf(e)
    BY <1>1, <2>1, <2>2, <2>3, ChangedRow
  <2> QED
    BY <1>1, <1>3, <2>1, <2>2, <2>3, <2>4
<1> QED
  BY <1>2, <1>3

(* Column by column, what its commit makes of the row. *)
LEMMA OutcomeRow ==
    ASSUME NEW r \in Requests, SeenInv(r), KeyInv, pc[r] \in InFlight \ {"finding"}
    PROVE  /\ Outcome(r) \in RowOf(subject[r]) /\ Outcome(r) # NoRow /\ Outcome(r) \in Rows
           /\ seen[r] = NoRow => Outcome(r) = NewRow(r)
           /\ seen[r] # NoRow =>
                LET row == db.rows[subject[r]]
                IN  /\ row \in RowOf(subject[r]) /\ row # NoRow
                    /\ DOMAIN Outcome(r) = DOMAIN row /\ DOMAIN seen[r] = DOMAIN row
                    /\ DOMAIN Object(r) = DOMAIN row
                    /\ Dirty(r) \subseteq DOMAIN Changes(r)
                    /\ \A column \in DOMAIN row : Outcome(r)[column] =
                         IF column \in Dirty(r) THEN Changes(r)[column] ELSE row[column]
                    /\ \A column \in DOMAIN row : Object(r)[column] =
                         IF column \in Dirty(r) THEN Changes(r)[column] ELSE seen[r][column]
                    /\ Dirty(r) = {} => Outcome(r) = row
<1> DEFINE e == subject[r]  row == db.rows[e]
<1>1. e \in Entities /\ Object(r) \in RowOf(e)
  BY ObjectRow
<1>2. CASE seen[r] = NoRow
  BY <1>1, <1>2, ObjectRow, RowsOfTables DEF Outcome
<1>3. CASE seen[r] # NoRow
  <2>1. row \in RowOf(e) /\ row # NoRow /\ seen[r] \in RowOf(e)
    BY <1>1, <1>3 DEF SeenInv, KeyInv
  <2>2. Outcome(r) = With(row, Object(r), Dirty(r))
    BY <1>3 DEF Outcome
  <2>3. Outcome(r) \in RowOf(e)
    BY <1>1, <2>1, <2>2, MixedRow
  <2>4. DOMAIN seen[r] = DOMAIN row /\ DOMAIN Object(r) = DOMAIN row
    BY <1>1, <2>1, RowColumns
  <2>5. /\ DOMAIN Changes(r) \subseteq DOMAIN seen[r]
        /\ Object(r) = With(seen[r], Changes(r), DOMAIN Changes(r))
    BY <1>3, ObjectRow
  <2>6. \A column \in DOMAIN row : Object(r)[column] =
          IF column \in DOMAIN Changes(r) THEN Changes(r)[column] ELSE seen[r][column]
    BY <2>4, <2>5, WithColumns
  <2>7. \A column \in DOMAIN row : Object(r)[column] =
          IF column \in Dirty(r) THEN Changes(r)[column] ELSE seen[r][column]
    BY <2>6 DEF Dirty
  <2>8. DOMAIN Outcome(r) = DOMAIN row /\ \A column \in DOMAIN row : Outcome(r)[column] =
          IF column \in Dirty(r) THEN Object(r)[column] ELSE row[column]
    BY <2>2, WithColumns
  <2>9. Dirty(r) = {} => Outcome(r) = row
    BY <1>1, <2>1, <2>2, WithNothing
  <2>10. Dirty(r) \subseteq DOMAIN Changes(r)
    BY DEF Dirty
  <2> QED
    BY <1>1, <1>3, <2>1, <2>3, <2>4, <2>7, <2>8, <2>9, <2>10, RowsOfTables
<1> QED
  BY <1>2, <1>3

-----------------------------------------------------------------------------
(* A request whose command, row and reading stay means the same by them.   *)
LEMMA SameTerms ==
    ASSUME NEW r \in Requests,
           command'[r] = command[r], subject'[r] = subject[r], seen'[r] = seen[r]
    PROVE  /\ Op(r)' = Op(r) /\ NewRow(r)' = NewRow(r) /\ Changes(r)' = Changes(r)
           /\ Object(r)' = Object(r) /\ Dirty(r)' = Dirty(r)
           /\ NothingDirty(r)' = NothingDirty(r)
           /\ RequiredReferences(r)' = RequiredReferences(r)
           /\ db'.rows[subject[r]] = db.rows[subject[r]] => Outcome(r)' = Outcome(r)
           /\ result'[r] = result[r] => EntryOf(r)' = EntryOf(r)
<1>1. Op(r)' = Op(r) /\ NewRow(r)' = NewRow(r) /\ Changes(r)' = Changes(r)
  BY DEF Op, NewRow, Changes
<1>2. Object(r)' = Object(r) /\ Dirty(r)' = Dirty(r)
  BY <1>1 DEF Object, Dirty
<1>3. NothingDirty(r)' = NothingDirty(r) /\ RequiredReferences(r)' = RequiredReferences(r)
  BY <1>2 DEF NothingDirty, RequiredReferences
<1>4. db'.rows[subject[r]] = db.rows[subject[r]] => Outcome(r)' = Outcome(r)
  BY <1>1, <1>2 DEF Outcome
<1>5. result'[r] = result[r] => EntryOf(r)' = EntryOf(r)
  BY <1>1 DEF EntryOf
<1> QED
  BY <1>1, <1>2, <1>3, <1>4, <1>5

(* One request moves; nobody else does, and what nobody else sees of it    *)
(* changes only if it is brought back.                                     *)
Moves(r, place) ==
    /\ pc' = [pc EXCEPT ![r] = place]
    /\ place \in PC
    /\ \A q \in Requests \ {r} :
         /\ command'[q] = command[q] /\ subject'[q] = subject[q]
         /\ seen'[q] = seen[q] /\ result'[q] = result[q]
         /\ gone'[q] = {e \in gone[q] : ~Visible(db'.rows[e])}
    /\ command' \in [Requests -> Commands \cup {NoRow}]
    /\ subject' \in [Requests -> Entities \cup {NoRow}]
    /\ seen' \in [Requests -> Rows \cup {NoRow}]
    /\ result' \in [Requests -> Rows \cup {NoRow}]
    /\ gone' \in [Requests -> SUBSET Entities]

(* The store belongs to one request, and the others see no change of it.   *)
Uses(r) ==
    /\ db' = db
    /\ tx' \in Database
    /\ writer' \in {writer, r, NoRequest}
    /\ writer \notin {r, NoRequest} => writer' = writer /\ tx' = tx
    /\ writer' = NoRequest => tx' = db
    /\ session' \in [Requests -> SessionState]

(* A request moves alone.                                                  *)
LEMMA PlaceStep ==
    ASSUME TypeOK, NEW r \in Requests, NEW place, Moves(r, place)
    PROVE  /\ pc' \in [Requests -> PC] /\ pc'[r] = place
           /\ \A q \in Requests \ {r} : pc'[q] = pc[q]
BY DEF Moves, TypeOK

(* What the others know stays true while nothing is committed.             *)
LEMMA OthersKeep ==
    ASSUME IInv, NEW r \in Requests, NEW place, Moves(r, place), Uses(r),
           NEW q \in Requests \ {r}
    PROVE  RequestInv(q)' /\ (Adds(q)' <=> Adds(q))
<1> USE DEF IInv
<1>1. /\ pc'[q] = pc[q] /\ command'[q] = command[q] /\ subject'[q] = subject[q]
      /\ seen'[q] = seen[q] /\ result'[q] = result[q]
  BY PlaceStep DEF Moves
<1>2. gone'[q] = gone[q]
  BY DEF Moves, Uses, GoneInv, RequestInv, Visible
<1>3. db' = db /\ (writer' = q <=> writer = q) /\ (writer = q => tx' = tx)
  BY NoRequestAssumption DEF Uses, TypeOK
<1>4. /\ Op(q)' = Op(q) /\ NewRow(q)' = NewRow(q) /\ Object(q)' = Object(q)
      /\ NothingDirty(q)' = NothingDirty(q)
      /\ RequiredReferences(q)' = RequiredReferences(q)
      /\ Outcome(q)' = Outcome(q) /\ EntryOf(q)' = EntryOf(q)
  BY <1>1, <1>3, SameTerms
<1>5. LockInv(q)'
  BY <1>1, <1>3, <1>4 DEF RequestInv, LockInv
<1>6. SeenInv(q)' /\ (Adds(q)' <=> Adds(q))
  BY <1>1, <1>3, <1>4 DEF RequestInv, SeenInv, Adds
<1>7. CheckedInv(q)' /\ GoneInv(q)' /\ AnswerInv(q)'
  BY <1>1, <1>2, <1>3, <1>4 DEF RequestInv, CheckedInv, GoneInv, AnswerInv, Acceptable
<1>8. PendingInv(q)'
  BY <1>1, <1>2, <1>3, <1>4 DEF RequestInv, PendingInv, Relisting, Differs
<1> QED
  BY <1>5, <1>6, <1>7, <1>8 DEF RequestInv

(* A step that commits nothing keeps the invariant if its own part holds.  *)
LEMMA UseStep ==
    ASSUME IInv, NEW r \in Requests, NEW place, Moves(r, place), Uses(r),
           pc[r] \notin {"done", "unanswered"},
           RequestInv(r)',
           Adds(r)' => \A q \in Requests \ {r} : Adds(q) => subject[q] # subject'[r]
    PROVE  IInv'
<1>1. /\ pc' \in [Requests -> PC] /\ pc'[r] = place
      /\ \A q \in Requests \ {r} : pc'[q] = pc[q] /\ subject'[q] = subject[q]
  BY PlaceStep DEF IInv, Moves
<1>2. \A q \in Requests \ {r} : RequestInv(q)' /\ (Adds(q)' <=> Adds(q))
  BY OthersKeep
<1>3. TypeOK'
  BY <1>1 DEF IInv, TypeOK, Moves, Uses
<1>4. KeyInv' /\ NothingPendingWithoutWriter'
  BY DEF IInv, KeyInv, NothingPendingWithoutWriter, Uses
<1>5. AddedApart'
  BY <1>1, <1>2 DEF IInv, AddedApart
<1>6. LogInv'
  BY <1>1 DEF IInv, LogInv, Committed, Uses, TypeOK, Database, Entry
<1>7. \A q \in Requests : RequestInv(q)'
  BY <1>2
<1> QED
  BY <1>3, <1>4, <1>5, <1>6, <1>7 DEF IInv

(* A request that ends without a commit. *)
LEMMA LeaveStep ==
    ASSUME IInv, NEW r \in Requests, NEW label \in Ended \ {"done", "unanswered"},
           Discard(r), Leave(r, label), pc[r] \in InFlight, session' \in [Requests -> SessionState]
    PROVE  IInv'
<1> USE DEF IInv
<1>1. db' = db /\ writer' # r
  BY NoRequestAssumption DEF Discard
<1>2. /\ command' = command /\ subject' = subject
      /\ seen' \in [Requests -> Rows \cup {NoRow}] /\ seen'[r] = NoRow
      /\ result' \in [Requests -> Rows \cup {NoRow}]
      /\ gone' \in [Requests -> SUBSET Entities] /\ gone'[r] = {}
  BY DEF Leave, TypeOK
<1>3. Moves(r, label)
  BY <1>2 DEF Leave, Goto, Moves, TypeOK, PC
<1>4. Uses(r)
  BY NoRequestAssumption DEF Uses, Discard, TypeOK, NothingPendingWithoutWriter
<1>5. pc'[r] = label /\ label \notin InFlight /\ label # "idle"
      /\ pc[r] \notin {"done", "unanswered"}
  BY <1>3, PlaceStep DEF Ended, InFlight
<1>6. SeenInv(r)' /\ ~Adds(r)'
  BY <1>2, <1>5 DEF RequestInv, SeenInv, Adds, InFlight
<1>7. LockInv(r)' /\ CheckedInv(r)' /\ GoneInv(r)' /\ AnswerInv(r)'
  BY <1>1, <1>2, <1>5 DEF LockInv, CheckedInv, GoneInv, AnswerInv, InFlight
<1>8. PendingInv(r)'
  BY <1>1, <1>2, <1>5 DEF PendingInv, InFlight
<1> QED
  BY <1>3, <1>4, <1>5, <1>6, <1>7, <1>8, UseStep DEF RequestInv

(* A request that ends with an error leaves nothing pending and nothing    *)
(* remembered.                                                             *)
LEMMA ErrorStep ==
    ASSUME IInv, NEW r \in Requests,
           RowNotFound(r) \/ TeamNotFound(r) \/ VenueRefused(r) \/ ReferenceNotFound(r)
             \/ Refuse(r) \/ WriteRefused(r) \/ Busy(r) \/ Crash(r)
    PROVE  IInv'
<1>1. \E label \in Ended \ {"done", "unanswered"} : Leave(r, label)
  BY DEF RowNotFound, TeamNotFound, VenueRefused, ReferenceNotFound, Refuse, WriteRefused, Busy,
     Crash, Ended
<1>2. pc[r] \in InFlight
  BY DEF RowNotFound, TeamNotFound, VenueRefused, ReferenceNotFound, Refuse, WriteRefused, Busy,
     Crash, InFlight
<1>3. Discard(r) /\ session' \in [Requests -> SessionState]
  BY DEF RowNotFound, TeamNotFound, VenueRefused, ReferenceNotFound, Refuse, WriteRefused, Busy,
     Crash, ExitWithError, FlushError, Abandon, IInv, TypeOK, SessionState
<1> QED
  BY <1>1, <1>2, <1>3, LeaveStep

-----------------------------------------------------------------------------
(* A step without a statement that writes. *)
LEMMA QuietUses ==
    ASSUME IInv, NEW r \in Requests, UNCHANGED storeVars
    PROVE  Uses(r) /\ db' = db /\ tx' = tx /\ writer' = writer
BY DEF Uses, storeVars, IInv, TypeOK, NothingPendingWithoutWriter

(* Only an import has the lock before it writes its row.                   *)
LEMMA SelectsCommitted ==
    ASSUME IInv, NEW r \in Requests
    PROVE  /\ pc[r] \in {"checking", "identifying"} => writer # r /\ View(r) = db
           /\ pc[r] \in {"finding", "writing"} /\ Op(r) # "import" => writer # r /\ View(r) = db
           /\ pc[r] = "idle" => writer # r
           /\ pc[r] \in {"finding", "writing"} => Row(r) = db.rows[subject[r]]
BY DEF IInv, RequestInv, LockInv, SeenInv, PendingInv, View, Row, InFlight

(* A request begins: what is gone for it is deleted now.                   *)
LEMMA BeginStep == ASSUME IInv, NEW r \in Requests, Begin(r) PROVE IInv'
<1> USE DEF IInv
<1>1. PICK menu \in Menus : \E c \in menu :
         /\ c.op \in {"create", "import"} =>
              /\ db.rows[c.subject] = NoRow
              /\ \A q \in Requests : subject[q] # c.subject
         /\ c.op = "import" => \A e \in Upserted(c.payload) : db.rows[e] # NoRow
         /\ command' = [command EXCEPT ![r] = c]
         /\ subject' = [subject EXCEPT ![r] = c.subject]
         /\ gone' = [gone EXCEPT ![r] =
                       {e \in Entities : db.rows[e] # NoRow /\ db.rows[e].deleted}]
         /\ Goto(r, IF c.op = "create" THEN "checking" ELSE "finding")
  BY DEF Begin
<1>2. PICK c \in menu :
         /\ c.op \in {"create", "import"} =>
              /\ db.rows[c.subject] = NoRow
              /\ \A q \in Requests : subject[q] # c.subject
         /\ c.op = "import" => \A e \in Upserted(c.payload) : db.rows[e] # NoRow
         /\ command' = [command EXCEPT ![r] = c]
         /\ subject' = [subject EXCEPT ![r] = c.subject]
         /\ gone' = [gone EXCEPT ![r] =
                       {e \in Entities : db.rows[e] # NoRow /\ db.rows[e].deleted}]
         /\ Goto(r, IF c.op = "create" THEN "checking" ELSE "finding")
  BY <1>1
<1> DEFINE place == IF c.op = "create" THEN "checking" ELSE "finding"
<1>3. c \in Commands
  BY <1>1, <1>2 DEF Commands
<1>4. /\ c # NoRow /\ c.subject \in Edited /\ c.subject \in Entities
      /\ c.op \in {"create", "update", "delete", "import"}
      /\ c.op = "import" => c.subject \in Matches
  BY <1>3, CommandFacts, EntitiesOf
<1>5. /\ pc[r] = "idle" /\ UNCHANGED storeVars /\ seen' = seen /\ result' = result
      /\ Uses(r) /\ writer' # r /\ db' = db
  BY QuietUses, SelectsCommitted DEF Begin
<1>6. /\ command'[r] = c /\ subject'[r] = c.subject /\ pc'[r] = place
      /\ gone'[r] = {e \in Entities : db.rows[e] # NoRow /\ db.rows[e].deleted}
  BY <1>2 DEF TypeOK, Goto
<1>7. Moves(r, place)
  <2>1. /\ pc' = [pc EXCEPT ![r] = place] /\ place \in PC
    BY <1>2 DEF Goto, PC, InFlight
  <2>2. \A q \in Requests \ {r} : gone'[q] = gone[q]
    BY <1>2 DEF TypeOK
  <2>3. \A q \in Requests \ {r} : gone[q] = {e \in gone[q] : ~Visible(db'.rows[e])}
    BY <1>5 DEF RequestInv, GoneInv, Visible
  <2>4. /\ command' \in [Requests -> Commands \cup {NoRow}]
        /\ subject' \in [Requests -> Entities \cup {NoRow}]
        /\ gone' \in [Requests -> SUBSET Entities]
    BY <1>2, <1>3, <1>4 DEF TypeOK
  <2> QED
    BY <1>2, <1>5, <2>1, <2>2, <2>3, <2>4 DEF Moves, TypeOK
<1>8. seen[r] = NoRow
  BY <1>5 DEF RequestInv, SeenInv, InFlight
<1>9. SeenInv(r)'
  BY <1>2, <1>3, <1>4, <1>5, <1>6, <1>8 DEF SeenInv, InFlight, Adds, Op
<1>10. LockInv(r)' /\ CheckedInv(r)' /\ GoneInv(r)' /\ AnswerInv(r)' /\ PendingInv(r)'
  BY <1>5, <1>6 DEF LockInv, CheckedInv, GoneInv, AnswerInv, PendingInv
<1>11. Adds(r)' => \A q \in Requests \ {r} : Adds(q) => subject[q] # subject'[r]
  BY <1>2, <1>6 DEF Adds, Op
<1> QED
  BY <1>5, <1>7, <1>9, <1>10, <1>11, UseStep DEF RequestInv

(* A request goes on. *)
Advances(r, place, m, row, answer) ==
    /\ db' = db
    /\ Goto(r, place)
    /\ subject' = [subject EXCEPT ![r] = m]
    /\ seen' = [seen EXCEPT ![r] = row]
    /\ result' = [result EXCEPT ![r] = answer]
    /\ UNCHANGED <<command, gone>>

(* A request goes to its next place, with what it has read or answered.    *)
LEMMA GoesOn ==
    ASSUME IInv, NEW r \in Requests, NEW place \in InFlight, NEW m \in Entities,
           NEW row \in Rows \cup {NoRow}, NEW answer \in Rows \cup {NoRow},
           Advances(r, place, m, row, answer)
    PROVE  /\ Moves(r, place) /\ pc'[r] = place
           /\ command'[r] = command[r] /\ gone'[r] = gone[r] /\ Op(r)' = Op(r)
           /\ subject'[r] = m /\ seen'[r] = row /\ result'[r] = answer
<1> USE DEF IInv
<1>1. \A q \in Requests \ {r} : gone[q] = {e \in gone[q] : ~Visible(db'.rows[e])}
  BY DEF RequestInv, GoneInv, Visible, Advances
<1>2. pc' = [pc EXCEPT ![r] = place] /\ place \in PC
  BY DEF Goto, PC, Advances
<1>3. /\ subject' \in [Requests -> Entities \cup {NoRow}]
      /\ seen' \in [Requests -> Rows \cup {NoRow}]
      /\ result' \in [Requests -> Rows \cup {NoRow}]
      /\ subject'[r] = m /\ seen'[r] = row /\ result'[r] = answer
      /\ \A q \in Requests \ {r} :
           subject'[q] = subject[q] /\ seen'[q] = seen[q] /\ result'[q] = result[q]
  BY DEF TypeOK, Advances
<1> QED
  BY <1>1, <1>2, <1>3 DEF Moves, TypeOK, Op, Advances

(* The row it has found is the committed one.                              *)
LEMMA FindRowStep == ASSUME IInv, NEW r \in Requests, FindRow(r) PROVE IInv'
<1> USE DEF IInv
<1> DEFINE e == subject[r]  place == IF Op(r) = "delete" THEN "writing" ELSE "checking"
<1>1. /\ pc[r] = "finding" /\ Op(r) \in {"update", "delete"} /\ Visible(Row(r))
      /\ seen' = [seen EXCEPT ![r] = Row(r)] /\ Goto(r, place)
      /\ UNCHANGED storeVars
      /\ command' = command /\ subject' = subject /\ result' = result /\ gone' = gone
  BY DEF FindRow
<1>2. /\ Row(r) = db.rows[e] /\ writer' # r /\ Uses(r) /\ db' = db
  BY <1>1, SelectsCommitted, QuietUses
<1>3. e \in Edited /\ e \in Entities /\ command[r] \in Commands /\ e = command[r].subject
  BY <1>1, EntitiesOf DEF RequestInv, SeenInv, InFlight
<1>4. Row(r) \in RowOf(e) /\ Row(r) \in Rows \cup {NoRow} /\ Row(r) # NoRow /\ ~Row(r).deleted
  BY <1>1, <1>2, <1>3 DEF KeyInv, Visible, TypeOK, Database
<1>5. place \in InFlight /\ result[r] \in Rows \cup {NoRow}
  BY DEF InFlight, TypeOK
<1>6. Advances(r, place, e, Row(r), result[r])
  BY <1>1, <1>2 DEF TypeOK, Advances
<1>7. /\ Moves(r, place) /\ pc'[r] = place
      /\ command'[r] = command[r] /\ gone'[r] = gone[r] /\ Op(r)' = Op(r)
      /\ subject'[r] = e /\ seen'[r] = Row(r)
  BY <1>3, <1>4, <1>5, <1>6, GoesOn
<1>8. SeenInv(r)' /\ ~Adds(r)'
  BY <1>1, <1>2, <1>3, <1>4, <1>7 DEF RequestInv, SeenInv, Adds, InFlight
<1>9. LockInv(r)' /\ CheckedInv(r)' /\ GoneInv(r)' /\ AnswerInv(r)' /\ PendingInv(r)'
  BY <1>1, <1>2, <1>7 DEF RequestInv, LockInv, CheckedInv, GoneInv, AnswerInv, PendingInv
<1> QED
  BY <1>1, <1>2, <1>7, <1>8, <1>9, UseStep DEF RequestInv

(* What an import knows when it looks up its match.                        *)
LEMMA GameFound ==
    ASSUME IInv, NEW r \in Requests, pc[r] = "finding", Op(r) = "import", EarlierItemsApplied(r)
    PROVE  /\ command[r].payload \in Game /\ command[r].payload.team \notin gone[r]
           /\ \A e \in Upserted(command[r].payload) \cap gone[r] : writer = r /\ Visible(tx.rows[e])
           /\ subject[r] \in Matches /\ subject[r] \in Entities /\ subject[r] \in Edited
           /\ command[r] \in Commands /\ seen[r] = NoRow /\ db.rows[subject[r]] = NoRow
           /\ \A m \in Matches : m \in Entities /\ View(r).rows[m] = db.rows[m]
           /\ \A e \in Upserted(command[r].payload) : db.rows[e] # NoRow
<1> USE DEF IInv
<1> DEFINE c == command[r]
<1>1. /\ c \in Commands /\ subject[r] \in Matches /\ seen[r] = NoRow
      /\ \A e \in Upserted(c.payload) : db.rows[e] # NoRow
      /\ db.rows[subject[r]] = NoRow /\ subject[r] \in Edited
  BY DEF RequestInv, SeenInv, InFlight, Adds
<1>2. c.payload \in Game
  BY <1>1, CommandFacts DEF Op
<1>3. \A e \in Upserted(c.payload) \cap gone[r] : writer = r /\ Visible(tx.rows[e])
  BY DEF EarlierItemsApplied, RequestInv, PendingInv
<1>4. Upserted(c.payload) \subseteq Competitions \cup Venues
  BY <1>2 DEF Upserted, Game
<1>5. \A e \in Entities \ (Competitions \cup Venues) : View(r).rows[e] = db.rows[e]
  BY <1>4 DEF RequestInv, PendingInv, View
<1>6. \A m \in Matches : m \in Entities /\ View(r).rows[m] = db.rows[m]
  BY <1>5, EntitiesOf, TablesApart
<1>7. c.payload.team \notin gone[r]
  <2>1. c.payload.team \in Teams
    BY <1>2 DEF Game
  <2>2. View(r).rows[c.payload.team] = db.rows[c.payload.team]
    BY <2>1, <1>5, EntitiesOf, TablesApart
  <2> QED
    BY <2>2 DEF EarlierItemsApplied, TeamFound, Visible, RequestInv, GoneInv
<1> QED
  BY <1>1, <1>2, <1>3, <1>6, <1>7, EntitiesOf

(* The match is known, to be changed or to be added. *)
LEMMA GameStep ==
    ASSUME IInv, NEW r \in Requests, pc[r] = "finding", Op(r) = "import", EarlierItemsApplied(r),
           NEW m \in Matches, NEW row,
           Goto(r, "writing"), UNCHANGED storeVars, command' = command, result' = result,
           gone' = gone, subject' = [subject EXCEPT ![r] = m], seen' = [seen EXCEPT ![r] = row],
           row = db.rows[m], row = NoRow => m = subject[r]
    PROVE  IInv'
<1> USE DEF IInv
<1>1. /\ command[r].payload \in Game /\ command[r].payload.team \notin gone[r]
      /\ \A e \in Upserted(command[r].payload) \cap gone[r] : writer = r /\ Visible(tx.rows[e])
      /\ command[r] \in Commands /\ m \in Entities /\ m \in Edited /\ m \in Matches
      /\ seen[r] = NoRow
      /\ \A e \in Upserted(command[r].payload) : db.rows[e] # NoRow
  BY GameFound, EntitiesOf
<1>2. Uses(r) /\ db' = db /\ tx' = tx /\ writer' = writer
  BY QuietUses
<1>3. row \in Rows \cup {NoRow} /\ (row # NoRow => row \in RowOf(m))
  BY <1>1 DEF TypeOK, Database, KeyInv
<1>4. "writing" \in InFlight /\ result[r] \in Rows \cup {NoRow}
      /\ Advances(r, "writing", m, row, result[r])
  BY <1>2 DEF InFlight, TypeOK, Advances
<1>5. /\ Moves(r, "writing") /\ pc'[r] = "writing"
      /\ command'[r] = command[r] /\ gone'[r] = gone[r] /\ Op(r)' = Op(r)
      /\ subject'[r] = m /\ seen'[r] = row
  BY <1>1, <1>3, <1>4, GoesOn
<1>6. SeenInv(r)'
  BY <1>1, <1>2, <1>3, <1>5 DEF RequestInv, SeenInv, Adds, InFlight
<1>7. LockInv(r)' /\ CheckedInv(r)' /\ GoneInv(r)' /\ AnswerInv(r)'
  BY <1>1, <1>2, <1>5 DEF RequestInv, LockInv, CheckedInv, GoneInv, AnswerInv
<1>8. PendingInv(r)'
  <2>1. writer = r => /\ \A e \in Entities :
                           \/ tx.rows[e] = db.rows[e]
                           \/ e \in Upserted(command[r].payload) /\ Relisting(r, e)
                      /\ tx.rows[m] = db.rows[m] /\ tx.log = db.log
    BY GameFound DEF RequestInv, PendingInv, View
  <2>2. \A e \in Entities : Relisting(r, e) => Relisting(r, e)'
    BY <1>2, <1>5 DEF Relisting, Differs
  <2> QED
    BY <1>1, <1>2, <1>5, <2>1, <2>2 DEF PendingInv
<1>9. Adds(r)' => \A q \in Requests \ {r} : Adds(q) => subject[q] # subject'[r]
  BY <1>1, <1>5 DEF Adds, AddedApart, InFlight
<1> QED
  BY <1>2, <1>5, <1>6, <1>7, <1>8, <1>9, UseStep DEF RequestInv

(* The match an import finds, perhaps deleted, is the committed one.       *)
LEMMA FindGameStep == ASSUME IInv, NEW r \in Requests, FindGame(r) PROVE IInv'
<1>1. PICK m \in Matches :
         /\ View(r).rows[m] # NoRow
         /\ subject' = [subject EXCEPT ![r] = m]
         /\ seen' = [seen EXCEPT ![r] = View(r).rows[m]]
  BY DEF FindGame
<1>2. View(r).rows[m] = db.rows[m]
  BY GameFound DEF FindGame
<1> QED
  BY <1>1, <1>2, GameStep DEF FindGame

(* An import that finds no match is going to add one.                      *)
LEMMA GameIsNewStep == ASSUME IInv, NEW r \in Requests, GameIsNew(r) PROVE IInv'
<1>1. /\ pc[r] = "finding" /\ Op(r) = "import" /\ EarlierItemsApplied(r) /\ Goto(r, "writing")
      /\ UNCHANGED storeVars /\ command' = command /\ subject' = subject /\ seen' = seen
      /\ result' = result /\ gone' = gone
  BY DEF GameIsNew
<1>2. subject[r] \in Matches /\ seen[r] = NoRow /\ db.rows[subject[r]] = NoRow
  BY <1>1, GameFound
<1>3. /\ subject' = [subject EXCEPT ![r] = subject[r]]
      /\ seen' = [seen EXCEPT ![r] = db.rows[subject[r]]]
  BY <1>1, <1>2 DEF IInv, TypeOK
<1> QED
  BY <1>1, <1>2, <1>3, GameStep

(* What a request in flight is about and remembers.                        *)
LEMMA StaysTyped ==
    ASSUME IInv, NEW r \in Requests, pc[r] \in InFlight
    PROVE  /\ subject[r] \in Entities /\ subject[r] \in Edited /\ command[r] \in Commands
           /\ seen[r] \in Rows \cup {NoRow} /\ result[r] \in Rows \cup {NoRow}
           /\ db.rows[subject[r]] \in Rows \cup {NoRow}
BY EntitiesOf DEF IInv, TypeOK, RequestInv, SeenInv, Database

(* References that are visible were not deleted before.                    *)
LEMMA RequireReferencesStep == ASSUME IInv, NEW r \in Requests, RequireReferences(r) PROVE IInv'
<1> USE DEF IInv
<1> DEFINE place == IF subject[r] \in Identified THEN "identifying" ELSE "writing"
<1>1. /\ pc[r] = "checking" /\ ReferencesVisible(r) /\ Goto(r, place) /\ UNCHANGED storeVars
      /\ command' = command /\ subject' = subject /\ seen' = seen /\ result' = result
      /\ gone' = gone
  BY DEF RequireReferences
<1>2. /\ View(r) = db /\ writer' # r /\ Uses(r) /\ db' = db
  BY <1>1, SelectsCommitted, QuietUses
<1>3. /\ Op(r) \in {"create", "update"} /\ pc[r] \in InFlight /\ place \in InFlight
      /\ Advances(r, place, subject[r], seen[r], result[r])
  BY <1>1, <1>2 DEF RequestInv, SeenInv, InFlight, TypeOK, Advances
<1>4. /\ Moves(r, place) /\ pc'[r] = place
      /\ command'[r] = command[r] /\ gone'[r] = gone[r]
      /\ subject'[r] = subject[r] /\ seen'[r] = seen[r]
  <2> HIDE DEF place
  <2> QED
    BY <1>3, StaysTyped, GoesOn
<1>5. /\ Op(r)' = Op(r) /\ RequiredReferences(r)' = RequiredReferences(r)
      /\ Object(r)' = Object(r)
  BY <1>4, SameTerms
<1>6. RequiredReferences(r) \cap gone[r] = {}
  BY <1>1, <1>2 DEF ReferencesVisible, Visible, RequestInv, GoneInv
<1>7. SeenInv(r)' /\ (Adds(r)' => Adds(r))
  BY <1>1, <1>2, <1>3, <1>4, <1>5 DEF RequestInv, SeenInv, Adds, InFlight
<1>8. LockInv(r)' /\ CheckedInv(r)' /\ GoneInv(r)' /\ AnswerInv(r)' /\ PendingInv(r)'
  BY <1>1, <1>2, <1>3, <1>4, <1>5, <1>6
     DEF RequestInv, LockInv, CheckedInv, GoneInv, AnswerInv, PendingInv
<1> QED
  BY <1>1, <1>2, <1>4, <1>7, <1>8, UseStep DEF RequestInv, AddedApart

(* The object was checked as it is going to be written.                    *)
LEMMA AcceptStep == ASSUME IInv, NEW r \in Requests, Accept(r) PROVE IInv'
<1> USE DEF IInv
<1>1. /\ pc[r] = "identifying" /\ Acceptable(subject[r], Object(r)) /\ Goto(r, "writing")
      /\ UNCHANGED storeVars
      /\ command' = command /\ subject' = subject /\ seen' = seen /\ result' = result
      /\ gone' = gone
  BY DEF Accept
<1>2. /\ writer' # r /\ Uses(r) /\ db' = db
  BY <1>1, SelectsCommitted, QuietUses
<1>3. /\ Op(r) \in {"create", "update"} /\ pc[r] \in InFlight /\ "writing" \in InFlight
      /\ Advances(r, "writing", subject[r], seen[r], result[r])
  BY <1>1, <1>2 DEF RequestInv, SeenInv, InFlight, TypeOK, Advances
<1>4. /\ Moves(r, "writing") /\ pc'[r] = "writing"
      /\ command'[r] = command[r] /\ gone'[r] = gone[r]
      /\ subject'[r] = subject[r] /\ seen'[r] = seen[r]
  BY <1>3, StaysTyped, GoesOn
<1>5. /\ Op(r)' = Op(r) /\ RequiredReferences(r)' = RequiredReferences(r)
      /\ Object(r)' = Object(r)
  BY <1>4, SameTerms
<1>6. SeenInv(r)' /\ (Adds(r)' => Adds(r))
  BY <1>1, <1>2, <1>3, <1>4, <1>5 DEF RequestInv, SeenInv, Adds, InFlight
<1>7. CheckedInv(r)'
  BY <1>1, <1>3, <1>4, <1>5 DEF RequestInv, CheckedInv, Acceptable
<1>8. LockInv(r)' /\ GoneInv(r)' /\ AnswerInv(r)' /\ PendingInv(r)'
  BY <1>1, <1>2, <1>3, <1>4, <1>5 DEF RequestInv, LockInv, GoneInv, AnswerInv, PendingInv
<1> QED
  BY <1>1, <1>2, <1>4, <1>6, <1>7, <1>8, UseStep DEF RequestInv, AddedApart

-----------------------------------------------------------------------------
(* What the flush of a request is about to write. *)
LEMMA WrittenRow ==
    ASSUME IInv, NEW r \in Requests, pc[r] = "writing"
    PROVE  /\ Written(r) = Outcome(r) /\ Outcome(r) \in Rows
           /\ Row(r) = db.rows[subject[r]] /\ Object(r) \in Rows
           /\ NothingDirty(r) => Outcome(r) = db.rows[subject[r]] /\ Op(r) # "create"
<1>1. pc[r] \in InFlight \ {"finding"} /\ SeenInv(r) /\ KeyInv
  BY DEF IInv, RequestInv, InFlight
<1>2. Row(r) = db.rows[subject[r]]
  BY SelectsCommitted
<1>3. Outcome(r) \in Rows /\ (NothingDirty(r) => Outcome(r) = db.rows[subject[r]])
  BY <1>1, OutcomeRow DEF NothingDirty
<1>4. Written(r) = Outcome(r)
  BY <1>2 DEF Written, Outcome
<1>5. Object(r) \in Rows
  BY <1>1, ObjectRow, RowsOfTables
<1>6. NothingDirty(r) => Op(r) # "create"
  BY <1>1 DEF NothingDirty, SeenInv
<1> QED
  BY <1>2, <1>3, <1>4, <1>5, <1>6

(* From the flush to the audit: the place, the answer and the store.       *)
LEMMA FlushStep ==
    ASSUME IInv, NEW r \in Requests, pc[r] = "writing",
           Goto(r, "auditing"), command' = command, subject' = subject, seen' = seen,
           gone' = gone, result' = [result EXCEPT ![r] = Answer(r, Outcome(r))],
           Uses(r), writer' # r => NothingDirty(r),
           writer' = r =>
             /\ tx'.rows[subject[r]] = Outcome(r) /\ tx'.log = db.log
             /\ \A e \in Entities \ {subject[r]} : tx'.rows[e] = View(r).rows[e],
           writer = r => writer' = r
    PROVE  IInv'
<1> USE DEF IInv
<1> DEFINE answer == Answer(r, Outcome(r))
<1>1. db' = db /\ pc[r] \in InFlight /\ "auditing" \in InFlight
  BY DEF Uses, InFlight
<1>2. answer \in Rows \cup {NoRow}
  BY WrittenRow DEF Answer
<1>3. Advances(r, "auditing", subject[r], seen[r], answer)
  BY <1>1 DEF TypeOK, Advances
<1>4. /\ Moves(r, "auditing") /\ pc'[r] = "auditing"
      /\ command'[r] = command[r] /\ gone'[r] = gone[r]
      /\ subject'[r] = subject[r] /\ seen'[r] = seen[r] /\ result'[r] = answer
  <2> HIDE DEF answer
  <2> QED
    BY <1>1, <1>2, <1>3, StaysTyped, GoesOn
<1>5. /\ Op(r)' = Op(r) /\ RequiredReferences(r)' = RequiredReferences(r)
      /\ Object(r)' = Object(r) /\ NothingDirty(r)' = NothingDirty(r)
      /\ Outcome(r)' = Outcome(r) /\ NewRow(r)' = NewRow(r)
  BY <1>1, <1>4, SameTerms
<1>6. SeenInv(r)' /\ (Adds(r)' => Adds(r))
  BY <1>1, <1>4, <1>5 DEF RequestInv, SeenInv, Adds, InFlight
<1>7. CheckedInv(r)' /\ GoneInv(r)'
  BY <1>1, <1>4, <1>5 DEF RequestInv, CheckedInv, GoneInv, Acceptable
<1>8. LockInv(r)'
  BY <1>4, <1>5 DEF LockInv
<1>9. AnswerInv(r)'
  <2>1. Op(r) = "create" => Object(r) = NewRow(r) /\ Outcome(r) = NewRow(r)
    BY <1>1 DEF RequestInv, SeenInv, Object, Outcome
  <2>2. Op(r) \in {"delete", "import"} => answer = NoRow
    BY DEF Answer
  <2>3. Op(r) = "create" => answer = NewRow(r)
    BY <2>1 DEF Answer
  <2>4. Op(r) = "update" /\ subject[r] \in Reloaded => answer = Outcome(r)
    BY DEF Answer
  <2> HIDE DEF answer
  <2> QED
    BY <1>4, <1>5, <2>2, <2>3, <2>4 DEF AnswerInv
<1>10. PendingInv(r)'
  <2>1. \A e \in Entities : Relisting(r, e) /\ tx'.rows[e] = tx.rows[e] => Relisting(r, e)'
    BY <1>1, <1>4 DEF Relisting, Differs
  <2>2. ASSUME writer' = r, NEW e \in Entities \ {subject[r]}
        PROVE  \/ tx'.rows[e] = db.rows[e]
               \/ Op(r) = "import" /\ e \in Upserted(command[r].payload) /\ Relisting(r, e)'
    BY <2>1, <2>2 DEF View, RequestInv, PendingInv
  <2>3. ASSUME Op(r) = "import", NEW e \in Upserted(command[r].payload) \cap gone[r]
        PROVE  writer' = r /\ Visible(tx'.rows[e])
    <3>1. writer = r /\ Visible(tx.rows[e])
      BY <2>3 DEF RequestInv, PendingInv
    <3>2. subject[r] \in Matches /\ command[r].payload \in Game
      BY <1>1, <2>3, StaysTyped, CommandFacts DEF RequestInv, SeenInv, Op
    <3>3. e \in Entities /\ e # subject[r]
      BY <3>2, TablesApart, EntitiesOf DEF Upserted, Game
    <3> QED
      BY <3>1, <3>3 DEF View
  <2> QED
    BY <1>1, <1>4, <1>5, <2>2, <2>3 DEF PendingInv
<1> QED
  BY <1>4, <1>6, <1>7, <1>8, <1>9, <1>10, UseStep DEF RequestInv, AddedApart

(* What a request sees is a database.                                      *)
LEMMA ViewIsDatabase ==
    ASSUME IInv, NEW r \in Requests
    PROVE  View(r) \in Database /\ View(r).rows \in [Entities -> Rows \cup {NoRow}]
BY DEF IInv, TypeOK, View, Database

(* An UPDATE of nothing leaves nothing to write.                           *)
LEMMA WriteNothingStep == ASSUME IInv, NEW r \in Requests, WriteNothing(r) PROVE IInv'
<1>1. /\ pc[r] = "writing" /\ NothingDirty(r) /\ Goto(r, "auditing") /\ UNCHANGED storeVars
      /\ command' = command /\ subject' = subject /\ seen' = seen /\ gone' = gone
      /\ result' = [result EXCEPT ![r] = Answer(r, Row(r))]
  BY DEF WriteNothing
<1>2. Row(r) = Outcome(r) /\ Outcome(r) = db.rows[subject[r]]
  BY <1>1, WrittenRow
<1>3. Uses(r) /\ tx' = tx /\ writer' = writer
  BY <1>1, QuietUses
<1>4. writer = r => tx.rows[subject[r]] = db.rows[subject[r]] /\ tx.log = db.log
  BY <1>1 DEF IInv, RequestInv, PendingInv
<1>5. writer' = r =>
        /\ tx'.rows[subject[r]] = Outcome(r) /\ tx'.log = db.log
        /\ \A e \in Entities \ {subject[r]} : tx'.rows[e] = View(r).rows[e]
  BY <1>2, <1>3, <1>4 DEF View
<1>6. result' = [result EXCEPT ![r] = Answer(r, Outcome(r))]
  BY <1>1, <1>2
<1> QED
  BY <1>1, <1>3, <1>5, <1>6, FlushStep

(* A write uses the store of the request that has the lock then.           *)
LEMMA WriteUses ==
    ASSUME IInv, NEW r \in Requests, NEW contents \in Database, Write(r, contents)
    PROVE  Uses(r) /\ db' = db /\ tx' = contents /\ writer' = r /\ writer \in {r, NoRequest}
BY NoRequestAssumption DEF Write, LockFree, Uses, IInv, TypeOK

(* The row it writes is what its commit will make of the committed one.    *)
LEMMA WriteRowStep == ASSUME IInv, NEW r \in Requests, WriteRow(r) PROVE IInv'
<1> DEFINE rows == [View(r).rows EXCEPT ![subject[r]] = Written(r)]
           contents == [View(r) EXCEPT !.rows = rows]
<1>1. /\ pc[r] = "writing" /\ Goto(r, "auditing") /\ Write(r, contents)
      /\ command' = command /\ subject' = subject /\ seen' = seen /\ gone' = gone
      /\ result' = [result EXCEPT ![r] = Answer(r, Written(r))]
  BY DEF WriteRow
<1>2. Written(r) = Outcome(r) /\ Outcome(r) \in Rows
  BY <1>1, WrittenRow
<1>3. subject[r] \in Entities
  BY <1>1, StaysTyped DEF InFlight
<1>4. /\ rows \in [Entities -> Rows \cup {NoRow}] /\ rows[subject[r]] = Outcome(r)
      /\ \A e \in Entities \ {subject[r]} : rows[e] = View(r).rows[e]
  BY <1>2, <1>3, ViewIsDatabase
<1>5. contents \in Database /\ contents.rows = rows /\ contents.log = View(r).log
  <2> HIDE DEF rows
  <2> QED
    BY <1>4, ViewIsDatabase DEF Database
<1>6. View(r).log = db.log
  BY <1>1 DEF IInv, RequestInv, PendingInv, View
<1> HIDE DEF rows, contents
<1>7. Uses(r) /\ tx' = contents /\ writer' = r
  BY <1>1, <1>5, WriteUses
<1>8. result' = [result EXCEPT ![r] = Answer(r, Outcome(r))]
  BY <1>1, <1>2
<1> QED
  BY <1>1, <1>4, <1>5, <1>6, <1>7, <1>8, FlushStep

(* The entry of a request is signed by it.                                 *)
LEMMA EntryTyped ==
    ASSUME IInv, NEW r \in Requests, pc[r] \in InFlight
    PROVE  EntryOf(r) \in Entry /\ EntryOf(r).by = r
<1>1. Op(r) \in {"create", "update", "delete", "import"}
  BY StaysTyped, CommandFacts DEF Op
<1> QED
  BY <1>1, StaysTyped DEF EntryOf, Entry

(* The entry is pending with the row.                                      *)
LEMMA RecordAuditStep == ASSUME IInv, NEW r \in Requests, RecordAudit(r) PROVE IInv'
<1> USE DEF IInv
<1> DEFINE contents == [View(r) EXCEPT !.log = @ \cup {EntryOf(r)}]
<1>1. /\ pc[r] = "auditing" /\ Goto(r, "committing") /\ Write(r, contents)
      /\ command' = command /\ subject' = subject /\ seen' = seen /\ result' = result
      /\ gone' = gone
  BY DEF RecordAudit
<1>2. pc[r] \in InFlight /\ "committing" \in InFlight
  BY <1>1 DEF InFlight
<1>3. /\ contents \in Database /\ contents.rows = View(r).rows
      /\ contents.log = View(r).log \cup {EntryOf(r)}
  BY <1>2, ViewIsDatabase, EntryTyped DEF Database
<1>4. View(r).log = db.log
  BY <1>1 DEF RequestInv, PendingInv, View
<1>5. View(r).rows[subject[r]] = Outcome(r)
  <2>1. CASE writer = r
    BY <1>1, <2>1 DEF RequestInv, PendingInv, View
  <2>2. CASE writer # r
    <3>1. NothingDirty(r)
      BY <1>1, <2>2 DEF RequestInv, LockInv
    <3>2. pc[r] \in InFlight \ {"finding"} /\ SeenInv(r) /\ KeyInv
      BY <1>1, <1>2 DEF RequestInv
    <3> QED
      BY <2>2, <3>1, <3>2, OutcomeRow DEF NothingDirty, View
  <2> QED
    BY <2>1, <2>2
<1> HIDE DEF contents
<1>6. Uses(r) /\ db' = db /\ tx' = contents /\ writer' = r
  BY <1>1, <1>3, WriteUses
<1>7. Advances(r, "committing", subject[r], seen[r], result[r])
  BY <1>1, <1>6 DEF TypeOK, Advances
<1>8. /\ Moves(r, "committing") /\ pc'[r] = "committing"
      /\ command'[r] = command[r] /\ gone'[r] = gone[r]
      /\ subject'[r] = subject[r] /\ seen'[r] = seen[r] /\ result'[r] = result[r]
  BY <1>2, <1>7, StaysTyped, GoesOn
<1>9. /\ Op(r)' = Op(r) /\ RequiredReferences(r)' = RequiredReferences(r)
      /\ Object(r)' = Object(r) /\ NothingDirty(r)' = NothingDirty(r)
      /\ Outcome(r)' = Outcome(r) /\ NewRow(r)' = NewRow(r) /\ EntryOf(r)' = EntryOf(r)
  BY <1>6, <1>8, SameTerms
<1>10. SeenInv(r)' /\ (Adds(r)' => Adds(r))
  BY <1>1, <1>2, <1>6, <1>8, <1>9 DEF RequestInv, SeenInv, Adds, InFlight
<1>11. CheckedInv(r)' /\ GoneInv(r)' /\ LockInv(r)' /\ AnswerInv(r)'
  BY <1>1, <1>6, <1>8, <1>9
     DEF RequestInv, CheckedInv, GoneInv, LockInv, AnswerInv, Acceptable
<1>12. PendingInv(r)'
  <2>1. ASSUME NEW e \in Entities \ {subject[r]}
        PROVE  \/ tx'.rows[e] = db.rows[e]
               \/ Op(r) = "import" /\ e \in Upserted(command[r].payload) /\ Relisting(r, e)'
    <3>1. Relisting(r, e) /\ tx'.rows[e] = tx.rows[e] => Relisting(r, e)'
      BY <1>6, <1>8 DEF Relisting, Differs
    <3>2. tx'.rows[e] = View(r).rows[e]
      BY <1>3, <1>6
    <3> QED
      BY <3>1, <3>2 DEF View, RequestInv, PendingInv
  <2>2. ASSUME Op(r) = "import", NEW e \in Upserted(command[r].payload) \cap gone[r]
        PROVE  Visible(tx'.rows[e])
    BY <1>1, <1>3, <1>6, <2>2 DEF View, RequestInv, PendingInv
  <2> QED
    BY <1>3, <1>4, <1>5, <1>6, <1>8, <1>9, <2>1, <2>2 DEF PendingInv
<1> QED
  BY <1>1, <1>6, <1>8, <1>10, <1>11, <1>12, UseStep DEF RequestInv, AddedApart

-----------------------------------------------------------------------------
(* The row of a competition or a venue with what an import sets of it.     *)
LEMMA ListedRow ==
    ASSUME NEW e \in Competitions \cup Venues, NEW row \in RowOf(e),
           NEW columns \in SUBSET DOMAIN Listed
    PROVE  /\ With(row, Listed, columns) \in RowOf(e)
           /\ With(row, Listed, columns).deleted =
                IF "deleted" \in columns THEN FALSE ELSE row.deleted
<1>1. CASE e \in Competitions
  <2>1. row \in CompetitionRow /\ RowOf(e) = CompetitionRow
    BY <1>1, TableOf
  <2>2. With(row, Listed, columns) \in CompetitionRow
    BY <2>1 DEF With, Listed, CompetitionRow
  <2>3. "deleted" \in DOMAIN row
    BY <2>1 DEF CompetitionRow
  <2> QED
    BY <2>1, <2>2, <2>3 DEF With, Listed
<1>2. CASE e \in Venues
  <2>1. row \in VenueRow /\ RowOf(e) = VenueRow
    BY <1>2, TableOf
  <2>2. With(row, Listed, columns) \in VenueRow
    BY <2>1 DEF With, Listed, VenueRow
  <2>3. "deleted" \in DOMAIN row
    BY <2>1 DEF VenueRow
  <2> QED
    BY <2>1, <2>2, <2>3 DEF With, Listed
<1> QED
  BY <1>1, <1>2

(* A match, its competition and its venue are different rows.              *)
LEMMA ImportTables ==
    ASSUME IInv, NEW r \in Requests, pc[r] \in InFlight, Op(r) = "import"
    PROVE  /\ subject[r] \in Matches /\ command[r].payload \in Game
           /\ Upserted(command[r].payload) \subseteq Competitions \cup Venues
           /\ \A e \in Upserted(command[r].payload) :
                /\ e \in Entities /\ e # subject[r] /\ e \notin Assets
                /\ db.rows[e] # NoRow /\ db.rows[e] \in RowOf(e)
<1>1. subject[r] \in Matches /\ command[r].payload \in Game
  BY StaysTyped, CommandFacts DEF IInv, RequestInv, SeenInv, Op
<1>2. Upserted(command[r].payload) \subseteq Competitions \cup Venues
  BY <1>1 DEF Upserted, Game
<1>3. \A e \in Upserted(command[r].payload) : db.rows[e] # NoRow
  BY DEF IInv, RequestInv, SeenInv
<1> QED
  BY <1>1, <1>2, <1>3, TablesApart, EntitiesOf DEF IInv, KeyInv

(* The competition and venue of an import are written back before its match. *)
LEMMA ApplyEarlierItemsStep == ASSUME IInv, NEW r \in Requests, ApplyEarlierItems(r) PROVE IInv'
<1> USE DEF IInv
<1> DEFINE game == command[r].payload
<1>1. /\ pc[r] = "finding" /\ Op(r) = "import" /\ writer # r
      /\ pc' = pc /\ command' = command /\ subject' = subject /\ seen' = seen
      /\ result' = result /\ gone' = gone
  BY DEF ApplyEarlierItems
<1>2. PICK columns \in [Upserted(game) -> SUBSET DOMAIN Listed] :
        /\ \A e \in DOMAIN columns : Differs(r, e, columns[e])
        /\ Write(r, [View(r) EXCEPT !.rows = Relisted(@, columns)])
  BY DEF ApplyEarlierItems
<1> DEFINE contents == [db EXCEPT !.rows = Relisted(db.rows, columns)]
<1>3. Write(r, contents)
  BY <1>1, <1>2 DEF View
<1>4. pc[r] \in InFlight
  BY <1>1 DEF InFlight
<1>5. \A e \in Upserted(game) :
        /\ Relisted(db.rows, columns)[e] = With(db.rows[e], Listed, columns[e])
        /\ With(db.rows[e], Listed, columns[e]) \in RowOf(e)
        /\ "deleted" \in columns[e] => ~With(db.rows[e], Listed, columns[e]).deleted
  <2> TAKE e \in Upserted(game)
  <2>1. columns[e] \in SUBSET DOMAIN Listed /\ e \in DOMAIN columns
    BY <1>2
  <2>2. /\ e \in Entities /\ e \in Competitions \cup Venues
        /\ db.rows[e] \in RowOf(e)
    BY <1>1, <1>4, ImportTables
  <2>3. Relisted(db.rows, columns)[e] = With(db.rows[e], Listed, columns[e])
    BY <2>1, <2>2 DEF Relisted
  <2> QED
    BY <2>1, <2>2, <2>3, ListedRow
<1>6. \A e \in Entities \ Upserted(game) : Relisted(db.rows, columns)[e] = db.rows[e]
  BY DEF Relisted
<1>7. Relisted(db.rows, columns) \in [Entities -> Rows \cup {NoRow}]
  <2>1. \A e \in Entities : Relisted(db.rows, columns)[e] \in Rows \cup {NoRow}
    BY <1>5, <1>6, RowsOfTables DEF TypeOK, Database
  <2>2. Relisted(db.rows, columns) =
          [e \in Entities |-> Relisted(db.rows, columns)[e]]
    BY DEF Relisted
  <2> QED
    BY <2>1, <2>2
<1>8. /\ contents \in Database /\ contents.log = db.log
      /\ contents.rows = Relisted(db.rows, columns)
  BY <1>7 DEF TypeOK, Database
<1> HIDE DEF contents
<1>9. Uses(r) /\ db' = db /\ tx' = contents /\ writer' = r
  BY <1>3, <1>8, WriteUses
<1>10. Advances(r, "finding", subject[r], seen[r], result[r])
  BY <1>1, <1>9 DEF TypeOK, Advances, Goto
<1>11. /\ Moves(r, "finding") /\ pc'[r] = "finding"
       /\ command'[r] = command[r] /\ gone'[r] = gone[r]
       /\ subject'[r] = subject[r] /\ seen'[r] = seen[r] /\ Op(r)' = Op(r)
  BY <1>1, <1>4, <1>10, StaysTyped, GoesOn
<1>12. SeenInv(r)' /\ (Adds(r)' => Adds(r))
  BY <1>1, <1>9, <1>11 DEF RequestInv, SeenInv, Adds, InFlight
<1>13. CheckedInv(r)' /\ GoneInv(r)' /\ LockInv(r)' /\ AnswerInv(r)'
  BY <1>1, <1>9, <1>11 DEF RequestInv, CheckedInv, GoneInv, LockInv, AnswerInv
<1>14. PendingInv(r)'
  <2>1. ASSUME NEW e \in Upserted(game)
        PROVE  Relisting(r, e)' /\ (e \in gone[r] => Visible(tx'.rows[e]))
    <3>1. columns[e] \in SUBSET DOMAIN Listed /\ Differs(r, e, columns[e])
      BY <1>2
    <3>2. tx'.rows[e] = With(db'.rows[e], Listed, columns[e])
      BY <1>5, <1>8, <1>9
    <3>3. Relisting(r, e)'
      BY <1>11, <3>1, <3>2 DEF Relisting, Differs
    <3>4. e \in Entities
      BY <1>1, <1>4, ImportTables
    <3>5. tx'.rows[e] # NoRow
      BY <1>5, <1>9, <3>2, <3>4, RowsOfTables
    <3> QED
      BY <1>5, <1>9, <3>1, <3>2, <3>3, <3>5 DEF Differs, Visible
  <2>2. \A e \in Entities : e \notin Upserted(game) => tx'.rows[e] = db'.rows[e]
    BY <1>6, <1>8, <1>9
  <2>3. subject[r] \in Entities /\ subject[r] \notin Upserted(game)
    BY <1>1, <1>4, StaysTyped, ImportTables
  <2> QED
    BY <1>1, <1>8, <1>9, <1>11, <2>1, <2>2, <2>3 DEF PendingInv
<1> QED
  BY <1>1, <1>9, <1>11, <1>12, <1>13, <1>14, UseStep DEF RequestInv, AddedApart

-----------------------------------------------------------------------------
(* A commit, whether its caller hears of it or not. *)
Lands(r) == CommitChange(r) \/ CancelCommit(r)

(* A commit is the request's: its row becomes what it makes of it, and an  *)
(* import may bring back its competition.                                  *)
LEMMA CommitFacts ==
    ASSUME IInv, NEW r \in Requests, Lands(r)
    PROVE  /\ pc[r] = "committing" /\ pc[r] \in InFlight \ {"finding"} /\ writer = r
           /\ db' = tx /\ tx' = tx /\ writer' = NoRequest /\ session' = session
           /\ \E label \in {"done", "unanswered"} : Leave(r, label)
           /\ SeenInv(r) /\ KeyInv
           /\ subject[r] \in Edited /\ subject[r] \in Entities
           /\ db'.rows[subject[r]] = Outcome(r)
           /\ db'.log = db.log \cup {EntryOf(r)}
BY StaysTyped, NoRequestAssumption
   DEF Lands, CommitChange, CancelCommit, Commit, View, IInv, RequestInv, LockInv, PendingInv, InFlight

(* Only an import changes other rows than its own: it lists its competition *)
(* and venue again, and brings no venue back.                              *)
LEMMA CommitElsewhere ==
    ASSUME IInv, NEW r \in Requests, Lands(r), NEW e \in Entities \ {subject[r]}
    PROVE  \/ db'.rows[e] = db.rows[e]
           \/ /\ Op(r) = "import" /\ e \in Upserted(command[r].payload)
              /\ e \in Competitions \cup Venues
              /\ db.rows[e] # NoRow /\ db'.rows[e] # NoRow /\ db'.rows[e] \in RowOf(e)
              /\ db'.rows[e].deleted # db.rows[e].deleted =>
                   e \in Competitions /\ db.rows[e].deleted
<1> USE DEF IInv
<1> SUFFICES ASSUME db'.rows[e] # db.rows[e]
             PROVE  /\ Op(r) = "import" /\ e \in Upserted(command[r].payload)
                    /\ e \in Competitions \cup Venues
                    /\ db.rows[e] # NoRow /\ db'.rows[e] # NoRow /\ db'.rows[e] \in RowOf(e)
                    /\ db'.rows[e].deleted # db.rows[e].deleted =>
                         e \in Competitions /\ db.rows[e].deleted
  OBVIOUS
<1>1. Op(r) = "import" /\ e \in Upserted(command[r].payload) /\ Relisting(r, e)
  BY CommitFacts DEF RequestInv, PendingInv
<1>2. /\ e \in Competitions \cup Venues /\ db.rows[e] # NoRow /\ db.rows[e] \in RowOf(e)
  BY <1>1, ImportTables, CommitFacts
<1>3. PICK columns \in SUBSET DOMAIN Listed :
        tx.rows[e] = With(db.rows[e], Listed, columns) /\ Differs(r, e, columns)
  BY <1>1 DEF Relisting
<1>4. /\ db'.rows[e] \in RowOf(e)
      /\ db'.rows[e].deleted = IF "deleted" \in columns THEN FALSE ELSE db.rows[e].deleted
  <2>1. db'.rows[e] = With(db.rows[e], Listed, columns)
    BY <1>3, CommitFacts
  <2>2. /\ With(db.rows[e], Listed, columns) \in RowOf(e)
        /\ With(db.rows[e], Listed, columns).deleted =
             IF "deleted" \in columns THEN FALSE ELSE db.rows[e].deleted
    BY <1>2, <1>3, ListedRow
  <2> QED
    BY <2>1, <2>2
<1>5. db.rows[e].deleted \in BOOLEAN /\ db'.rows[e] # NoRow
  BY <1>2, <1>4, RowColumns, RowsOfTables
<1> QED
  BY <1>1, <1>2, <1>3, <1>4, <1>5 DEF Differs

(* So rows stay rows of their tables, and none goes away. *)
LEMMA CommitKeepsRows ==
    ASSUME IInv, NEW r \in Requests, Lands(r)
    PROVE  /\ KeyInv'
           /\ \A e \in Entities : db.rows[e] # NoRow => db'.rows[e] # NoRow
           /\ \A e \in Entities \ {subject[r]} : db.rows[e] = NoRow => db'.rows[e] = NoRow
<1>1. Outcome(r) \in RowOf(subject[r]) /\ Outcome(r) # NoRow
  BY CommitFacts, OutcomeRow
<1>2. \A e \in Entities \ {subject[r]} :
        \/ db'.rows[e] = db.rows[e]
        \/ /\ e \in Competitions \cup Venues
           /\ db.rows[e] # NoRow /\ db'.rows[e] # NoRow /\ db'.rows[e] \in RowOf(e)
  BY CommitElsewhere
<1>3. \A e \in Entities : db'.rows[e] # NoRow => db'.rows[e] \in RowOf(e)
  BY <1>1, <1>2, CommitFacts DEF KeyInv
<1>4. \A a \in Assets : a \in Entities /\ db'.rows[a] = db.rows[a]
  BY <1>2, CommitFacts, EntitiesOf, TablesApart
<1> QED
  BY <1>1, <1>2, <1>3, <1>4, CommitFacts DEF KeyInv

(* What the others know is still true. *)
LEMMA CommitOthers ==
    ASSUME IInv, NEW r \in Requests, Lands(r),
           NEW label \in {"done", "unanswered"}, Moves(r, label),
           NEW q \in Requests \ {r}
    PROVE  RequestInv(q)' /\ (Adds(q)' => Adds(q))
<1> USE DEF IInv
<1>1. /\ pc'[q] = pc[q] /\ command'[q] = command[q] /\ subject'[q] = subject[q]
      /\ seen'[q] = seen[q] /\ result'[q] = result[q]
      /\ gone'[q] = {e \in gone[q] : ~Visible(db'.rows[e])} /\ gone'[q] \subseteq gone[q]
  BY PlaceStep DEF Moves
<1>2. writer # q /\ writer' # q
  BY CommitFacts, NoRequestAssumption
<1>3. /\ Op(q)' = Op(q) /\ NewRow(q)' = NewRow(q) /\ Object(q)' = Object(q)
      /\ NothingDirty(q)' = NothingDirty(q)
      /\ RequiredReferences(q)' = RequiredReferences(q)
  BY <1>1, SameTerms
<1>4. LockInv(q)'
  BY <1>1, <1>2, <1>3 DEF RequestInv, LockInv
<1>5. Adds(q)' <=> Adds(q)
  BY <1>1, <1>3 DEF Adds
<1>6. Adds(q) => db'.rows[subject[q]] = NoRow
  <2>1. SUFFICES ASSUME Adds(q) PROVE db'.rows[subject[q]] = NoRow
    OBVIOUS
  <2>2. db.rows[subject[q]] = NoRow /\ subject[q] \in Entities
    BY <2>1, StaysTyped DEF RequestInv, SeenInv, Adds
  <2>3. subject[q] # subject[r]
    <3>1. CASE seen[r] # NoRow
      BY <3>1, <2>2, CommitFacts DEF SeenInv
    <3>2. CASE seen[r] = NoRow
      <4>1. Adds(r)
        BY <3>2, CommitFacts, StaysTyped, CommandFacts DEF SeenInv, Adds, Op
      <4> QED
        BY <2>1, <4>1 DEF AddedApart
    <3> QED
      BY <3>1, <3>2
  <2> QED
    BY <2>2, <2>3, CommitKeepsRows
<1>7. SeenInv(q)'
  <2>1. pc[q] \in InFlight /\ Op(q) = "import" =>
          \A e \in Upserted(command[q].payload) : db'.rows[e] # NoRow
    BY ImportTables, CommitKeepsRows
  <2>2. seen[q] # NoRow => db'.rows[subject[q]] # NoRow
    <3>1. seen[q] # NoRow => pc[q] \in InFlight
      BY DEF RequestInv, SeenInv
    <3> QED
      BY <3>1, StaysTyped, CommitKeepsRows DEF RequestInv, SeenInv
  <2> QED
    BY <1>1, <1>3, <1>5, <1>6, <2>1, <2>2 DEF RequestInv, SeenInv
<1>8. CheckedInv(q)'
  BY <1>1, <1>3 DEF RequestInv, CheckedInv, Acceptable
<1>9. GoneInv(q)'
  BY <1>1, CommitKeepsRows DEF RequestInv, GoneInv, Visible, TypeOK
<1>10. AnswerInv(q)'
  <2>1. pc[q] # "committing" /\ (pc[q] = "auditing" => NothingDirty(q))
    BY <1>2 DEF RequestInv, LockInv
  <2> QED
    BY <1>1, <1>3, <2>1 DEF RequestInv, AnswerInv
<1>11. PendingInv(q)'
  BY <1>1, <1>2, <1>3 DEF RequestInv, PendingInv
<1> QED
  BY <1>4, <1>5, <1>7, <1>8, <1>9, <1>10, <1>11 DEF RequestInv

(* A commit leaves the others' knowledge of their rows true.               *)
LEMMA CommitStep == ASSUME IInv, NEW r \in Requests, Lands(r) PROVE IInv'
<1> USE DEF IInv
<1>0. PICK label \in {"done", "unanswered"} : Leave(r, label)
  BY CommitFacts
<1>1. /\ Moves(r, label) /\ pc'[r] = label /\ seen'[r] = NoRow /\ gone'[r] = {}
      /\ command'[r] = command[r]
  BY <1>0 DEF Leave, Goto, Moves, TypeOK, PC, Ended
<1>2. /\ pc' \in [Requests -> PC]
      /\ \A q \in Requests \ {r} : pc'[q] = pc[q] /\ subject'[q] = subject[q]
  BY <1>1, PlaceStep DEF Moves
<1>3. \A q \in Requests \ {r} : RequestInv(q)' /\ (Adds(q)' => Adds(q))
  BY <1>1, CommitOthers
<1>4. RequestInv(r)' /\ ~Adds(r)'
  <2>1. pc'[r] \notin InFlight /\ pc'[r] # "idle" /\ writer' # r
    BY <1>1, CommitFacts, NoRequestAssumption DEF InFlight
  <2>2. command'[r] # NoRow
    BY <1>1, CommitFacts DEF SeenInv
  <2>3. SeenInv(r)' /\ ~Adds(r)'
    BY <1>1, <2>1, <2>2 DEF SeenInv, Adds, InFlight
  <2> QED
    BY <1>1, <2>1, <2>3 DEF RequestInv, LockInv, CheckedInv, GoneInv, AnswerInv, PendingInv
<1>5. TypeOK'
  BY <1>1, <1>2, CommitFacts DEF TypeOK, Moves
<1>6. KeyInv' /\ NothingPendingWithoutWriter'
  BY CommitFacts, CommitKeepsRows DEF NothingPendingWithoutWriter
<1>7. AddedApart'
  BY <1>2, <1>3, <1>4 DEF AddedApart
<1>8. LogInv'
  <2>1. EntryOf(r).by = r /\ db'.log = db.log \cup {EntryOf(r)}
    BY CommitFacts, EntryTyped
  <2> QED
    BY <1>1, <1>2, <2>1 DEF LogInv, Committed, TypeOK, Database, Entry
<1>9. \A q \in Requests : RequestInv(q)'
  BY <1>3, <1>4
<1> QED
  BY <1>5, <1>6, <1>7, <1>8, <1>9

-----------------------------------------------------------------------------
(* The invariant holds at the start.                                       *)
LEMMA InitInv == Init => IInv
<1> SUFFICES ASSUME Init PROVE IInv
  OBVIOUS
<1>1. PICK rows \in Catalogues : StoreInit([rows |-> rows, log |-> {}])
  BY DEF Init
<1>2. /\ db = [rows |-> rows, log |-> {}] /\ tx = db /\ writer = NoRequest
      /\ session = [r \in Requests |-> "loaded"]
  BY <1>1 DEF StoreInit
<1>3. /\ rows \in [Entities -> Rows \cup {NoRow}]
      /\ \A e \in Entities : rows[e] # NoRow => rows[e] \in RowOf(e)
      /\ \A a \in Assets : rows[a] # NoRow => ~rows[a].deleted
  BY CatalogueAssumption
<1>4. db \in Database
  BY <1>2, <1>3 DEF Database
<1>5. TypeOK
  BY <1>2, <1>4 DEF Init, TypeOK, PC, SessionState
<1>6. KeyInv /\ NothingPendingWithoutWriter /\ LogInv
  BY <1>2, <1>3 DEF KeyInv, NothingPendingWithoutWriter, LogInv
<1>7. \A r \in Requests : /\ pc[r] = "idle" /\ pc[r] \notin InFlight /\ writer # r
                          /\ command[r] = NoRow /\ seen[r] = NoRow /\ gone[r] = {}
  BY <1>2, NoRequestAssumption DEF Init, InFlight
<1>8. AddedApart
  BY <1>7 DEF AddedApart, Adds
<1>9. ASSUME NEW r \in Requests PROVE RequestInv(r)
  BY <1>7 DEF RequestInv, LockInv, SeenInv, CheckedInv, GoneInv, AnswerInv, PendingInv, Adds,
     InFlight
<1> QED
  BY <1>5, <1>6, <1>8, <1>9 DEF IInv

(* A step of nobody changes nothing.                                       *)
LEMMA StutterInv == ASSUME IInv, UNCHANGED vars PROVE IInv'
<1> USE DEF IInv
<1>1. /\ db' = db /\ tx' = tx /\ writer' = writer /\ session' = session
      /\ pc' = pc /\ command' = command /\ subject' = subject /\ seen' = seen
      /\ result' = result /\ gone' = gone
  BY DEF vars, storeVars
<1>2. ASSUME NEW q \in Requests
      PROVE  RequestInv(q)' /\ (Adds(q)' <=> Adds(q))
  <2>1. /\ Op(q)' = Op(q) /\ NewRow(q)' = NewRow(q) /\ Object(q)' = Object(q)
        /\ NothingDirty(q)' = NothingDirty(q)
        /\ RequiredReferences(q)' = RequiredReferences(q)
        /\ Outcome(q)' = Outcome(q) /\ EntryOf(q)' = EntryOf(q)
    BY <1>1, SameTerms
  <2>2. LockInv(q)' /\ SeenInv(q)' /\ (Adds(q)' <=> Adds(q))
    BY <1>1, <2>1 DEF RequestInv, LockInv, SeenInv, Adds
  <2>3. CheckedInv(q)' /\ GoneInv(q)' /\ AnswerInv(q)'
    BY <1>1, <2>1 DEF RequestInv, CheckedInv, GoneInv, AnswerInv, Acceptable
  <2>4. PendingInv(q)'
    BY <1>1, <2>1 DEF RequestInv, PendingInv, Relisting, Differs
  <2> QED
    BY <2>2, <2>3, <2>4 DEF RequestInv
<1>3. TypeOK' /\ KeyInv' /\ NothingPendingWithoutWriter' /\ LogInv'
  BY <1>1 DEF TypeOK, KeyInv, NothingPendingWithoutWriter, LogInv, Committed
<1>4. AddedApart'
  BY <1>1, <1>2 DEF AddedApart
<1> QED
  BY <1>2, <1>3, <1>4

(* Every step keeps the invariant.                                         *)
LEMMA NextInv == IInv /\ [Next]_vars => IInv'
<1> SUFFICES ASSUME IInv, [Next]_vars PROVE IInv'
  OBVIOUS
<1>1. CASE UNCHANGED vars
  BY <1>1, StutterInv
<1>2. ASSUME NEW r \in Requests, Begin(r) PROVE IInv'
  BY <1>2, BeginStep
<1>3. ASSUME NEW r \in Requests, Crash(r) PROVE IInv'
  BY <1>3, ErrorStep
<1>4. ASSUME NEW r \in Requests, Step(r) PROVE IInv'
  <2>1. CASE FindRow(r)
    BY <2>1, FindRowStep
  <2>2. CASE \/ RowNotFound(r) \/ TeamNotFound(r) \/ VenueRefused(r) \/ ReferenceNotFound(r)
             \/ Refuse(r) \/ WriteRefused(r) \/ Busy(r)
    BY <2>2, ErrorStep
  <2>3. CASE ApplyEarlierItems(r)
    BY <2>3, ApplyEarlierItemsStep
  <2>4. CASE FindGame(r)
    BY <2>4, FindGameStep
  <2>5. CASE GameIsNew(r)
    BY <2>5, GameIsNewStep
  <2>6. CASE RequireReferences(r)
    BY <2>6, RequireReferencesStep
  <2>7. CASE Accept(r)
    BY <2>7, AcceptStep
  <2>8. CASE WriteRow(r)
    BY <2>8, WriteRowStep
  <2>9. CASE WriteNothing(r)
    BY <2>9, WriteNothingStep
  <2>10. CASE RecordAudit(r)
    BY <2>10, RecordAuditStep
  <2>11. CASE CommitChange(r)
    BY <2>11, CommitStep DEF Lands
  <2> QED
    BY <1>4, <2>1, <2>2, <2>3, <2>4, <2>5, <2>6, <2>7, <2>8, <2>9, <2>10, <2>11 DEF Step
<1>5. ASSUME NEW r \in Requests, CancelCommit(r) PROVE IInv'
  BY <1>5, CommitStep DEF Lands
<1> QED
  BY <1>1, <1>2, <1>3, <1>4, <1>5 DEF Next

(* How places, lock, rows and pending changes go together, for any rows    *)
(* and requests.                                                           *)
THEOREM InvariantHolds == Spec => []IInv
BY InitInv, NextInv, PTL DEF Spec

(* Every variable keeps its type; in particular a committed or pending row *)
(* has the columns of some table.                                          *)
THEOREM TypeCorrect == Spec => []TypeOK
<1>1. IInv => TypeOK
  BY DEF IInv
<1> QED
  BY InvariantHolds, <1>1, PTL

-----------------------------------------------------------------------------
(* Only its own commit takes a request from "committing" to an end with    *)
(* its change made.                                                        *)
LEMMA OwnCommit ==
    ASSUME TypeOK, [Next]_vars, NEW r \in Requests, Commits(r)
    PROVE  Lands(r)
<1>1. pc[r] = "committing" /\ pc'[r] \in {"done", "unanswered"}
  BY DEF Commits, Committed
<1>2. pc' # pc
  BY <1>1
<1>3. PICK q \in Requests : Begin(q) \/ Step(q) \/ Crash(q) \/ CancelCommit(q)
  BY <1>2 DEF Next, vars
<1>4. CASE Lands(q)
  <2>1. \E place \in {"done", "unanswered"} : Goto(q, place)
    BY <1>4 DEF Lands, CommitChange, CancelCommit, Leave
  <2>2. q = r
    BY <1>1, <2>1 DEF Goto, TypeOK
  <2> QED
    BY <1>4, <2>2
<1>5. CASE ~Lands(q)
  <2>1. pc' = pc \/ \E place \in PC \ {"done", "unanswered"} : Goto(q, place)
    BY <1>3, <1>5 DEF Lands, Begin, Step, FindRow, RowNotFound, TeamNotFound, VenueRefused,
       ApplyEarlierItems, FindGame, GameIsNew, RequireReferences, ReferenceNotFound, Accept,
       Refuse, WriteRow, WriteRefused, WriteNothing, RecordAudit, Busy, Crash, Leave, PC,
       InFlight, Ended
  <2> QED
    BY <1>1, <1>2, <2>1 DEF Goto, TypeOK
<1> QED
  BY <1>4, <1>5

(* Whatever others committed meanwhile, an update leaves the columns alone *)
(* that it was not asked to change.                                        *)
THEOREM NamedColumns == Spec => OnlyNamedColumnsChange
<1>1. ASSUME IInv, [Next]_vars, NEW r \in Requests, Commits(r), Op(r) = "update",
             NEW column \in DOMAIN db.rows[subject[r]] \ DOMAIN command[r].payload
      PROVE  db'.rows[subject[r]][column] = db.rows[subject[r]][column]
  <2>1. Lands(r)
    BY <1>1, OwnCommit DEF IInv
  <2>2. seen[r] # NoRow
    BY <1>1, <2>1, CommitFacts DEF SeenInv
  <2>3. column \notin Dirty(r)
    BY <1>1 DEF Dirty, Changes
  <2> QED
    BY <1>1, <2>1, <2>2, <2>3, CommitFacts, OutcomeRow
<1>2. IInv /\ [Next]_vars =>
        \A r \in Requests : Commits(r) /\ Op(r) = "update" =>
          \A column \in DOMAIN db.rows[subject[r]] \ DOMAIN command[r].payload :
            db'.rows[subject[r]][column] = db.rows[subject[r]][column]
  BY <1>1
<1> QED
  BY <1>2, InvariantHolds, PTL DEF Spec, OnlyNamedColumnsChange

-----------------------------------------------------------------------------
(* The score a game gives fits the status it gives. *)
LEMMA GameFits ==
    ASSUME NEW r \in Requests, SeenInv(r), pc[r] \in InFlight \ {"finding"}, Op(r) = "import",
           command[r].payload \in Game, subject[r] \in Matches
    PROVE  ScoreFits(Object(r))
<1> DEFINE game == command[r].payload  columns == GameColumns(game)
<1>1. {"status", "home", "away"} \subseteq DOMAIN columns
  BY DEF GameColumns
<1>2. /\ columns["status"] = GameStatus(game) /\ columns["home"] = game.finished
      /\ columns["away"] = game.finished
  BY DEF GameColumns
<1>3. \A column \in DOMAIN columns : Object(r)[column] = columns[column]
  <2>1. CASE seen[r] = NoRow
    BY <2>1, ObjectRow, GameRow
  <2>2. CASE seen[r] # NoRow
    <3>1. /\ Changes(r) = columns /\ DOMAIN Changes(r) \subseteq DOMAIN seen[r]
          /\ Object(r) = With(seen[r], Changes(r), DOMAIN Changes(r))
      BY <2>2, ObjectRow DEF Changes
    <3> HIDE DEF columns
    <3> QED
      BY <3>1, WithColumns
  <2> QED
    BY <2>1, <2>2
<1>4. /\ Object(r).status = GameStatus(game) /\ Object(r).home = game.finished
      /\ Object(r).away = game.finished
  <2> HIDE DEF columns
  <2> QED
    BY <1>1, <1>2, <1>3
<1>5. game.finished \in BOOLEAN
  BY DEF Game
<1> QED
  BY <1>4, <1>5 DEF ScoreFits, GameStatus

(* Only a request that was overtaken between its read and its commit can   *)
(* leave a match whose score does not fit its status.                      *)
THEOREM UnracedFit == Spec => UnracedEditsFit
<1>1. ASSUME IInv, [Next]_vars, NEW r \in Requests, Commits(r), subject[r] \in Matches,
             Op(r) # "delete", db.rows[subject[r]] = seen[r]
      PROVE  ScoreFits(db'.rows[subject[r]])
  <2>1. Lands(r)
    BY <1>1, OwnCommit DEF IInv
  <2>2. /\ pc[r] = "committing" /\ pc[r] \in InFlight \ {"finding"} /\ SeenInv(r) /\ KeyInv
        /\ db'.rows[subject[r]] = Outcome(r)
    BY <1>1, <2>1, CommitFacts
  <2>3. Op(r) \in {"create", "update", "import"}
    BY <1>1, <2>2, StaysTyped, CommandFacts DEF Op
  <2>4. ScoreFits(Object(r))
    <3>1. CASE Op(r) \in {"create", "update"}
      BY <1>1, <2>2, <3>1 DEF IInv, RequestInv, CheckedInv, Acceptable, Identified
    <3>2. CASE Op(r) = "import"
      BY <1>1, <2>2, <3>2, ImportTables, GameFits
    <3> QED
      BY <2>3, <3>1, <3>2
  <2>5. /\ Outcome(r).status = Object(r).status /\ Outcome(r).home = Object(r).home
        /\ Outcome(r).away = Object(r).away
    <3>1. CASE seen[r] = NoRow
      BY <2>2, <3>1, ObjectRow DEF Outcome
    <3>2. CASE seen[r] # NoRow
      <4>1. db.rows[subject[r]] \in MatchRow
        BY <1>1, <2>2, <3>2, OutcomeRow, TableOf
      <4>2. {"status", "home", "away"} \subseteq DOMAIN db.rows[subject[r]]
        BY <4>1 DEF MatchRow
      <4>3. \A column \in DOMAIN db.rows[subject[r]] : Outcome(r)[column] = Object(r)[column]
        BY <1>1, <2>2, <3>2, OutcomeRow
      <4> QED
        BY <4>2, <4>3
    <3> QED
      BY <3>1, <3>2
  <2> QED
    BY <2>2, <2>4, <2>5 DEF ScoreFits
<1>2. IInv /\ [Next]_vars =>
        \A r \in Requests :
          /\ Commits(r) /\ subject[r] \in Matches /\ Op(r) # "delete"
          /\ db.rows[subject[r]] = seen[r]
          /\ db'.rows[subject[r]] # db.rows[subject[r]]
          => ScoreFits(db'.rows[subject[r]])
  BY <1>1
<1> QED
  BY <1>2, InvariantHolds, PTL DEF Spec, UnracedEditsFit

-----------------------------------------------------------------------------
(* Rows have the columns they refer to others with. *)
LEMMA ReferenceColumns ==
    ASSUME NEW e \in Edited, NEW row \in RowOf(e)
    PROVE  /\ LookedUp(e) \subseteq ForeignKeys(e) /\ ForeignKeys(e) \subseteq DOMAIN row
           /\ \A column \in ForeignKeys(e) \ LookedUp(e) :
                row[column] \in Assets \cup {NoReference}
<1>1. CASE e \in Competitions \cup Venues
  BY <1>1, TableOf
<1>2. CASE e \in Matches
  <2>1. row \in MatchRow
    BY <1>2, TableOf
  <2> QED
    BY <1>2, <2>1, TableOf DEF MatchRow, MatchReferences
<1>3. CASE e \in Players
  <2>1. row \in PlayerRow
    BY <1>3, TableOf
  <2> QED
    BY <1>3, <2>1, TableOf DEF PlayerRow, PlayerReferences
<1>4. CASE e \in Achievements
  <2>1. row \in AchievementRow
    BY <1>4, TableOf
  <2> QED
    BY <1>4, <2>1, TableOf DEF AchievementRow, AchievementReferences
<1> QED
  BY <1>1, <1>2, <1>3, <1>4 DEF Edited, Identified

(* What a commit makes the row refer to newly, the request asked for.      *)
LEMMA NewReference ==
    ASSUME IInv, NEW r \in Requests, Lands(r), NEW column \in ForeignKeys(subject[r]),
           db.rows[subject[r]] # NoRow => Outcome(r)[column] # db.rows[subject[r]][column]
    PROVE  /\ Outcome(r)[column] = Object(r)[column]
           /\ Op(r) = "import" => Outcome(r)[column] = GameColumns(command[r].payload)[column]
           /\ column \in LookedUp(subject[r]) /\ Outcome(r)[column] # NoReference =>
                Outcome(r)[column] \in RequiredReferences(r)
<1> DEFINE e == subject[r]
<1>1. /\ pc[r] = "committing" /\ pc[r] \in InFlight \ {"finding"} /\ SeenInv(r) /\ KeyInv
      /\ e \in Edited /\ e \in Entities
  BY CommitFacts
<1>2. column \in LookedUp(e) /\ Object(r)[column] # NoReference
        => Object(r)[column] \in References(Object(r), LookedUp(e))
  BY DEF References
<1>3. Op(r) = "import" =>
        /\ e \in Matches /\ command[r].payload \in Game
        /\ column \in MatchReferences /\ column \in DOMAIN GameColumns(command[r].payload)
  BY <1>1, ImportTables, TableOf DEF MatchReferences, GameColumns
<1>4. CASE seen[r] = NoRow
  <2>1. Outcome(r) = NewRow(r) /\ Object(r) = NewRow(r)
    BY <1>1, <1>4, OutcomeRow, ObjectRow
  <2>2. Op(r) = "import" => NewRow(r)[column] = GameColumns(command[r].payload)[column]
    BY <1>3, GameRow
  <2>3. RequiredReferences(r) = References(Object(r), LookedUp(e))
    BY <1>4 DEF RequiredReferences
  <2> QED
    BY <1>2, <2>1, <2>2, <2>3
<1>5. CASE seen[r] # NoRow
  <2>1. Outcome(r) \in RowOf(e) /\ column \in DOMAIN Outcome(r)
    BY <1>1, OutcomeRow, ReferenceColumns
  <2>2. /\ db.rows[e] # NoRow /\ column \in DOMAIN db.rows[e]
        /\ Outcome(r)[column] =
             IF column \in Dirty(r) THEN Changes(r)[column] ELSE db.rows[e][column]
        /\ Object(r)[column] = IF column \in Dirty(r) THEN Changes(r)[column] ELSE seen[r][column]
    BY <1>1, <1>5, <2>1, OutcomeRow
  <2>3. column \in Dirty(r)
    BY <2>2
  <2>4. Outcome(r)[column] = Changes(r)[column] /\ Object(r)[column] = Changes(r)[column]
    BY <2>2, <2>3
  <2>5. Object(r)[column] # seen[r][column]
    BY <2>3, <2>4 DEF Dirty
  <2>6. column \in LookedUp(e) => RequiredReferences(r) = References(Object(r), LookedUp(e))
    BY <2>5 DEF RequiredReferences
  <2>7. Op(r) = "import" => Changes(r)[column] = GameColumns(command[r].payload)[column]
    BY DEF Changes
  <2> QED
    BY <1>2, <2>4, <2>6, <2>7
<1> QED
  BY <1>4, <1>5

(* Nothing that was deleted before a command began, and still is, becomes  *)
(* referred to by the row it commits.                                      *)
THEOREM LongGoneUnreferred == Spec => NoReferenceToLongGone
<1> DEFINE Kept(e) == IF db.rows[e] = NoRow THEN {} ELSE References(db.rows[e], ForeignKeys(e))
<1>1. ASSUME IInv, [Next]_vars, NEW r \in Requests, Commits(r), Op(r) # "delete",
             NEW other \in (References(db'.rows[subject[r]], ForeignKeys(subject[r]))
                              \ Kept(subject[r])) \cap gone[r]
      PROVE  Visible(db'.rows[other])
  <2> DEFINE e == subject[r]
  <2>1. Lands(r)
    BY <1>1, OwnCommit DEF IInv
  <2>2. /\ pc[r] = "committing" /\ pc[r] \in InFlight \ {"finding"} /\ SeenInv(r) /\ KeyInv
        /\ e \in Edited /\ db'.rows[e] = Outcome(r) /\ db' = tx
    BY <1>1, <2>1, CommitFacts
  <2>3. PICK column \in ForeignKeys(e) : other = Outcome(r)[column] /\ other # NoReference
    BY <1>1, <2>2 DEF References
  <2>4. db.rows[e] # NoRow => Outcome(r)[column] # db.rows[e][column]
    BY <1>1, <2>3 DEF References
  <2>5. /\ Op(r) = "import" => other = GameColumns(command[r].payload)[column]
        /\ column \in LookedUp(e) => other \in RequiredReferences(r)
    BY <1>1, <2>1, <2>3, <2>4, NewReference
  <2>6. db.rows[other] # NoRow /\ db.rows[other].deleted
    BY <1>1 DEF IInv, RequestInv, GoneInv
  <2>7. CASE Op(r) = "import"
    <3>1. e \in Matches /\ command[r].payload \in Game
      BY <1>1, <2>2, <2>7, ImportTables
    <3>2. column \in {"team", "competition", "venue"}
      BY <2>3, <3>1, TableOf DEF MatchReferences
    <3>3. other \in {command[r].payload.team} \cup Upserted(command[r].payload)
      BY <2>3, <2>5, <2>7, <3>2 DEF GameColumns, Upserted
    <3>4. other # command[r].payload.team
      BY <1>1, <2>2, <2>7 DEF IInv, RequestInv, CheckedInv
    <3> QED
      BY <1>1, <2>2, <2>7, <3>3, <3>4 DEF IInv, RequestInv, PendingInv
  <2>8. CASE Op(r) # "import"
    <3>1. Op(r) \in {"create", "update"}
      BY <1>1, <2>2, <2>8, StaysTyped, CommandFacts DEF Op
    <3>2. column \notin LookedUp(e)
      BY <1>1, <2>2, <2>5, <3>1 DEF IInv, RequestInv, CheckedInv
    <3>3. other \in Assets
      BY <2>2, <2>3, <3>2, OutcomeRow, ReferenceColumns
    <3> QED
      BY <2>2, <2>6, <3>3 DEF KeyInv
  <2> QED
    BY <2>7, <2>8
<1>2. IInv /\ [Next]_vars =>
        \A r \in Requests : Commits(r) /\ Op(r) # "delete" =>
          \A other \in (References(db'.rows[subject[r]], ForeignKeys(subject[r]))
                          \ Kept(subject[r])) \cap gone[r] :
            Visible(db'.rows[other])
  BY <1>1
<1>3. IInv /\ [Next]_vars =>
        \A r \in Requests : Commits(r) /\ Op(r) # "delete" =>
          LET e == subject[r]
              kept == IF db.rows[e] = NoRow THEN {} ELSE References(db.rows[e], ForeignKeys(e))
          IN  \A other \in (References(db'.rows[e], ForeignKeys(e)) \ kept) \cap gone[r] :
                  Visible(db'.rows[other])
  BY <1>2
<1> QED
  BY <1>3, InvariantHolds, PTL DEF Spec, NoReferenceToLongGone

-----------------------------------------------------------------------------
(* A commit is one command of the history, with the entry of the request;  *)
(* nothing else is visible.                                                *)
LEMMA HistoryCommit ==
    ASSUME IInv, NEW r \in Requests, Lands(r)
    PROVE  History!Next
<1> DEFINE e == subject[r]  entry == EntryOf(r)
<1>1. /\ pc[r] = "committing" /\ pc[r] \in InFlight \ {"finding"} /\ SeenInv(r) /\ KeyInv
      /\ e \in Edited /\ e \in Entities /\ db'.rows[e] = Outcome(r) /\ db' = tx
      /\ db'.log = db.log \cup {entry}
  BY CommitFacts
<1>2. /\ Outcome(r) # NoRow /\ Outcome(r) \in RowOf(e)
      /\ seen[r] = NoRow => Outcome(r) = NewRow(r)
  BY <1>1, OutcomeRow
<1>3. entry.by = r /\ \A other \in db.log : other.by # entry.by
  BY <1>1, EntryTyped DEF IInv, LogInv, Committed
<1>4. entry \notin db.log
  BY <1>3
<1>5. Op(r) \in {"create", "update", "delete", "import"}
  BY <1>1, StaysTyped, CommandFacts DEF Op
<1>6. Op(r) # "import" => /\ entry.op = Op(r) /\ entry.entity = e /\ entry.after = result[r]
                          /\ \A other \in Entities \ {e} : db'.rows[other] = db.rows[other]
  BY CommitElsewhere DEF EntryOf
<1>7. seen[r] # NoRow =>
        /\ db.rows[e] # NoRow /\ db.rows[e] \in RowOf(e) /\ "deleted" \in DOMAIN db.rows[e]
        /\ db'.rows[e].deleted =
             IF "deleted" \in Dirty(r) THEN Changes(r)["deleted"] ELSE db.rows[e].deleted
        /\ Dirty(r) = {} => db'.rows[e] = db.rows[e]
  BY <1>1, OutcomeRow, RowColumns
<1>8. CASE Op(r) = "create"
  <2>1. seen[r] = NoRow
    BY <1>1, <1>8 DEF SeenInv
  <2>2. db.rows[e] = NoRow
    BY <1>1, <1>8, <2>1 DEF SeenInv, Adds
  <2>3. entry.after = db'.rows[e]
    BY <1>1, <1>2, <1>6, <1>8, <2>1 DEF IInv, RequestInv, AnswerInv
  <2>4. History!Create(entry)
    BY <1>1, <1>2, <1>6, <1>8, <2>2, <2>3 DEF History!Create, History!Untouched
  <2> QED
    BY <1>1, <1>3, <1>4, <2>4 DEF History!Next
<1>9. CASE Op(r) = "update"
  <2>1. seen[r] # NoRow
    BY <1>1, <1>9 DEF SeenInv
  <2>2. "deleted" \notin Dirty(r)
    BY <1>1, <1>9, StaysTyped, CommandFacts DEF Dirty, Changes, Op, IsEdit
  <2>3. e \in Reloaded => db'.rows[e] \in {db.rows[e], entry.after}
    <3>1. CASE NothingDirty(r)
      BY <1>7, <2>1, <3>1 DEF NothingDirty
    <3>2. CASE ~NothingDirty(r)
      BY <1>1, <1>6, <1>9, <3>2 DEF IInv, RequestInv, AnswerInv
    <3> QED
      BY <3>1, <3>2
  <2>4. History!Update(entry)
    BY <1>1, <1>2, <1>6, <1>7, <1>9, <2>1, <2>2, <2>3 DEF History!Update, History!Untouched
  <2> QED
    BY <1>1, <1>3, <1>4, <2>4 DEF History!Next
<1>10. CASE Op(r) = "delete"
  <2>1. seen[r] # NoRow /\ ~seen[r].deleted
    BY <1>1, <1>10 DEF SeenInv
  <2>2. "deleted" \in DOMAIN Changes(r) /\ Changes(r)["deleted"] = TRUE
    BY <1>10 DEF Changes, SoftDeletion
  <2>3. "deleted" \in Dirty(r)
    BY <2>1, <2>2 DEF Dirty
  <2>4. History!Delete(entry)
    BY <1>1, <1>2, <1>6, <1>7, <1>10, <2>1, <2>2, <2>3 DEF History!Delete, History!Untouched
  <2> QED
    BY <1>1, <1>3, <1>4, <2>4 DEF History!Next
<1>11. CASE Op(r) = "import"
  <2>1. e \in Matches /\ entry.op = "import"
    BY <1>1, <1>11, ImportTables DEF EntryOf
  <2>2. \A other \in Entities \ {e} : db'.rows[other] = db.rows[other] \/ History!Relist(other)
    BY CommitElsewhere DEF History!Relist
  <2>3. History!Import(entry)
    BY <1>1, <1>2, <2>1, <2>2 DEF History!Import
  <2> QED
    BY <1>1, <1>3, <1>4, <2>3 DEF History!Next
<1> QED
  BY <1>5, <1>8, <1>9, <1>10, <1>11

(* Every step is one of the history, or changes no row and no entry.       *)
LEMMA HistoryStep == IInv /\ [Next]_vars => [History!Next]_<<db.rows, db.log>>
<1> SUFFICES ASSUME IInv, [Next]_vars
             PROVE  History!Next \/ UNCHANGED <<db.rows, db.log>>
  OBVIOUS
<1>1. CASE UNCHANGED vars
  BY <1>1 DEF vars, storeVars
<1>2. ASSUME NEW r \in Requests, Begin(r) \/ Step(r) \/ Crash(r) \/ CancelCommit(r)
      PROVE  History!Next \/ UNCHANGED <<db.rows, db.log>>
  <2>1. CASE Lands(r)
    BY <2>1, HistoryCommit
  <2>2. CASE ~Lands(r)
    <3>1. db' = db
      BY <1>2, <2>2 DEF Lands, Begin, Step, FindRow, RowNotFound, TeamNotFound, VenueRefused,
         ApplyEarlierItems, FindGame, GameIsNew, RequireReferences, ReferenceNotFound, Accept,
         Refuse, WriteRow, WriteRefused, WriteNothing, RecordAudit, Busy, Crash, Abandon,
         Write, FlushError, ExitWithError, Discard, storeVars
    <3> QED
      BY <3>1
  <2> QED
    BY <2>1, <2>2
<1> QED
  BY <1>1, <1>2 DEF Next

(* Every behaviour of the rows and the audit log is one of the history.    *)
THEOREM Refinement == Spec => ImplementsHistory
<1>1. Init => History!Init
  BY DEF Init, StoreInit, History!Init
<1>2. IInv /\ [Next]_vars => [History!Next]_<<db.rows, db.log>>
  BY HistoryStep
<1> QED
  BY <1>1, <1>2, InvariantHolds, PTL DEF Spec, ImplementsHistory, History!Spec

=============================================================================
