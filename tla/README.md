# Verification of the Predatory Beavers backend

TLA+ models, TLC runs and TLAPS proofs of the parts of this backend in which
several requests share state: the unit of work over SQLite, imports from ASB,
sessions and login, standings, media uploads, the matches that both
administrators and imports write, players and achievements, and what visitors
read while all of this is written. The line references of every definition are
in `PROJECT.json` ("map"); the paths below are relative to
`src/src/predatory_beavers/`.

## The system

One FastAPI process serves a public read API and an admin API. Every HTTP
request gets, from dishka, one `AsyncSession` and one `SqlAlchemyUnitOfWork`
over it. All requests run interleaved on one asyncio loop and share one
database (SQLite through aiosqlite in the configuration the repository ships),
the directory of the local object storage and one `LoginGuard`. A task can be
cancelled at an `await` (client disconnect under `BaseHTTPMiddleware`, shutdown)
and the process can die there. The driver runs its statements in a thread of its
own, so a task cancelled while it awaits its COMMIT leaves a committed
transaction and a request that nobody is answered.

| Component | State | Operations | Interacts with |
| --- | --- | --- | --- |
| Unit of work (`db/uow.py`, `db/session.py`) | open transaction, write lock, ORM objects of the session | enter, flush, commit, rollback, exit | every service |
| Import jobs (`modules/imports`) | `import_jobs` rows | create, mark running, fetch, apply, complete, mark failed, list | ASB client, ASB applier, audit log |
| ASB applier (`imports/asb_applier.py`, `asb_mapping.py`) | rows of competitions, venues, matches, standings | look up by external identity, insert, update, publish | import jobs; the rows administrators edit |
| ASB client (`integrations/asb`) | none | fetch a bundle, check the response | import jobs |
| Sessions (`modules/auth`) | `auth_sessions` rows, one CSRF token each | login with pruning, logout, CSRF rotation, authorise | every admin endpoint |
| Login guard (`auth/service.py`) | sliding windows per login and client in a bounded table, password slots | consume an attempt, verify a password | login |
| Standings (`modules/standings`) | snapshots, one current per (team, competition) | publish, archive, delete, list | imports, audit log |
| Matches, competitions, venues (`modules/matches`) | rows with soft delete and external identity | create, update, delete | imports, audit log |
| Media (`modules/media`, `integrations/object_storage`) | asset rows and files | upload, read | audit log |
| Audit log (`modules/audit`) | append-only entries | record in the caller's transaction | all commands |
| Club (teams, players) and achievements (`modules/club`, `modules/achievements`) | rows with soft delete that refer to teams and media assets | create, update, delete, read | media, audit log |
| Public reads (`modules/home`, lists of `modules/matches`) | none of their own; one identity map per request | home feed, list by pages | matches and competitions as committed |
| API shell, settings, logging, CLI, migrations, Telegram interface, worker loop | none that requests share | wiring | |

What is hard here, and what tests of one request at a time do not reach
("hazards" in `PROJECT.json` lists each at its line):

* **Reads before the lock.** Services SELECT, decide, and then flush. In SQLite
  a SELECT takes no lasting lock and `FOR UPDATE` locks nothing, so the decision
  may be stale when the first INSERT or UPDATE takes the write lock: pruning of
  sessions, "already current" of an import, existence checks, validation of a
  match, uniqueness checks, deduplication of images.
* **Errors inside a unit of work.** A rollback expires every ORM object of the
  session, a failed flush makes the transaction inactive; code that handles the
  error and still uses the objects raises again.
* **Several transactions per request.** An import has up to four, an upload two
  and a file; a crash, cancellation or lock timeout may fall between any two.
* **Cancellation during COMMIT.** What the caller learns and what is committed
  differ: a login nobody has the cookie of has displaced other sessions, an import
  nobody was told of is complete.
* **One write lock.** Each flush may wait for another request and give up after
  `busy_timeout`.
* **Reads of several SELECTs.** Without a transaction each SELECT sees what is
  committed at its own moment: the two of the home feed, the count and the page
  of a list, one page and the next. The identity map mixes what they saw.
* **Bounded tables.** The login guard evicts keys when it is full.

## Modules

### `SqliteUnitOfWork`: the database all components extend

`db` is what is committed, `writer` the request that holds the write lock, `tx`
the database as the writer sees it, and `session[r]` says whether the objects
of r's session are readable ("loaded"), expired by a rollback, or in an
inactive transaction. `Write` is a flush (needs the lock and keeps it),
`Commit`, `FlushError` and `ExitWithError` are the three ways a block of the
unit of work goes on. `Abandon` is a task cancelled or a process dead before its
COMMIT was sent; one that was sent is carried out by the driver's thread all the
same, so every component has, besides `Crash` (which abandons), an action
`CancelCommit` that commits and ends the request at the place "unanswered". The
`except BaseException` clauses and `__aexit__` roll back after that, when there is
nothing left to roll back. `View(r)`
is what a SELECT of r returns: its own pending changes if it writes, the
committed state otherwise. SQLAlchemy and SQLite are external; their behaviour
is modelled from how the repository configures and uses them.

### `ImportJobs`, abstract specification `ImportLedger`

One request's `import_asb` from the router's call to the answer, one action per
statement group between awaits: INSERT of the job (or the 409 of the partial
unique index), commit, mark running, commit, fetch (or one of the ASB errors),
then for every item of the bundle a lookup and an insert, update, replacement
or nothing, then completion, audit entry, commit; and the `except` path with
`HandleFailure`, `HandlerRaises`, `SaveFailed`, `CommitFailed`. A bundle is a
sequence of external identities; a row is its content, its soft-delete flag and
its last writer. `Merge` is the ORM's UPDATE of the columns that differ from
what was read. `AdminDelete` is the environment: a soft delete by another
request. `Catalogues` are the rows there may be when the first request comes.
Each of the up to three transactions of an import may be the one whose COMMIT is
cancelled: the job is then left pending or running, which blocks its target like a
crash does, or it is completed or failed and nobody was told. `ResponseMatchesJob`
says that this is the only way in which answer and job history differ.
`ImportLedger` has no locks and no sessions: jobs move
pending, running, completed or failed, one in flight per target, and rows, entry
and completion appear in one step.

### `AuthSessions`, abstract specification `SessionRegistry`

Logins (SELECT of the active sessions, then one flush that revokes those beyond
the cap and inserts the new one, then commit), logouts, CSRF rotations,
commands and reads, with the expiry of sessions and lock timeouts. A session is
named by its login and a token by the request that issued it. A login that is
cancelled during its COMMIT leaves a session whose cookie no browser has (requests
present only what was answered) and the prunings made for it: `Written` are the
requests whose effect is committed, answered or not. `SessionRegistry`
opens a session and closes the displaced ones in one step, never reopens one and
never accepts a replaced token.

### `LoginGuard`

`_consume_attempt` is atomic on the loop, so `Refuse`, `Admit` and `LoseLogin`
are whole calls: eviction and insertion of the login's key, popping of old
attempts, the same for the client, and the charging of both. `LoseLogin` is the
call in which adding the client's key evicts the login's own and the second
loop raises `KeyError`. `Acquire` and `Finish` are the semaphore around the
password threads. The cancellation of a login that waits for a slot or a thread is
not modelled: `EveryAdmittedAnswered` is about clients that wait.

### `Standings`, abstract specification `StandingsHistory`

Publication (check, archive the current snapshot, insert, audit), deletion
(read, soft delete, audit) and the import's publication, for any number of
pairs, with lock timeouts, crashes, cancelled COMMITs and a competition deleted
meanwhile.
`StandingsHistory` publishes and archives in one step.

### `MediaUpload`, abstract specification `MediaLibrary`

`upload_image`: processing, the lookup by checksum in a unit of work of its own,
the file, the row with its audit entry, and the deletion of the file after any
error, also a cancelled task. `CancelCommit` is a cancellation that arrives
while COMMIT runs in the driver's thread and succeeds.

### `Catalogue`, abstract specification `CatalogueHistory`

The commands of `MatchService`, `CompetitionService`, `VenueService`,
`PlayerService` and `AchievementService` and the match an import upserts share
one shape: `FindRow` (or `FindGame`), `RequireReferences`, for rows with an
external identity `Accept` or `Refuse` (identity, then the score or the
coordinates), `WriteRow`, `RecordAudit`, `CommitChange`. Everything before
`WriteRow` reads without a lock. A row has the columns the checks look at; a
score and a coordinate are there or not; `deleted_at` and the logos of a match
are left out. Teams and media assets are rows that others refer to and no
command edits. `LookedUp` are the references a service looks up, `ForeignKeys`
those the database checks: the photo of a player is only among the latter, so an
image that does not exist is refused by the flush. `Dirty` are the columns the
ORM's UPDATE names: those whose new value differs from the one read. `Answer` is
where the repositories differ: matches, players and achievements (`Reloaded`) are
read again after the flush, competitions and venues are not, so only the entries
of the former are sure to tell the row that was committed. `WriteRefused` is the
IntegrityError of a unique index, which deleted rows stay in, or of a foreign
key. Which commands requests may ask for is the constant
`Menus`: the requests of one behaviour choose from one menu.

An import looks its team up (`TeamNotFound`), writes its competition and the
venue of the match back (`ApplyEarlierItems`) and then upserts the match
(`FindGame` or `GameIsNew`). `Listed` is what it sets of the former two, and the
UPDATE names what `Differs` from the row it read: `is_deleted` of a competition
that is deleted since before, never of a venue, because the lookup of a venue
skips deleted ones. So `venue.is_deleted = False` has no effect, and an import of
a game at a deleted venue inserts the venue again, which the unique index refuses
(`VenueRefused`). In this module an import has one match, whose competition and
venue exist and keep their external identity while it runs (`Begin`,
`CatalogueAssumption`); several items, and rows an import adds besides the
match, are in `ImportJobs`.

A command is over for its caller at "done"; `Committed` requests are those and the
ones cancelled during their COMMIT, and the properties of what a command does to
its row (`Commits`) are about both.

`gone` is a history variable: what was deleted already when a request began and
was not brought back by an import since. `CatalogueHistory` changes one row (or a
match, its competition and its venue) together with one entry, never removes a
row, lets only deletions and imports touch `is_deleted`, and lets imports only
bring rows back, venues not even that.

### `PublicReads`

One visitor. Either the home feed, `AskForFeed`, `SelectNext`, `SelectResults`:
`Upcoming` and `Sooner` are the filter and the order of `next_public_match`,
`Results` and `RecentResults` those of `recent_public_results`; `session` is the
identity map, which keeps a row as it was first read. Or the pages of a list
filtered by a status, `AskForList` and then `CountRows` and `SelectPage` for each
page until `total_pages`: `Page` is ORDER BY, OFFSET and LIMIT. Between any two
SELECTs `CommitTable`, the environment, changes matches or opens and closes a
competition; which changes other components really commit is left open, so the
properties hold whatever they do. `steady`, `overtaken`, `receded` and `late` are
history variables that say which matches were there all the time and before
which of them others came in or left; the properties compare with `Awaited` and
`Told`, the feed's purpose, and not with the filters.

## Runs

Every run uses model values for requests, rows and contents. `Faults` says which
faults of the environment may occur.

| Run | Instance | Shows |
| --- | --- | --- |
| `import_safety` | 3 imports, 2 targets, a competition, a venue all bundles share and that may be there before, a table, 2 contents; timeouts, crashes, cancelled COMMITs | `IInv`, one active job per target, rows, entry and completed job together, answer agrees with history but for cancelled COMMITs, lock released, refines `ImportLedger` |
| `import_answer` | 2 imports, crashes, fairness | every submitted import is answered; a failed fetch is recorded |
| `import_conflict` | 2 imports, no faults | *violated*: a 409 "already running" for a target nobody works on |
| `auth_sessions` | one user under a cap of 1: 3 logins with a logout or a rotation; 2 logins with both; or a login, a logout, two rotations, a command and a read | only a login whose own session was committed displaces a session, the cap is restored, a request that arrives with stale credentials never succeeds, refines `SessionRegistry` |
| `auth_over_cap` | 2 logins | *violated*: more active sessions than `auth_max_active_sessions` |
| `login_guard` | 5 attempts, 2 logins, 2 addresses, table of 3 keys, 2 slots, times 0..3 | frequency bounded except for evicted keys, table bounded, nobody refused early, every admitted attempt answered |
| `standings` | 1 publication, 2 imports of one table, 2 deletions, an old snapshot, one pair | one current snapshot, every change audited, a repeated import keeps the snapshot, refines `StandingsHistory` |
| `media` | 4 uploads, 3 of one image, one of an image that exists | assets keep their files, no stray file after an answer, refines `MediaLibrary` |
| `media_duplicate` | 2 uploads, no faults | *violated*: an upload of a known image ends in an error |
| `catalogue` | 3 requests that each ask for anything of one menu. *Matches* (14 commands): 4 edits of a match, its deletion, the creation of another, 5 imports (of a game known or not known yet, with or without a venue, one for a team that does not exist), an edit and the deletion of its competition, the deletion of a venue. *Venues* (6): edits and the deletion of a venue that is visible or deleted, one of which gives up its identity, the creation of another with that identity, an edit of a match that names the venue. *Roster* (10): edits, creations and deletions of players and achievements, some with a team or an image that does not exist. Timeouts and crashes | `IInv`; an update changes only the columns it names, only overtaken edits leave a score that does not fit, neither a command nor an import makes a row refer to what was deleted before it began and still is, refines `CatalogueHistory` |
| `catalogue_scores` | 2 edits of one match, no faults | *violated*: a cancelled match with a score |
| `reads` | 3 matches of 2 competitions, each in any of 5 states, over 2 commits that change one match, two at once or a competition; the feed with 2 results, or pages of two rows | the feed loses no match that finishes meanwhile, tells results as results except the one it also tells as next, and pages show a match that stays once unless a commit pushed it across a border |

**Bounds.** Two requests are enough for every race of the code (a stale read
needs one other writer); three are there so that a third can act on what a race
of two left behind (a third import after a failed one, a login that meets the
excess of two others, a third upload that finds the row after a refused one).
The second target, image and login separate what must not affect each other.
The menus of `catalogue` are the tables whose rows a command checks together.
`Catalogues` of the import runs has one competition and one table that an import
left, and the venue both there and not, so that an import meets rows it updates,
keeps and inserts.
`Casts` of `auth_sessions` and `Menus` of `catalogue` say what occurs together:
the union of two casts or menus would only multiply interleavings of requests
that share no row. `MaxCommits` of `reads` is two, one commit before and one
after each SELECT that matters; three matches on pages of two rows are the smallest
list with a border to be pushed across and a last page that is not full, where
`total_pages` must be rounded up (the theorems hold for any page size). `MaxTime` and `MaxTracked` of `login_guard` are chosen so that windows end and
the table overflows within the run. A cap of one session is the smallest and
makes every login prune; the proofs are for any cap. `auth_sessions`, `media` and
`catalogue` use symmetry over requests that are interchangeable; they check
safety only.

**Deadlock** is not checked: all requests of an instance may be over.

**Fairness.** `FairSpec` of `ImportJobs` and `LoginGuard` is weak fairness of
every request's own next step: asyncio resumes a task whose await is done,
`fetch_import` has a timeout, threads return. Nothing is assumed of the
environment: nobody has to submit, fail, crash, delete or let time pass.

## Disagreements found

* A failure while a bundle is applied leaves the job RUNNING
  (`imports/service.py:118`): the handler reads `job.id` after the rollback
  expired it. Later imports get the 409 "already running" for ever.
* Concurrent logins exceed the session cap (`auth/service.py:157`). A later login
  that sees them all brings the user back under the cap, which `CapRestored`
  states.
* An image that is an asset already is answered with an error
  (`media/service.py:82`): leaving the unit of work without a commit rolls back
  and expires the asset the router is about to read.
* Two PATCHes of one match, each valid for the row it read, leave a cancelled
  match with a score (`matches/services/match.py:119`). `UnracedEditsFit` states
  what does hold: the next edit or import that is not overtaken repairs the match
  or is refused.

Also visible in the models, stated as exceptions of properties: a cancelled
COMMIT deletes the file of a committed asset (`AssetsReadable`, place "undone");
a full table of the login guard may evict a key that is still inside its window
(`FrequencyBounded` excepts evicted keys) or the very login being charged
(`LoseLogin`); a match that finishes between the two SELECTs of the home feed is
told twice with the row of the first (`ResultsToldOnce` excepts the next match);
offset pages skip a match that an earlier one left behind, and show one twice
that an earlier one pushed back (`PagesComplete`, `PagesDistinct`); a game at a
venue an administrator deleted cannot be imported (`VenueRefused`); a competition
deleted while an import works on its match stays deleted, and the match refers to
it (`NoReferenceToLongGone` speaks of what was deleted before); a login cancelled
during its COMMIT logs another session out and leaves one that nobody holds and
that counts towards the cap until it ends (`DisplacedByASession` asks for a
committed session, not for an answered login); an import cancelled during one of
its first COMMITs leaves a job that blocks its target like the failed handler does
(`JobAt("unanswered")`).

Hazards that are modelled and that no property judges, because the repository
does not say what is to happen ("hazards" has a note at each): the clock that
decides between SCHEDULED and POSTPONED (`asb_mapping.py:24`, a free choice in
`GameStatus`), the `KeyError` of the login guard (`auth/service.py:94`,
`LoseLogin`), the `before` of a deleted snapshot that was read without the lock
(`standings/service.py:108`, `EntryOf`), and the home feed's next match told again
among the results (`home/service.py:23`, which `ResultsToldOnce` excepts).

## Proofs

The theorems hold for every value of the constants under the named assumptions
of the modules (`ImportAssumption`, `AuthAssumption`, `StandingsAssumption`,
`NoRequestAssumption`, ...), which say that requests of different kinds are
different and that the constant functions have the right domains.
`CatalogueAssumption` says that primary keys are not shared between tables, that
bodies are those the routers accept, that the rows at the start are of their
tables and fit the database, that no image is deleted at the start (nothing in the
repository deletes one), and that nobody edits the external identity of a
competition or venue that an import at the same time is about.

The proof modules have one shape. The safety properties alone are not
inductive: that rows, entry and completed job appear together follows only from
what the *uncommitted* database of the lock's holder contains. `IInv` therefore
adds: who may hold the lock at which place (`WriterInv`, `LockInv`), exactly how
`tx` differs from `db` at each place (`PendingInv`), and what the committed state
says about a request that is at a place (`JobInv`, `SnapshotInv`, `SessionInv`).
TLC checks `IInv` in a run of each module before it is proved. Then one lemma for
each kind of step of the unit of work (a quiet step, a write, a commit, a
discard), one per action that instantiates it, and `InitInv`, `NextInv`, `Spec =>
[]IInv`. The invariants, the action properties and the refinement theorems follow
from `IInv`; a refinement maps each commit to a step of the abstract
specification and every other step to a stutter.

| Module | Theorems |
| --- | --- |
| `ImportJobsProofs` | `InvariantHolds`, `TypeCorrect`, `OneActive`, `AtomicApplication`, `AnswerAgrees`, `LockAlwaysReleased`, `Refinement` |
| `AuthSessionsProofs` | `InvariantHolds`, `TypeCorrect`, `Displaced`, `StaleRefused`, `CapIsRestored`, `Refinement` |
| `StandingsProofs` | `InvariantHolds`, `TypeCorrect`, `OnlyOneCurrent`, `EveryChangeAudited`, `RepeatedImport`, `Refinement` |
| `MediaUploadProofs` | `InvariantHolds`, `TypeCorrect`, `Readable`, `Accounted`, `Refinement` |
| `CatalogueProofs` | `InvariantHolds`, `TypeCorrect`, `NamedColumns`, `UnracedFit`, `LongGoneUnreferred`, `Refinement` |
| `LoginGuardProofs` | `InvariantHolds`, `Bounded`, `TableStaysBounded`, `RefusedLate` |
| `PublicReadsProofs` | `InvariantHolds`, `NothingLostHolds`, `ResultsToldOnceHolds`, `PagesCompleteHolds`, `PagesDistinctHolds` |

`MediaUpload` follows the same pattern, with `FileInv` for the files: which
places of an upload mean that its own file is there.

The catalogue's invariant has to say what a commit will make of a row that others
may still change. `Outcome` is that row: the columns of the request's UPDATE over
whatever is committed, or the new row. `PendingInv` says that the writer's `tx`
holds exactly the outcome, its entry and, for an import, the competition and
venue listed again (`Relisting`), and that a request without the lock that is past
its flush had nothing to write (`LockInv`). When another request commits,
an outcome keeps its columns, so `OnlyNamedColumnsChange` and, with
`Acceptable(Object)` of `CheckedInv`, `UnracedEditsFit` follow from the last step
alone; the lemmas `MixedRow`, `ChangedRow` and `ObjectRow` show that rows mixed
from several edits are rows of their table. For references, `CheckedInv` keeps
what the services looked up apart from `gone`, `GoneInv` ties `gone` to the
committed rows, and the columns that an UPDATE leaves alone refer to what the row
referred to before. `AddedApart` keeps two new rows from having one key, and
`AnswerInv` is why the entry of a reloaded row tells the committed one, which the
refinement needs.

The bound of the login guard needs a count that survives the clock: `CountInv`
compares, for *every* moment of the window, the attempts a deque keeps after it
with the admissions after it, so that a tick only takes moments away and
`popleft`, which takes a prefix of a deque in order (`TimesInv`), changes no
count. Evicted keys keep the inequality that `RefusedOnlyWhenFull` needs and lose
the other.

For the visitor, `ListInv` says on which side of the client's page a steady match
is by its `Rank`, the number of rows ahead of it: a commit that brings nobody in
before it and takes nobody away leaves the rank's side alone, and the last page
ends after the counted rows (`TotalPagesEnough`). `FeedInv` says that a steady
match that was not the next one is a result already; that a feed with room tells
every result needs a latest one of those it leaves out (`RoomForAll`).

Only model-checked: liveness (`EveryImportEnds`, `FetchFailureRecorded`,
`EveryAdmittedAnswered`: TLAPS has no backend for fairness). Every invariant,
action property and refinement that a passing run checks is proved as well. The
four violated statements are false, and their counterexamples are TLC's.

## Not modelled

The other list endpoints, which page in the way of the matches, and single
lookups (reads that change nothing); the wiring of the API shell, its headers and
request id, settings, logging and CLI (no state that requests share, or run while
the server is stopped); the Telegram client and the worker (an interface and an
idle loop). Teams and media assets change no more in `Catalogue`: the repository
has no command for a team and `MediaUpload` models the uploads. Passwords,
tokens, images and tables are values: Argon2, SHA-256 and WebP are not computed.
Of the applier the dates, the club's side and the report's counters, of the ASB
client the checks of the response are left out: they are sequential and end in
the errors that `FetchFails` and `ApplyRejected` already have.

## Plan

1. The derivation of a match from a game as functions checked against the
   documented rules, and the report of a repeated import (`asb_mapping.py`).
2. The validation of a published table (`standings/schemas.py`).
3. What holds of the rows an import adds besides its match in the catalogue, so
   that `ImportJobs` and `Catalogue` share one picture of an import.
