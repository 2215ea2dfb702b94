# Verification of Bingee Desktop

TLA+ models, TLC runs and TLAPS proofs for Bingee Desktop, a Rust and Slint
application that keeps a Library of movies and series in SQLite and gets their
metadata from TMDB. Paths below are relative to `src/`, the repository.

The program has one UI thread. Every handler (a click, a timer, a delivered
answer) runs there to its end, the database is used only there, and each store
operation is one transaction. Blocking calls (TMDB, the credential store,
poster files) run on four workers (`src/network.rs`), whose results are posted
back to the UI thread in whatever order they finish. Nothing in flight is ever
cancelled. What is hard is therefore not locking but *time*: what a handler
decided before a request need not be true when the answer comes.

Run everything from this directory: `tlc -config X.cfg M` for the runs listed
in PROJECT.json, `tlapm M_proofs.tla` for the proofs.

## Inventory

| Component | State | Operations | Hard behaviour | Correct when |
|---|---|---|---|---|
| Automatic refresh (`refresh.rs`) | queue, seen, active, in-flight, pause, invalid token; timers | startup timer, switch, token announcement, answer, failure | late answers, queue growing while drained, pauses against old timers | one request at a time, nothing asked twice a cycle, quiet in pauses, pauses end, stale titles refreshed |
| Discover (`search.rs`, `remote.rs`) | query, generation, waiting, pages per media type, selection, badges | edit, debounce, load more, answer, select, add, remove | stale answers and timers, pages that overlap, two media types failing apart | results belong to the query, nothing listed twice, the spinner ends, badges and selection true |
| Credential (`remote.rs`, `secrets.rs`) | token, status, entry in the OS store | load, save, check, remove, image base | jobs on different workers, programmatic checks, restarts | never stuck busy, only accepted tokens kept, status true |
| Network pool (`network.rs`) | job queue | run, post | order of results | each job delivered once |
| TMDB client (`tmdb.rs`) | none | search, details, season, validate, images | classification of failures | 401, 429 and the rest told apart |
| Detail pane (`detail.rs`) | title and season generations, pending requests, loaded rows | select, settle timer, refresh, answers, watch and rate | answers for another title, season list changing under a request, older answer saved last | what is shown belongs to the selection, pending flags end |
| Metadata and tracking store (`metadata.rs`, `tracking.rs`, `release.rs`, `library.rs`) | media, identities, seasons, episodes, coverage, watch events, ratings, release events | save, save_episodes, watch and unwatch, rate, add, remove, dismiss | renumbered episodes, empty answers, re-adding, history against current state | watched state survives every fetch, coverage true, an episode announced once |
| Posters (`poster.rs`) | RAM cache, in flight, failed, files | image, load, arrived, cleanup | duplicate requests, crashes between write and rename, eviction | one download, no partial file with a final name, budget kept |
| Backup (`backup.rs`, `backup_page.rs`) | pending backup, files, the database | export, check, safety copy, restore | crashes between file steps, restore against answers in flight, two validations written apart | a file is complete or refused, restore is all or nothing, what is accepted can be restored |
| Database (`database.rs`, `profile_lock.rs`) | schema version, lock | open, migrate, clean orphans | crashes, second process | old or new version, one writer |
| Pages (`view.rs`, `home.rs`, `dashboard.rs`, `calendar.rs`, `history.rs`, `release_page.rs`) | page on screen, selection, pane, month and day | open, search, select, toggle, delete, mark read | changes made from another page, selection through five ways | what is on screen is what is stored |
| Statistics (`statistics.rs`, `statistics_page.rs`) | range | queries | clocks set back, bucket boundaries, absent runtimes | cards, bars and split agree with the events |
| Wiring (`main.rs`), settings, paths, diagnostics | widgets | callbacks | announcements missing between pages | every page hears of a change |

Interactions: `remote` owns the token and writes `SharedToken`; `refresh` and
`detail` read it. `remote` announces `token-changed` when a token appears or
goes away. A 401 to an automatic request calls `tmdb-check`. Adding and
removing titles announce `library-changed` and `membership-changed`. The detail
pane and the automatic refresh save the same rows through `metadata::save`. A
change made in one place is announced (`library-changed`, `membership-changed`,
`metadata-changed`, `release-events-changed`), and each page decides which
announcements it reads again for. A restore replaces every row while answers to
requests made before it are still out.

## Modules

| Module | Models | Built on |
|---|---|---|
| `RefreshCoordinator` | `refresh.rs` with its surroundings | community modules |
| `Discover` | `search.rs` driven by the handlers of `remote.rs` | community modules |
| `Credential` | token lifecycle of `remote.rs` and `secrets.rs` | standard modules |
| `DetailPane` | `detail.rs` over `metadata.rs`, with the automatic refresh as a second writer | community modules |
| `Store` | the tables of series, seasons and episodes: `library.rs`, `metadata.rs`, `release.rs`, progress in `tracking.rs`, and what each page computes from them | community modules |
| `Tracking` | watched state and history (`tracking.rs`), statistics (`statistics.rs`, `statistics_page.rs`) | community modules |
| `Pages` | the window's pages over the data, and the announcements between them | `Tracking` |
| `Identity` | local ids against provider identities: `library.rs`, `metadata.rs`, `tmdb.rs`, `backup.rs` | community modules |
| `Backup` | backup contents, `validate`, the schema's constraints | community modules |
| `Custody` | abstract: what is promised about the user's data | `Functions` |
| `Profile` | lock, database file, migrations, backup files, restore, several processes | `Custody`, by refinement |
| `Posters` | `poster.rs` | community modules |

`MCRefreshCoordinator`, `MCDiscover`, `MCStore`, `MCPages`, `MCIdentity`,
`MCBackup`, `MCProfile` and `MCPosters` give the constants their values for TLC.
`RefreshCoordinator_proofs`, `Discover_proofs`, `Credential_proofs`,
`Identity_proofs`, `Profile_proofs`, `Pages_proofs` (with those of `Tracking`),
`StoreAndBackup_proofs` and `DetailAndPosters_proofs` hold the theorems. The last
two serve two components each; `Posters` and `Backup` therefore have their own
prefix before the names every module has (`PostersSpec`, `BackupInit`, ...).

How the modules compose. Each asks one question of the system and takes the
rest of it in the coarsest form that question allows. `Tracking` is the part of
the data that the pages share; `Pages` extends it and adds the window. `Store`
and `Tracking` divide the database: `Store` has seasons, coverage, renumbered
episodes and the cascade, and reduces the history to "has an event"; `Tracking`
has times, runtimes and the events, and reduces a series to one season.
`Identity` reduces a row to the title it belongs to, `Backup` a database to its
rows, `Profile` a database to one value that is replaced as a whole.

### RefreshCoordinator

The variables `queue`, `seen`, `active`, `inFlight` and `invalid` are the
coordinator's `State`; `pause` is the time left until `pause_until`; `timers`
counts single-shot timers by time left; `jobs` are the requests with the pool.
The database is reduced to what the selection reads: `member`, `age` (ticks
since the fetch, or never), `older` (the order of fetch times, kept beside the
capped ages) and `partial` (fewer episodes stored than announced). Each handler
is one action, down to its end: an answer is saved, changed seasons queued and
the next request sent in one step (`DetailsArrived`), because that is one
callback on the UI thread. Answers are classified as `tmdb.rs` does: 401, 429
and everything else. `begin`'s parameter `force` only skips a check that is
repeated in the next condition, so the model has none. `Faults` and
`Environment` say what may happen around the coordinator; apart from them, a
title or season list may vanish from TMDB for good (`Vanish`, `missing`) and
answers 404 from then on. `asked` is a history variable.

### Discover

`side` holds the two media types' pages; results carry the query, token and page
they came from (provenance only the properties read). Every action ends in
`Render`, as every handler ends in `remote.render`: membership is looked up
again if the list or the library changed, the selection is re-established.
`Status` and `SearchView` are what the page says of a search. The interleaving
of the two lists on screen matters only for the top row.

### Credential

`jobs` has a slot for each outstanding job; a job moves through the stages its
closure runs on a worker (read the store, ask TMDB, write the store, delete) and
is delivered to its handler in a separate step, so jobs overlap as they do on
different workers. Searches and automatic refreshes appear as far as a 401 answer
changes the status or starts a check. `TmdbView` is what Settings shows.
`Restart` keeps the entry in the store and drops everything else; it can happen
between any two steps.

### DetailPane

`pane` is the pane's `State`; `media` is what `metadata.rs` stores, reduced to
fetch times: of a title's details, and of each listed season's episodes. The
domain of `seasons` is the list itself, so a details answer may add and drop
seasons (`SaveDetails`) and a late episodes answer may make a dropped one again
(`SaveEpisodes`). `LoadDetails` is called on every path the code calls it on,
including its side effect: when the shown season is gone, the default one takes
its place under a new season generation. `fetch_details` and `fetch_episodes` are
one step in the handlers that call both; `WantedDetails` and `WantedEpisodes` are
their guards, in the code's order. `MediaDetail` and `SeasonPanel` are what the
pane shows. A week is the unit of time, the length of `FRESH_FOR`. Removing a
title keeps its metadata (ADR-0010), so for the pane it is a change of the
selection. `behind` is a history variable: it says that a save happened of which
the pane is not told (an answer of an earlier visit, the automatic refresh), or
that the last read failed.

### Store

The variables are the tables. A season's row has the announced count and
`known`, the number of episodes the last answer had (`Unknown` before the first
answer); an episode's row has its provider id. Constants `Summaries` and
`Answers` are what TMDB may send, as it is sent: unordered, with repeats,
negative counts, absent numbers. `SeasonList` and `Listed` reduce it as the
client does, `Upsert` is the loop of `save_episodes`, number by number, with the
effect of `INSERT OR REPLACE` on the unique provider id and what each turn found,
`Cascade` is the foreign key. The second
half of the module is what is read: `NextEpisode` (the pane), `NextKnown` and
`UpNext` (Home), `Standing` (Statistics), `LibraryStatus` (the Library row),
`ProgressView` and `SeasonRowView` (the pane), each after its own SQL or loop,
because the code has one query for each and they must agree. Home lists eight
series in progress and eight that are caught up: `Taken` takes `HomeLimit` of
those that qualify, and leaves open which, for Home's order is a matter of times
and titles the module does not have. `ScreensAgree` therefore says that a series
under Up Next has the next episode of all other screens, and that one missing
there is one the limit cut off.

### Tracking and Pages

`watchedAt` is the watched state, `events` the history, `now` the system clock,
which only the user moves, in either direction. `Statistics(r)` is one reading
of the history for a range, with the code's bucket arithmetic. `given` is what
TMDB says of a target, its runtime and its name; `called` are the names stored.
An entry of History is an event with the name it is listed under. A series'
own title stands beside its episodes' and is left out.

In `Pages` an action is a handler with all the handlers it invokes and the
change handlers that run when it returns: `Announce` says who reads again after
a change. A page is read when it is opened, so only the page on screen, `shown`,
is kept, next to the Library list, the pane and the month and day the calendar
keeps; `Content` is what each page reads. Settings is not a page here, for it
shows nothing of the data, nor is Statistics, which is computed for every range
in every state instead. One thing on screen may be older than the data: answers
change names, and nothing reads an open History again after them
(`dashboard.rs:62`, `refresh.rs:397`). `PagesAreCurrent` says so: an open
History shows the logged events of now, under names given at some time.

### Identity

A media row is reduced to its media type and the title its texts came from.
`Sent` is what TMDB may send of a title: a text of its own, none, or a blank one;
`TitleOf`, `IsResult` and `RowOf` are the client's treatment of it. Requests
carry a local id and an identity, as the code's do, and any number of steps may
happen before the answer: removal, cleanup, a title added again, a restore.
`Sequence` is `AUTOINCREMENT` as SQLite keeps it.

### Custody, Profile and Backup

`Custody` is the promise: the data changes by use, by an export nothing changes
and no name is taken twice, and a restore replaces the data by a complete
backup while a complete backup of the old data exists. `Profile` is the
detailed system: startup with lock, refusal and migration, export as the disk
sees it (temporary file, hard link, or the copying fallback with its incomplete
file), the safety copy, and the replacing transaction, for several processes of
different releases that die at any step. The mapping forgets the lock, the
transaction and the processes; an incomplete file counts as absent:
`Promise == INSTANCE Custody WITH data <- rows, archive <- [q \in Paths |-> Whole(files[q])]`.

`Backup` looks into the one value `Profile` moves: eleven tables as sets of
records, a file as sequences of them, `Accepted` as `validate` checks it, `Schema`
as the tables are constrained, `Fits` whether every INSERT of a restore is taken.
The two were written apart, in Rust and in SQL, and are translated apart. A file
may be altered between export and choice. `validate` asks for more than the schema
does; `WritersKeep` is what makes exports pass nevertheless: row ids count from
one, times are times, and `add` stores a provider's name with every title. The
libraries that are exported are assumed to keep both (`BackupAssumption`, which
TLC evaluates for those of the run). A file is a header (format, version, time,
release), checked by `HeaderValid`, and the data. `Read` is `read_from_path`: it
refuses a file above `MaxSize` before it looks at it. The code's limit is 256 MiB;
the model counts rows. `export_to_path` has no limit, nor has the model's.

### Posters

`ram` is the LRU list, `used` its running total, `load` the worker's side of each
load, in the steps the disk can see. `last`, TMDB's last answer in the session,
is a history variable. `Damage` is somebody else's doing.

## Runs

| Run | Result | Shows |
|---|---|---|
| refresh_safety | holds | one request at a time, nothing asked twice in a cycle, quiet pauses that have a timer; with every fault and environment step |
| refresh_liveness | holds | the next check is under way or set, cycles end, stale titles are refreshed unless a missing one was fetched no later; with a movie that vanishes and tokens revoked |
| discover_search | holds | results of the current search only, listed once, the spinner and "no results" true, badges and selection true, searches end |
| credential_life | holds | busy has a reason and ends, the status agrees with the token, only accepted tokens are kept |
| detail_pane | holds | indicators, title, season and episodes agree with the selection and the store, with late answers, failing reads and a second writer |
| library | holds | coverage is true, five screens give one answer, Home's limit included, an episode is announced once, personal data outlives metadata |
| pages | holds | the page on screen, the list and the pane are current after every change, names on an open History excepted; statistics agree with the history; history is a log |
| profile | holds | no step is seen half-done, one writer, `Custody` is implemented |
| posters | holds | RAM bounded and counted right, no partial file with a final name, TMDB asked sparingly, loads end |
| backup | holds | an export within the limit restores to the same rows; what is accepted the database takes |
| identity | holds | rows keep one title's texts and requests their meaning, with backups of this profile |
| rows_mixed | violated | the same with a backup of another profile: Findings |

Bounds, and why they are enough:

- *Refresh.* `Limit = 1` with two titles makes selection leave something out,
  and the queue bound `3 * Limit` is still above one season. Two pauses of
  different length (1 and 2 ticks) and a cycle of 2 let timers of pauses and
  cycles fall due in every order. `MaxTimers = 2` bounds how many timers the
  user's own steps may pile up; errors and cycle ends may add to them. In the
  liveness run a stale movie may vanish while the series is stale as well, was
  fetched before it, after it or never, so the missing title comes first, second
  or not at all. That run leaves out Library changes and database errors, which
  end the chain of timers (Observations).
- *Discover.* Three generations allow an answer from two searches ago. Two pages
  and a page limit of two reach the limit; three announced pages exceed it. Two
  ids in two media types give equal ids of different kind, repeats within a page
  and across pages. The run may stop when its generations are used up and the
  user is idle, so deadlock is not checked.
- *Credential.* Two tokens: one replaced by another. Two slots: a save beside a
  check, a deletion, a search or an image base request. Two sessions: what a
  restart finds. The proofs cover any number of each.
- *DetailPane.* A series and a movie, seasons 0 and 1: a list can be empty, only
  specials, without specials, or both, so the default season and a dropped season
  occur. Season generations up to 3 allow a departure with answers still out;
  answers go beyond the bound, which only stops the user. `MaxOpen = 2` timers
  and requests, counted together when the user acts. One week passes, so times
  are none, fresh and stale. Reading the title may fail; the episodes and
  identity reads are assumed to succeed in this run (`Failing`).
- *Library.* A series with seasons 0 to 2, episode numbers 1 and 2, two provider
  ids and none. Four season lists: specials listed and dropped, counts larger
  and smaller than the rows, negative and absent, a season without a number, a
  season repeated. For season 1 an empty episode list, one episode, both, both
  swapped, one moved to the other's number, an id and a number repeated. With
  `HomeLimit = 1` two series in progress are one more than Home shows, and so are
  two caught up. Two series meet only there and in their ids, so the second one
  goes through its life in one way (`Neighbour`): it is added and watched before
  the first is known, in part or to the end, and then stays as it is. What is rated
  has no announcement in this run: no action reads both but the cleanup, which
  asks for neither.
- *Pages.* A movie and a series of two episodes: a season half watched. The clock
  is 0 or 1 and may be set back; days, months and years are one unit, so each
  boundary of the calendar and of every range is crossed. Two events: a watch
  and a rewatch, or two titles, in both orders of time. Pages are turned while
  at most one event was logged (`QuietEvents`); later events change the page that
  is open. Two entries on History, one under Home's recent, so that both limits
  cut something off or just not. The movie is renamed by an answer (`draft`,
  `final`), also while its watches are on screen.
- *Profile.* Two processes of releases 1 and 2, files of version 0, 1 and 2,
  foreign files; three libraries; two names the user may choose, so that one can
  be taken while the other is free; two safety names.
- *Posters.* Sizes 1, 2 and 3 with a budget of 2: one that fits beside nothing,
  one that evicts, one that never fits. `RetryAfter` 1 and a clock of 0 and 1: a
  retry too early and in time.
- *Backup.* A library that uses every table and every kind of row, one with a
  series only, an empty one, and one that is a row larger. `MaxSize` is the size of
  the second largest: a file at the limit and one over it. Up to two alterations
  of a file, so that one hides what the other breaks.
- *Identity.* The numbers 0 (none) and 1: a movie and a series share a number.
  Three local ids, two requests, one backup file.

Fairness: timers fire, the clock moves, workers finish (every request has a 10 s
connect and a 15 s overall timeout, `docs/milestones/R7.md`) and the event loop
delivers results; nothing is assumed of the user. `refresh_liveness` also assumes
that a title asked for again and again is answered at last (strong fairness of
`Refreshes(k)`), without which being offline for ever is a counterexample. A
missing title is never answered: the action is not enabled for it.
`Posters` assumes the same of workers and event loop, and of nothing else: its
process may exit at any time, which ends every load too.

## Findings

*A late answer is saved under the wrong title after a restore* (`rows_mixed`).
`details_arrived` saves an answer under the local id its request was made for
(`src/src/detail.rs:531`), on the ground that it is that title's data whichever
one is on screen, and that local ids are never reused (`src/src/database.rs:29`).
A restore inserts the ids of the file. With a backup of another profile, an id
means another title from then on, and the row of one movie gets the texts of
another until its own details are fetched. The automatic refresh does the same.
For backups of the same profile the property holds, and is proved.

### Observations

Made while translating. No run is spent on them: each is read off the lines
named, and where a property would otherwise hide one, its comment names it.

- A title removed during its automatic request ends the chain of six-hour checks
  until something else starts a cycle (`refresh.rs:389`): the answer is dropped
  and no timer is set. ADR-0026 (line 16): "While enabled, it checks every six
  hours". `ChecksGoOn` holds as long as titles stay in the Library.
- Replacing a rejected token by an accepted one is not announced, so automatic
  work stays suspended (`remote.rs:649`). ADR-0026 (line 25): "An invalid token
  stops automatic work until credential state changes". `SetToken` announces what
  the code does; `ChecksGoOn` and `StaleIsRefreshed` ask nothing while a token is
  refused.
- Any failed request, a 404 included, clears the queue (`refresh.rs:425`), and
  the same title is first again. A title that is gone from TMDB, but still in the
  Library, therefore keeps those waiting for ever that were fetched after it.
  `StaleIsRefreshed` is stated, and holds, for the others (`Overtaken`).
- An open History keeps the names it was opened with when an automatic answer
  brings others (`dashboard.rs:62`, `refresh.rs:397`).
- A backup larger than 256 MiB can be written, as an export and as a safety copy
  (`backup.rs:860`), but not be read again (`backup.rs:963`).
- A ninth series in progress has no place under Up Next (`home.rs:97`), and
  nothing says so.
- A removal of the token may delete the one saved after it (`remote.rs:580`).
- A selection that settles while another page is shown is not fetched when the
  Library is shown again (`detail.rs:484`).
- Two episodes that swap provider ids are announced although both were stored:
  `INSERT OR REPLACE` deletes the second row before its turn (`metadata.rs:557`).
  So are an episode that a shorter answer had dropped, and all episodes that
  follow a first, empty answer. `AnnouncedIsNew` admits the moved id by name.
- A poster larger than the whole 12 MiB budget is never held, and its rows ask
  for it on every reading. A failure to write the file is not remembered, so the
  next reading downloads again at once; ADR-0011 (lines 48–49) counts it among the
  failures that wait 60 seconds. `AskedSparingly` speaks of TMDB's failures only.
- Statistics take the earliest `watched_at` for the first watch; ADR-0020 (line
  28) says first recorded event. They differ after the clock was set back.
  `StatisticsAgree` follows the code: its figures agree with each other and with
  the history, read that way.
- `validate` does not look at a season's blank id and at a series' `watched_at`
  (`backup.rs:449`): such a file passes the check, and its restore fails and is
  rolled back. `CheckedIsTaken` names the two columns in `Overlooked`.
- A restore announces only `library-changed`; the page asks for a restart.
- A grey day of the calendar can be selected and says that no episodes are known
  on that date, because only the month's were read.
- A title opened without a Library row leaves the pane at the next
  `library-changed` (`main.rs:414`).
- Statistics are not read again after an automatic refresh while they are shown.

## Proofs

TLAPS proves, for all values of the constants allowed by the ASSUMEs, that the
properties listed under `theorems` in PROJECT.json hold of `Spec`. The arguments:

- *RefreshCoordinator.* `RefreshInv` is inductive. `OneJob` says `active`,
  `inFlight` and "the pool holds a request" are the same thing between handlers,
  which is why `begin`'s guard suffices. `QueueOnce` (queued tasks are distinct
  and in `seen`) and `AskedOnce` (asked tasks are in `seen` and no longer queued)
  together give `AskedOncePerCycle`: a task is appended only if it is not in
  `seen`, so neither queued nor asked. `PauseInv` ties a pause to its timer: both
  count down with the same tick, and every way to start work checks the pause.
  `ChecksContinue` proves `ChecksGoOn` for any Library that nobody changes and a
  database that does not fail: every handler that ends a cycle or a pause leaves
  a cycle or a timer behind, and a timer that falls due starts one or sets the
  next. The proof needs the Library to be finite (`FiniteLibrary`), so that the
  selection has a length, and that pauses are not longer than a cycle.
- *Credential.* `CredentialInv` adds `LoadFirst` (until the store was read, there
  is nothing else outstanding, so the guard in `loaded` never drops the token)
  and `AcceptedOnTheWay` (tokens in read and validated jobs were accepted).
- *Discover.* `DiscoverInv` adds `NotLater` (no request is ahead of the
  generation, so a restarted search has nothing in flight) and `PagesInOrder` (a
  pending page follows the loaded ones; sides are empty while the search waits).
  The core is `CurrentAnswer`: by `WaitsForSomething`, a request of the current
  generation is the very one its side waits for, with the current query and
  token; any other answer has an old generation and changes nothing.
  `LoadedSide` then shows that appending keeps pages ordered and ids distinct,
  `RenderInv` that looking memberships up only after a change is enough.
  Assumed: a page limit above zero, no blank query and no empty token among
  `Queries` and `Tokens`.
- *Profile.* `Consistent` is inductive and is itself checked by a run. Its parts
  lean on each other: who is past the startup page holds the lock (`LockIsHeld`),
  so between the snapshot of a safety copy and the commit nobody else changes the
  rows (`CopyIsCurrent`), so at the commit a complete backup of the old rows
  exists, and what is committed is a complete backup too (`SelectionIsBackup`).
  That is `Replace` of `Custody`. `PublishSaves` shows that a link, or the end of
  a copy, is its `Save`; every other step is an `Edit`, an `Arrive` or a stutter.
- *Backup.* Table by table, the conjunction of `validate`'s checks implies the
  schema's constraints, except for the two overlooked columns (`ChecksSuffice`);
  `CheckedIsTaken` follows because nothing gets selected that did not pass.
- *Identity.* `IInv` says three things at once: of the database, that identities
  and rows are one to one and texts are their own; of every backup file, the same
  and that its ids were given out by this profile's sequence; and of every id
  ever given out, that it has meant one title only, in the database, in files
  and in requests. The last is what a restore needs, and `MeaningStays` why every
  other step keeps it. Assumed: `Foreign = {}`, without which `rows_mixed` is the
  counterexample.
- *Posters.* `LoadInv` ties each stage of a load to `in_flight`, `failed` and
  TMDB's last answer. It is weaker than "failed remembers the answer": a load that
  ends on the disk's copy clears `failed`, but it had started only after the
  waiting time, which is over since then. `RamInv` is the cache: no key twice, and
  `used` is the sum of the entries' sizes. `BytesOfParts` splits that sum at any
  entry, so what `Lru::insert` evicts is what it takes off `used`; `KeptFits` says
  that the number of entries its loop evicts exists.
- *DetailPane.* `PaneInv`: the shown title and season belong together (`Belongs`);
  no timer (`TimersBehind`) and no request is ahead of the generations, and one of
  the current generation is exactly what the flags say (`Agrees`). So an answer is
  either for what is shown or for something left behind, which changes the store
  only; `behind` says when the store is then ahead of the pane.
- *Store.* `StoreInv` says of each title, apart from the others, that its coverage
  is the number of its rows, that rows have seasons and that personal data hangs on
  a stored title. The work is in the loop of `save_episodes`: `LoopWrites` says
  what is stored after each turn, by which a provider id that moves takes its row
  along once and none is stored twice. `ScreensAgree` is then counting:
  `TitleCounts` adds up the seasons' rows, `NextIsFirst` shows that a search by
  seasons and one by number find the same episode, and the percentage reaches 100
  only when no row is left (`Hundred`). `TakenIsFull` is Home's limit: whoever is
  left out is left out because the list is full. Assumed of the answers is only how they
  arrive, as finite lists of entries.
- *Backups restored.* `Whole` (schema, writers, finite tables) is invariant for the
  program's own rows, even after restoring a file edited by somebody else: what
  passes `validate` has all that `WritersKeep` says (`AcceptedIsKept`). Any list of
  a whole library's rows passes (`ListAccepted`), and its rows are that library.
  The size is a premise: the theorem is about exports up to `MaxSize`.
- *Pages.* `LogInv`: ids were given out once, up to `lastId`; `SeasonPlaced` shows
  that the episodes of a season recorded together get distinct ids, by the
  cardinalities of the sets before each. `ChoiceInv`: list, selection and pane
  belong together; `ReloadChooses` is the one lemma behind every announcement.
  `PageInv`: what is on screen is what its queries return now; `SameContent` says
  what a page's content depends on, and the rest is that every handler that
  changes one of those tables reads that page again, or is never invoked while it
  is open. Assumed: finitely many episodes, for the ids.
- *Statistics.* `StatInv` says that the events are finitely many, of known targets,
  with ids of their own; it says nothing of the order of their times, for the clock
  may be set back. `SumOfSizes` turns every sum that the code takes over groups
  into the size of one set, if the groups have no member in common. Each figure
  then counts what its neighbour counts: bars are the events by age (`OneBucket`,
  `BarsReach`), rewatches the events that are not their target's oldest
  (`RewatchesOf`), minutes and genres pairs of an event and a minute or a genre.
  Assumed: a title has finitely many genres.

Induction over numbers and finite sets, where a proof needs it, is done with sets
in the place of predicates (`NaturalInduction`, `FiniteInduction`, `LeastOfNaturals`),
derived from the library's well-founded orders.

Every safety invariant and action property of a passing run is proved,
`ChecksGoOn` under the two assumptions above. Only
model-checked are the liveness properties (`CycleEnds`, `StaleIsRefreshed`,
`SearchEnds`, `BusyEnds`, `LoadEnds`): fairness speaks of ENABLED, which is beyond
the prover. What is proved is proved of the models; that they are the code is a
matter of reading, with `map` in PROJECT.json. Assumed everywhere is that the
constants are what their ASSUME says.

## Not modelled

- `Profile`: nobody but the program removes backup files; temporary files left by
  a crash are not tracked; that a SQLite transaction is atomic is taken from SQLite.
- `Posters`: temporary files have names of their own and are never read; that an
  unused file is a month old is a choice; one process uses the cache. Pixels are
  sizes, the image base URL and the statistics of the cache are left out.
- `Backup`: the settings row, and columns that both sides leave alone; columns
  that both check alike are one. A file's size is its number of rows.
- `Pages`: jumping to the season of an episode that was opened from another page,
  the mark of today, the calendar's notice about coverage, the limits of Home's
  lists other than its recent history (for Up Next and Caught Up, see `Store`).
- `Tracking`: genres beyond the eighth, the Library part of Statistics, time zones
  (days are given). Genres are stored by `save` for nobody else.
- `Identity`: season answers are saved by local id as details are, and are not
  modelled a second time.
- `DetailPane`: the title's texts, facts and posters; the personal state it shows is
  in `Pages`.
- `Discover`: kinds of errors; `total_results`. A restore leaves its badges stale
  until the restart the page asks for.
- `RefreshCoordinator`: clocks set back, a database that opens only after startup,
  and restoring a backup, which changes the setting without the switch showing it.
- The order in which the pool starts jobs, and its shutdown with jobs outstanding
  (except where a restart abandons them). Wording, layout, themes, logs, paths,
  diagnostics and benchmark fixtures.

## Plan

Done: all components with state of their own are modelled and checked, and their
safety is proved. Left, in this order:

1. Proofs that lead from safety towards liveness without fairness: a measure that
   each answer decreases, so that a cycle and a search cannot run for ever.
2. `DetailPane` with versions of answers, so that an older answer saved over a
   newer one can be told, and an abstract specification, a cache that shows the
   latest saved version of the selection.
3. `RefreshCoordinator` over `Store`, so that the queue is filled from real
   coverage.
4. Home's order in `Store`, so that it is known which eight it shows, and two
   series that both change, once it can be afforded.
