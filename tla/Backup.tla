------------------------------- MODULE Backup -------------------------------
(***************************************************************************)
(* What a backup holds, what is checked before it is restored, and what    *)
(* the database accepts (backup.rs, database.rs): the rows of every        *)
(* durable table, the checks of `validate`, and the constraints of the     *)
(* schema, which are written apart and must agree.                         *)
(*                                                                         *)
(* A backup file is anybody's to change before it is chosen. Columns that  *)
(* both sides check alike are one field; columns neither checks are left   *)
(* out. The module Profile has the files and the crashes.                  *)
(***************************************************************************)
EXTENDS Integers, FiniteSets, SequencesExt

CONSTANTS
  Text,       \* strings
  Blank,      \* the empty one
  Dates,      \* strings that look like a date
  Sources,    \* strings that may name a provider
  Tmdb,       \* the one whose ids are checked
  Numerals,   \* strings that are a positive number without leading zero
  Stamps,     \* integers that are a time
  Format,     \* the name of the format
  App,        \* the version of the program
  Now,        \* the time exports are made at
  MaxSize,    \* the 256 MiB above which no file is read, in rows
  None,       \* an absent column
  Libraries,  \* databases the program's writers leave behind
  Values,     \* field name -> what somebody may write there
  MaxAltered  \* bound on the alterations of files

VARIABLES
  tables,     \* the database: table -> set of rows
  file,       \* the backup file: table -> sequence of rows, or None
  altered,    \* how often a file was altered
  pending     \* BackupPage::pending: the checked backup, or None

backupVars == <<tables, file, altered, pending>>
-----------------------------------------------------------------------------
Kinds == {"movie", "tv"}
Opt(S) == S \cup {None}

\* `BackupV1` but for its data, and the arrays of `BackupData`, as the parser
\* types them.
Header == [format : Text, version : Int, created : Int, app : Text]
Media == [id : Int, type : Text, title : Text, date : Opt(Text), runtime : Opt(Int),
          count : Opt(Int), stamp : Opt(Int)]
ExternalRef == [media : Int, type : Text, source : Text, external : Text]
LibraryEntry == [media : Int, added : Int]
Genre == [source : Text, external : Text, name : Text]
MediaGenre == [media : Int, source : Text, external : Text]
Season == [media : Int, number : Int, external : Opt(Text), date : Opt(Text),
           count : Opt(Int), stamp : Opt(Int)]
Episode == [media : Int, season : Int, number : Int, external : Opt(Text),
            date : Opt(Text), runtime : Opt(Int), stamp : Opt(Int)]
MediaTracking == [media : Int, type : Text, watched : Opt(Int), rating : Opt(Int)]
EpisodeTracking == [media : Int, season : Int, number : Int, watched : Int]
WatchEvent == [id : Int, media : Int, type : Text, season : Opt(Int), number : Opt(Int),
               watched : Int, runtime : Opt(Int)]
ReleaseEvent == [id : Int, media : Int, season : Int, number : Int, kind : Text,
                 found : Int, read : Opt(Int), date : Opt(Text)]

BackupData ==
  [media : Seq(Media), refs : Seq(ExternalRef), library : Seq(LibraryEntry),
   genres : Seq(Genre), links : Seq(MediaGenre), seasons : Seq(Season),
   episodes : Seq(Episode), tracking : Seq(MediaTracking),
   episode_tracking : Seq(EpisodeTracking), events : Seq(WatchEvent),
   releases : Seq(ReleaseEvent)]

BackupV1 == [header : Header, data : BackupData]

Tables == {"media", "refs", "library", "genres", "links", "seasons", "episodes",
           "tracking", "episode_tracking", "events", "releases"}
-----------------------------------------------------------------------------
\* What rows are unique by.
Id(r) == r.id
MediaId(r) == r.media
Identity(r) == <<r.source, r.type, r.external>>
GenreKey(r) == <<r.source, r.external>>
LinkKey(r) == <<r.media, r.source, r.external>>
SeasonKey(r) == <<r.media, r.number>>
EpisodeKey(r) == <<r.media, r.season, r.number>>
ExternalKey(r) == <<r.media, r.season, r.external>>

Unique(rows, key(_)) == \A i, j \in DOMAIN rows : key(rows[i]) = key(rows[j]) => i = j

\* Episodes of a season with the same provider id.
UniqueIds(rows) ==
  \A i, j \in DOMAIN rows :
    rows[i].external # None /\ ExternalKey(rows[i]) = ExternalKey(rows[j]) => i = j

HasMedia(b, id, type) == \E i \in DOMAIN b.media : b.media[i].id = id /\ b.media[i].type = type
HasId(b, id) == \E i \in DOMAIN b.media : b.media[i].id = id
HasGenre(b, r) == \E i \in DOMAIN b.genres : GenreKey(b.genres[i]) = GenreKey(r)
HasSeason(b, r) == \E i \in DOMAIN b.seasons : SeasonKey(b.seasons[i]) = <<r.media, r.season>>
Referred(b, id) == \E i \in DOMAIN b.refs : b.refs[i].media = id

\* `timestamp`, `date`, and the bounds the checks share.
Timestamp(n) == n \in Opt(Stamps)
Date(v) == v \in Opt(Dates)
Positive(n) == n # None => n > 0
Natural(n) == n # None => n >= 0
Rating(n) == n \in Opt(1..10)
ExternalId(source, id) == id # Blank /\ (source = Tmdb => id \in Numerals)
-----------------------------------------------------------------------------
\* `validate`: the header, then array by array.
HeaderValid(h) ==
  h.format = Format /\ h.version = 1 /\ h.created \in Stamps /\ h.app # Blank

MediaValid(b) ==
  /\ \A i \in DOMAIN b.media : LET m == b.media[i] IN
       /\ m.id > 0 /\ m.type \in Kinds /\ m.title # Blank /\ Date(m.date)
       /\ Positive(m.runtime) /\ Natural(m.count) /\ Timestamp(m.stamp)
  /\ Unique(b.media, Id)

RefsValid(b) ==
  /\ \A i \in DOMAIN b.refs : LET r == b.refs[i] IN
       r.source \in Sources /\ ExternalId(r.source, r.external) /\ HasMedia(b, r.media, r.type)
  /\ Unique(b.refs, Identity)
  /\ \A i \in DOMAIN b.media : Referred(b, b.media[i].id)

LibraryValid(b) ==
  /\ \A i \in DOMAIN b.library : HasId(b, b.library[i].media) /\ b.library[i].added \in Stamps
  /\ Unique(b.library, MediaId)

GenresValid(b) ==
  /\ \A i \in DOMAIN b.genres : LET g == b.genres[i] IN
       g.source \in Sources /\ g.external # Blank /\ g.name # Blank
  /\ Unique(b.genres, GenreKey)

LinksValid(b) ==
  /\ \A i \in DOMAIN b.links : HasId(b, b.links[i].media) /\ HasGenre(b, b.links[i])
  /\ Unique(b.links, LinkKey)

SeasonsValid(b) ==
  /\ \A i \in DOMAIN b.seasons : LET s == b.seasons[i] IN
       /\ HasMedia(b, s.media, "tv") /\ s.number >= 0
       /\ Date(s.date) /\ Natural(s.count) /\ Timestamp(s.stamp)
  /\ Unique(b.seasons, SeasonKey)

EpisodesValid(b) ==
  /\ \A i \in DOMAIN b.episodes : LET e == b.episodes[i] IN
       /\ HasSeason(b, e) /\ e.number >= 0 /\ e.external # Blank
       /\ Date(e.date) /\ Positive(e.runtime) /\ Timestamp(e.stamp)
  /\ Unique(b.episodes, EpisodeKey) /\ UniqueIds(b.episodes)

TitleTrackingValid(b) ==
  /\ \A i \in DOMAIN b.tracking : LET t == b.tracking[i] IN
       HasMedia(b, t.media, t.type) /\ Timestamp(t.watched) /\ Rating(t.rating)
  /\ Unique(b.tracking, MediaId)

\* Mutant of EpisodeTrackingValid: the episode must be listed.
EpisodeTrackingListed(b) ==
  /\ \A i \in DOMAIN b.episode_tracking : LET t == b.episode_tracking[i] IN
       /\ \E j \in DOMAIN b.episodes : EpisodeKey(b.episodes[j]) = EpisodeKey(t)
       /\ t.watched \in Stamps
  /\ Unique(b.episode_tracking, EpisodeKey)

\* The episode itself need not be listed any more.
EpisodeTrackingValid(b) ==
  /\ \A i \in DOMAIN b.episode_tracking : LET t == b.episode_tracking[i] IN
       /\ HasMedia(b, t.media, "tv") /\ t.season >= 0 /\ t.number >= 0
       /\ t.watched \in Stamps
  /\ Unique(b.episode_tracking, EpisodeKey)

\* Mutant of EventsValid: the target is looked at by type only.
EventsByType(b) ==
  /\ \A i \in DOMAIN b.events : LET e == b.events[i] IN
       /\ e.id > 0 /\ e.type = "movie" => e.season = None
       /\ HasMedia(b, e.media, e.type) /\ e.watched \in Stamps /\ Positive(e.runtime)
  /\ Unique(b.events, Id)

EventsValid(b) ==
  /\ \A i \in DOMAIN b.events : LET e == b.events[i] IN
       /\ e.id > 0
       /\ \/ e.type = "movie" /\ e.season = None /\ e.number = None
          \/ /\ e.type = "tv" /\ e.season # None /\ e.number # None
             /\ e.season >= 0 /\ e.number >= 0
       /\ HasMedia(b, e.media, e.type) /\ e.watched \in Stamps /\ Positive(e.runtime)
  /\ Unique(b.events, Id)

ReleasesValid(b) ==
  /\ \A i \in DOMAIN b.releases : LET e == b.releases[i] IN
       /\ e.id > 0 /\ HasMedia(b, e.media, "tv") /\ e.season >= 0 /\ e.number >= 0
       /\ e.kind = "new_episode" /\ e.found \in Stamps /\ Timestamp(e.read) /\ Date(e.date)
  /\ Unique(b.releases, EpisodeKey) /\ Unique(b.releases, Id)

Accepted(b) ==
  /\ MediaValid(b) /\ RefsValid(b) /\ LibraryValid(b) /\ GenresValid(b) /\ LinksValid(b)
  /\ SeasonsValid(b) /\ EpisodesValid(b) /\ TitleTrackingValid(b)
  /\ EpisodeTrackingValid(b) /\ EventsValid(b) /\ ReleasesValid(b)
-----------------------------------------------------------------------------
\* The constraints of each table on the rows in it: checks, keys, references.
\* Types are those of the parser.
Database ==
  [media : SUBSET Media, refs : SUBSET ExternalRef, library : SUBSET LibraryEntry,
   genres : SUBSET Genre, links : SUBSET MediaGenre, seasons : SUBSET Season,
   episodes : SUBSET Episode, tracking : SUBSET MediaTracking,
   episode_tracking : SUBSET EpisodeTracking, events : SUBSET WatchEvent,
   releases : SUBSET ReleaseEvent]

Distinct(S, key(_)) == \A r, s \in S : key(r) = key(s) => r = s
IsMedia(l, id, type) == \E m \in l.media : m.id = id /\ m.type = type
IsId(l, id) == \E m \in l.media : m.id = id

MediaFits(l) ==
  /\ \A m \in l.media :
       /\ m.type \in Kinds /\ m.title # Blank /\ Date(m.date)
       /\ Positive(m.runtime) /\ Natural(m.count)
  /\ Distinct(l.media, Id)

RefsFit(l) ==
  /\ \A r \in l.refs :
       /\ r.source \in Sources /\ r.type \in Kinds
       /\ ExternalId(r.source, r.external) /\ IsMedia(l, r.media, r.type)
  /\ Distinct(l.refs, Identity)

LibraryFits(l) ==
  (\A r \in l.library : IsId(l, r.media)) /\ Distinct(l.library, MediaId)

GenresFit(l) ==
  /\ \A g \in l.genres : g.source \in Sources /\ g.external # Blank /\ g.name # Blank
  /\ Distinct(l.genres, GenreKey)

LinksFit(l) ==
  /\ \A r \in l.links : IsId(l, r.media) /\ \E g \in l.genres : GenreKey(g) = GenreKey(r)
  /\ Distinct(l.links, LinkKey)

SeasonsFit(l) ==
  /\ \A s \in l.seasons :
       /\ s.number >= 0 /\ s.external # Blank /\ Date(s.date) /\ Natural(s.count)
       /\ IsMedia(l, s.media, "tv")
  /\ Distinct(l.seasons, SeasonKey)

EpisodesFit(l) ==
  /\ \A e \in l.episodes :
       /\ e.number >= 0 /\ e.external # Blank /\ Date(e.date) /\ Positive(e.runtime)
       /\ \E s \in l.seasons : SeasonKey(s) = <<e.media, e.season>>
  /\ Distinct(l.episodes, EpisodeKey)
  /\ Distinct({e \in l.episodes : e.external # None}, ExternalKey)

TrackingFits(l) ==
  /\ \A t \in l.tracking :
       /\ t.type \in Kinds /\ (t.watched = None \/ t.type = "movie") /\ Rating(t.rating)
       /\ IsMedia(l, t.media, t.type)
  /\ Distinct(l.tracking, MediaId)

EpisodeTrackingFits(l) ==
  /\ \A t \in l.episode_tracking :
       t.season >= 0 /\ t.number >= 0 /\ IsMedia(l, t.media, "tv")
  /\ Distinct(l.episode_tracking, EpisodeKey)

EventsFit(l) ==
  /\ \A e \in l.events :
       /\ e.type \in Kinds /\ Natural(e.season) /\ Natural(e.number) /\ Positive(e.runtime)
       /\ (e.type = "tv") = (e.season # None /\ e.number # None)
       /\ (e.season = None) = (e.number = None)
       /\ IsMedia(l, e.media, e.type)
  /\ Distinct(l.events, Id)

ReleasesFit(l) ==
  /\ \A e \in l.releases :
       /\ e.season >= 0 /\ e.number >= 0 /\ e.kind = "new_episode" /\ Date(e.date)
       /\ IsMedia(l, e.media, "tv")
  /\ Distinct(l.releases, EpisodeKey) /\ Distinct(l.releases, Id)

Schema(l) ==
  /\ MediaFits(l) /\ RefsFit(l) /\ LibraryFits(l) /\ GenresFit(l) /\ LinksFit(l)
  /\ SeasonsFit(l) /\ EpisodesFit(l) /\ TrackingFits(l)
  /\ EpisodeTrackingFits(l) /\ EventsFit(l) /\ ReleasesFit(l)

\* The rows of a backup, and whether every INSERT of them is taken: a row that
\* is there twice is refused by its key.
Rows(b) == [t \in Tables |-> Range(b[t])]
Fits(b) == (\A t \in Tables : IsInjective(b[t])) /\ Schema(Rows(b))

\* What the program's writers keep beyond the schema: row ids count from one,
\* times are times, and no title is without a provider's name for it.
WritersKeep(l) ==
  /\ \A t \in {"media", "events", "releases"} : \A r \in l[t] : r.id > 0
  /\ \A t \in {"media", "seasons", "episodes"} : \A r \in l[t] : Timestamp(r.stamp)
  /\ \A r \in l.tracking : Timestamp(r.watched)
  /\ \A t \in {"episode_tracking", "events"} : \A r \in l[t] : r.watched \in Stamps
  /\ \A r \in l.library : r.added \in Stamps
  /\ \A r \in l.releases : r.found \in Stamps /\ Timestamp(r.read)
  /\ \A m \in l.media : \E r \in l.refs : r.media = m.id

ASSUME BackupAssumption ==
  /\ Format \in Text /\ App \in Text \ {Blank} /\ Now \in Stamps \cap Int /\ MaxSize \in Nat
  /\ \A l \in Libraries :
       /\ l \in Database /\ Schema(l) /\ WritersKeep(l)
       /\ \A t \in Tables : IsFiniteSet(l[t])
-----------------------------------------------------------------------------
BackupInit ==
  /\ tables \in Libraries
  /\ file = None /\ altered = 0 /\ pending = None

\* Any use of the program between the steps below.
Change ==
  /\ tables' \in Libraries
  /\ UNCHANGED <<file, altered, pending>>

\* `export`: every row of every table, in a stable order, however many.
Exported ==
  [header |-> [format |-> Format, version |-> 1, created |-> Now, app |-> App],
   data |-> [t \in Tables |-> SetToSeq(tables[t])]]
Export ==
  /\ file' = Exported
  /\ UNCHANGED <<tables, altered, pending>>

\* Somebody changes a field of the file, or a row goes or is there twice. A
\* backup once chosen is in memory.
Alter ==
  /\ file # None /\ pending = None /\ altered < MaxAltered
  /\ altered' = altered + 1
  /\ \/ \E f \in DOMAIN file.header : \E v \in Values[f] :
          file' = [file EXCEPT !.header = [@ EXCEPT ![f] = v]]
     \/ \E t \in Tables : \E i \in DOMAIN file.data[t] :
          \/ file' = [file EXCEPT !.data = [@ EXCEPT ![t] = RemoveAt(@, i)]]
          \/ file' = [file EXCEPT !.data = [@ EXCEPT ![t] = Append(@, @[i])]]
          \/ \E f \in DOMAIN file.data[t][i] : \E v \in Values[f] :
               file' = [file EXCEPT !.data[t][i] = [@ EXCEPT ![f] = v]]
  /\ UNCHANGED <<tables, pending>>

\* The length of a file: bytes are counted in rows.
Size(b) == Cardinality(UNION {{t} \X DOMAIN b.data[t] : t \in Tables})

\* `parse`: what the parser can type, and `validate` accepts.
Parsed(b) == b \in BackupV1 /\ HeaderValid(b.header) /\ Accepted(b.data)

\* `read_from_path`: a file over the limit is not even parsed.
Read(b) == Size(b) <= MaxSize /\ Parsed(b)

\* `BackupPage::select`: a refused file leaves nothing to confirm.
Select ==
  /\ file # None
  /\ pending' = IF Read(file) THEN file ELSE None
  /\ UNCHANGED <<tables, file, altered>>

\* `BackupPage::confirm`: one transaction that deletes every row and inserts
\* those of the backup. An INSERT against a constraint rolls it back, and the
\* backup stays pending.
Confirm ==
  /\ pending # None /\ Fits(pending.data)
  /\ tables' = Rows(pending.data) /\ pending' = None
  /\ UNCHANGED <<file, altered>>

ConfirmFails ==
  /\ pending # None /\ ~Fits(pending.data)
  /\ UNCHANGED backupVars

BackupNext == Change \/ Export \/ Alter \/ Select \/ Confirm \/ ConfirmFails

BackupSpec == BackupInit /\ [][BackupNext]_backupVars
-----------------------------------------------------------------------------
\* What the program exports up to the limit can be chosen, and restoring it
\* gives the same rows: tracking of episodes TMDB no longer lists included
\* (backup.rs:571), whatever the library is and whatever file was restored into
\* it before. `export_to_path` has no limit: nothing is said of a backup or a
\* safety copy over that of `read_from_path` (backup.rs:963), which is refused.
BackupsRestore ==
  Size(Exported) <= MaxSize =>
    Read(Exported) /\ Fits(Exported.data) /\ Rows(Exported.data) = tables

\* The two columns `validate` does not look at: a season's blank id, and a
\* series watched as a whole.
Overlooked(b) ==
  \/ \E i \in DOMAIN b.seasons : b.seasons[i].external = Blank
  \/ \E i \in DOMAIN b.tracking : b.tracking[i].type # "movie" /\ b.tracking[i].watched # None

\* "Complete structural and referential validation, before any write"
\* (backup.rs:448): whatever a file holds, a backup the user is asked to
\* confirm is one the database takes, but for the columns overlooked.
CheckedIsTaken == pending # None => Fits(pending.data) \/ Overlooked(pending.data)
=============================================================================
