------------------------------- MODULE Store -------------------------------
(***************************************************************************)
(* The library database as its writers change it: titles and membership    *)
(* (library.rs), provider metadata (metadata.rs, with the answers reduced  *)
(* as tmdb.rs does), watched state (tracking.rs), release events           *)
(* (release.rs) and the explicit cleanup (database.rs); and what progress, *)
(* next episode, Home and Statistics read from it.                         *)
(*                                                                         *)
(* One action is one transaction. Every write happens on the UI thread, in *)
(* whatever order the user and the answers come. Titles are series: movies *)
(* have neither seasons nor release events; the module Tracking has them.  *)
(***************************************************************************)
EXTENDS Integers, FiniteSets, SequencesExt

CONSTANTS
  Titles,      \* series, by provider identity
  Seasons,     \* season numbers; 0 is the specials
  Numbers,     \* episode numbers
  Ids,         \* provider episode ids
  NoId,        \* an episode without one
  Unknown,     \* no number or count given; also an episode list never fetched
  HomeLimit,   \* how many series of a kind Home lists; 8
  Summaries,   \* season lists TMDB may send: sequences of summaries
  Answers      \* per season, episode lists TMDB may send: sequences of entries

Summary == [number : Int \cup {Unknown}, count : Int \cup {Unknown}]
Entry == [number : Numbers \cup {Unknown}, id : Ids \cup {NoId}]

ASSUME StoreAssumption ==
  /\ Seasons \subseteq Nat /\ Numbers \subseteq Nat /\ HomeLimit \in Nat
  /\ Unknown \notin Nat /\ NoId \notin Ids
  /\ \A s \in Seasons : Answers[s] \subseteq Seq(Entry)
  /\ Summaries \subseteq Seq(Summary)
  /\ \A l \in Summaries : \A i \in DOMAIN l : l[i].number \in Nat => l[i].number \in Seasons

VARIABLES
  media,     \* titles with a media row and its external reference
  member,    \* library_entries
  detailed,  \* titles whose details_fetched_at is set
  seasons,   \* per title: season number -> summary and coverage
  episodes,  \* per title: <<season, number>> -> provider id
  tracked,   \* per title: episode_tracking, as <<season, number>>
  rated,     \* titles with a media_tracking row
  logged,    \* titles with at least one watch event
  releases   \* per title: <<season, number>> -> whether read_at is set

personal == <<tracked, rated, logged>>
vars == <<media, member, detailed, seasons, episodes, tracked, rated, logged, releases>>
-----------------------------------------------------------------------------
Key == Seasons \X Numbers
Row == [count : Nat \cup {Unknown}, known : Nat \cup {Unknown}]
Table(f, S, T) == DOMAIN f \subseteq S /\ f \in [DOMAIN f -> T]

\* The tables and their keys: database.rs, SCHEMA_V1 to SCHEMA_V5.
TypeOK ==
  /\ media \subseteq Titles
  /\ member \subseteq media /\ detailed \subseteq media
  /\ rated \subseteq media /\ logged \subseteq media
  /\ \A t \in Titles :
       /\ Table(seasons[t], Seasons, Row)
       /\ Table(episodes[t], Key, Ids \cup {NoId})
       /\ \A k \in DOMAIN episodes[t] : k[1] \in DOMAIN seasons[t]
       /\ tracked[t] \subseteq Key
       /\ Table(releases[t], Key, BOOLEAN)

Empty == [k \in {} |-> FALSE]

Init ==
  /\ media = {} /\ member = {} /\ detailed = {} /\ rated = {} /\ logged = {}
  /\ seasons = [t \in Titles |-> Empty] /\ episodes = [t \in Titles |-> Empty]
  /\ tracked = [t \in Titles |-> {}] /\ releases = [t \in Titles |-> Empty]
-----------------------------------------------------------------------------
\* Mutant of Listed: an id that two numbers share is kept for both.
ListedTwice(a) ==
  LET first(n) == Min({i \in DOMAIN a : a[i].number = n})
  IN  [n \in {a[i].number : i \in DOMAIN a} \ {Unknown} |-> a[first(n)].id]

\* `tmdb::episodes`: entries without a usable number are skipped, the first
\* entry of a number stays, and of those the lowest number with an id.
Listed(a) ==
  LET first(n) == Min({i \in DOMAIN a : a[i].number = n})
      numbers == {a[i].number : i \in DOMAIN a} \ {Unknown}
      id(n) == a[first(n)].id
  IN  [n \in {m \in numbers : id(m) = NoId \/ \A l \in numbers : l < m => id(l) # id(m)}
         |-> id(n)]

\* `SeasonDto::map`: a season is nothing without a number; a count below zero is
\* no count.
Usable(summary) == summary.number \in Nat
Count(summary) == IF summary.count \in Nat THEN summary.count ELSE Unknown

\* `TvDetailsDto::map`: the seasons by number, the first of each.
SeasonList(a) ==
  LET usable == {i \in DOMAIN a : Usable(a[i])}
      first(n) == Min({i \in usable : a[i].number = n})
  IN  [n \in {a[i].number : i \in usable} |-> Count(a[first(n)])]

\* Rows of one season, as a function from its episode numbers.
SeasonRows(t, s) == [n \in {m \in Numbers : <<s, m>> \in DOMAIN episodes[t]} |-> episodes[t][<<s, n>>]]

\* INSERT OR REPLACE: the row with this number goes, and the one that holds
\* this id under the season's unique index.
Replace(rows, n, id) ==
  [m \in {l \in DOMAIN rows : id # NoId => rows[l] # id} \cup {n} |-> IF m = n THEN id ELSE rows[m]]

\* The loop of `save_episodes`, by episode number: the rows left, and the
\* numbers that were not stored when their turn came.
Upsert(kept, list) ==
  LET last == Max(DOMAIN list \cup {0})
      after[n \in 0..last + 1] ==
        IF n = 0 THEN [rows |-> kept, new |-> {}]
        ELSE IF n - 1 \notin DOMAIN list THEN after[n - 1]
        ELSE [rows |-> Replace(after[n - 1].rows, n - 1, list[n - 1]),
              new |-> after[n - 1].new \cup ({n - 1} \ DOMAIN after[n - 1].rows)]
  IN  after[last + 1]

\* ON DELETE CASCADE from seasons to episodes.
Cascade(t, kept) == [k \in {l \in DOMAIN episodes[t] : l[1] \in kept} |-> episodes[t][k]]

\* A release event is inserted once: ON CONFLICT DO NOTHING.
Announce(t, s, new) ==
  [k \in DOMAIN releases[t] \cup ({s} \X new) |->
     IF k \in DOMAIN releases[t] THEN releases[t][k] ELSE FALSE]
-----------------------------------------------------------------------------
\* `library::add`: the media row is found by provider identity or made.
AddTitle(t) ==
  /\ media' = media \cup {t} /\ member' = member \cup {t}
  /\ UNCHANGED <<detailed, seasons, episodes, personal, releases>>

\* `library::remove`: only the membership goes.
RemoveTitle(t) ==
  /\ t \in member
  /\ member' = member \ {t}
  /\ UNCHANGED <<media, detailed, seasons, episodes, personal, releases>>

\* `metadata::save`: summaries are upserted without their coverage, seasons no
\* longer listed go with their episodes, an empty list is no information. A
\* title that is no longer stored is an error and changes nothing.
SaveDetails(t, summaries) ==
  LET list == SeasonList(summaries)
      stay == IF DOMAIN list = {} THEN DOMAIN seasons[t] ELSE DOMAIN list
  IN  /\ t \in media
      /\ detailed' = detailed \cup {t}
      /\ seasons' = [seasons EXCEPT ![t] = [s \in stay |->
           IF s \notin DOMAIN list THEN seasons[t][s]
           ELSE [count |-> list[s],
                 known |-> IF s \in DOMAIN seasons[t] THEN seasons[t][s].known ELSE Unknown]]]
      /\ episodes' = [episodes EXCEPT ![t] = Cascade(t, stay)]
      /\ UNCHANGED <<media, member, personal, releases>>

\* Mutant of Announces: the first list of a season announces all of it.
AnnouncesFirst(t, s) == t \in member

\* Whether `save_episodes` announces: a member's season fetched before.
Announces(t, s) ==
  t \in member /\ s \in DOMAIN seasons[t] /\ seasons[t][s].known # Unknown

\* `metadata::save_episodes`: rows the list no longer has go first, then the
\* list is written, then the coverage. An empty list removes nothing.
SaveEpisodes(t, s, answer) ==
  LET list == Listed(answer)
      old == SeasonRows(t, s)
      kept == IF DOMAIN list = {} THEN old
              ELSE [n \in DOMAIN old \cap DOMAIN list |-> old[n]]
      done == Upsert(kept, list)
      elsewhere == {k \in DOMAIN episodes[t] : k[1] # s}
  IN  /\ t \in media
      /\ seasons' = [seasons EXCEPT ![t] = [r \in DOMAIN seasons[t] \cup {s} |->
           IF r # s THEN seasons[t][r]
           ELSE [count |-> IF s \in DOMAIN seasons[t] THEN seasons[t][s].count ELSE Unknown,
                 known |-> Cardinality(DOMAIN list)]]]
      /\ episodes' = [episodes EXCEPT ![t] = [k \in elsewhere \cup ({s} \X DOMAIN done.rows) |->
           IF k[1] = s THEN done.rows[k[2]] ELSE episodes[t][k]]]
      /\ releases' = IF Announces(t, s)
                     THEN [releases EXCEPT ![t] = Announce(t, s, done.new)] ELSE releases
      /\ UNCHANGED <<media, member, detailed, personal>>
-----------------------------------------------------------------------------
\* `watch_episode`: refused for an episode that is not stored; an event is
\* recorded if the state changed or the user watched it again.
WatchEpisode(t, k, again) ==
  /\ t \in media /\ k \in DOMAIN episodes[t]
  /\ again \/ k \notin tracked[t]
  /\ tracked' = [tracked EXCEPT ![t] = @ \cup {k}]
  /\ logged' = logged \cup {t}
  /\ UNCHANGED <<media, member, detailed, seasons, episodes, rated, releases>>

\* `unwatch_episode`: any tracked episode, stored or not.
UnwatchEpisode(t, k) ==
  /\ k \in tracked[t]
  /\ tracked' = [tracked EXCEPT ![t] = @ \ {k}]
  /\ UNCHANGED <<media, member, detailed, seasons, episodes, rated, logged, releases>>

InSeason(t, s) == {k \in DOMAIN episodes[t] : k[1] = s}

\* `watch_season`: every stored episode, one event for each newly marked one.
WatchSeason(t, s) ==
  /\ t \in media /\ ~ InSeason(t, s) \subseteq tracked[t]
  /\ tracked' = [tracked EXCEPT ![t] = @ \cup InSeason(t, s)]
  /\ logged' = logged \cup {t}
  /\ UNCHANGED <<media, member, detailed, seasons, episodes, rated, releases>>

\* `unwatch_season`: every stored episode; tracking of others stays.
UnwatchSeason(t, s) ==
  /\ InSeason(t, s) \cap tracked[t] # {}
  /\ tracked' = [tracked EXCEPT ![t] = @ \ InSeason(t, s)]
  /\ UNCHANGED <<media, member, detailed, seasons, episodes, rated, logged, releases>>

\* `set_rating`: the row stays when the rating is cleared.
SetRating(t) ==
  /\ t \in media
  /\ rated' = rated \cup {t}
  /\ UNCHANGED <<media, member, detailed, seasons, episodes, tracked, logged, releases>>

\* `delete_event`, of the last event of a title: watched state is unchanged.
DeleteLastEvent(t) ==
  /\ t \in logged
  /\ logged' = logged \ {t}
  /\ UNCHANGED <<media, member, detailed, seasons, episodes, tracked, rated, releases>>

\* `release::mark_read`.
MarkRead(t, k) ==
  /\ k \in DOMAIN releases[t] /\ ~releases[t][k]
  /\ releases' = [releases EXCEPT ![t] = [@ EXCEPT ![k] = TRUE]]
  /\ UNCHANGED <<media, member, detailed, seasons, episodes, personal>>

\* `release::mark_all_read`.
MarkAllRead ==
  /\ releases' = [t \in Titles |-> [k \in DOMAIN releases[t] |-> TRUE]]
  /\ UNCHANGED <<media, member, detailed, seasons, episodes, personal>>

\* Mutant of Orphans: episode tracking does not protect its title.
OrphansUntracked ==
  {t \in media : t \notin member \cup rated \cup logged /\ DOMAIN releases[t] = {}}

\* Titles nothing personal refers to.
Orphans ==
  {t \in media : t \notin member \cup rated \cup logged /\ tracked[t] = {} /\ DOMAIN releases[t] = {}}

\* `clean_orphan_metadata`: the rows of a title go with it.
Clean ==
  /\ media' = media \ Orphans
  /\ detailed' = detailed \ Orphans
  /\ seasons' = [t \in Titles |-> IF t \in Orphans THEN Empty ELSE seasons[t]]
  /\ episodes' = [t \in Titles |-> IF t \in Orphans THEN Empty ELSE episodes[t]]
  /\ UNCHANGED <<member, personal, releases>>
-----------------------------------------------------------------------------
Provider(t) ==
  \/ \E summaries \in Summaries : SaveDetails(t, summaries)
  \/ \E s \in Seasons : \E answer \in Answers[s] : SaveEpisodes(t, s, answer)

User(t) ==
  \/ AddTitle(t) \/ RemoveTitle(t)
  \/ \E k \in Key, again \in BOOLEAN : WatchEpisode(t, k, again)
  \/ \E k \in Key : UnwatchEpisode(t, k) \/ MarkRead(t, k)
  \/ \E s \in Seasons : WatchSeason(t, s) \/ UnwatchSeason(t, s)
  \/ SetRating(t) \/ DeleteLastEvent(t)

Next == (\E t \in Titles : Provider(t) \/ User(t)) \/ MarkAllRead \/ Clean

Spec == Init /\ [][Next]_vars
-----------------------------------------------------------------------------
\* What is read: `STATUS_ROWS` and `SeriesProgress`. Tracking of an episode no
\* longer stored does not count.
Known(t, s) == Cardinality(InSeason(t, s))
Watched(t, s) == Cardinality(InSeason(t, s) \cap tracked[t])

\* `metadata::coverage` is Complete.
Covered(row) == row.known # Unknown /\ (row.count = Unknown \/ row.known >= row.count)

Regular(t) == DOMAIN seasons[t] \ {0}
RegularRows(t) == {k \in DOMAIN episodes[t] : k[1] \in Regular(t)}
KnownRegular(t) == Cardinality(RegularRows(t))
WatchedRegular(t) == Cardinality(RegularRows(t) \cap tracked[t])

CoverageComplete(t) ==
  t \in detailed /\ Regular(t) # {} /\ \A s \in Regular(t) : Covered(seasons[t][s])

IsComplete(t) ==
  CoverageComplete(t) /\ KnownRegular(t) > 0 /\ WatchedRegular(t) = KnownRegular(t)

\* Mutant of NextEpisode: the first season of all, specials included.
NextOfAny(t) ==
  LET unfinished == {s \in DOMAIN seasons[t] : Watched(t, s) < Known(t, s)}
      s == Min(unfinished)
  IN  IF unfinished # {}
      THEN <<s, Min({k[2] : k \in InSeason(t, s) \ tracked[t]})>>
      ELSE IF KnownRegular(t) = 0 THEN <<"NothingKnown">>
      ELSE IF IsComplete(t) THEN <<"Complete">> ELSE <<"CaughtUp">>

\* `tracking::next_episode`, for the detail pane: by counts to the season, then
\* its first unwatched episode.
NextEpisode(t) ==
  LET unfinished == {s \in Regular(t) : Watched(t, s) < Known(t, s)}
      s == Min(unfinished)
  IN  IF unfinished # {}
      THEN <<s, Min({k[2] : k \in InSeason(t, s) \ tracked[t]})>>
      ELSE IF KnownRegular(t) = 0 THEN <<"NothingKnown">>
      ELSE IF IsComplete(t) THEN <<"Complete">> ELSE <<"CaughtUp">>

\* `continue_watching`: members with a watched and an unwatched regular episode.
ContinueWatching ==
  {t \in member : \E k, u \in DOMAIN episodes[t] :
     k[1] >= 1 /\ u[1] >= 1 /\ k \in tracked[t] /\ u \notin tracked[t]}

\* `home::next_known`: the first row of all unwatched regular ones, by season
\* and number.
Before(k, u) == k[1] < u[1] \/ (k[1] = u[1] /\ k[2] < u[2])
NextKnown(t) ==
  LET unwatched == {k \in DOMAIN episodes[t] : k[1] >= 1 /\ k \notin tracked[t]}
  IN  {k \in unwatched : \A u \in unwatched : ~Before(u, k)}

\* What `home::load` notes as caught up: started, nothing known unwatched, and
\* metadata incomplete.
CaughtUp ==
  {t \in member : /\ WatchedRegular(t) > 0 /\ KnownRegular(t) = WatchedRegular(t)
                  /\ ~CoverageComplete(t)}

\* What `take(HomeLimit)` may leave of them: which ones depends on the times of
\* the last watches, for the notes on a hash map's order. Both are left open.
Taken(S) ==
  IF Cardinality(S) <= HomeLimit THEN {S} ELSE {T \in SUBSET S : Cardinality(T) = HomeLimit}

\* `home::load`, Up Next: the next episode of a series in progress that was
\* taken, or the note that it is caught up as far as is known.
UpNext(t, started, noted) ==
  (IF t \in started THEN NextKnown(t) ELSE {})
    \cup (IF t \in noted THEN {<<"CaughtUp">>} ELSE {})

\* `statistics::library_now`: each series of the Library is exactly one of these.
Standing(t) ==
  IF IsComplete(t) THEN "complete"
  ELSE IF WatchedRegular(t) > 0 THEN "in progress" ELSE "not started"

\* `library_status` and `status_label`: what a row of the Library says.
LibraryStatus ==
  [t \in member |->
     IF WatchedRegular(t) = 0 THEN "nothing"
     ELSE IF IsComplete(t) THEN "watched"
     ELSE IF CoverageComplete(t) THEN "percentage" ELSE "incomplete"]

\* `specials`: watched and stored, when any are stored.
Specials(t) ==
  IF 0 \in DOMAIN seasons[t] /\ Known(t, 0) > 0 THEN <<Watched(t, 0), Known(t, 0)>> ELSE << >>

\* `progress_view` of the detail pane: a percentage only of complete lists.
ProgressView(t) ==
  [percentage |-> IF KnownRegular(t) > 0 /\ CoverageComplete(t)
                    THEN (WatchedRegular(t) * 100) \div KnownRegular(t) ELSE Unknown,
   next |-> NextEpisode(t),
   specials |-> Specials(t)]

\* `season_row_view`: what the season list says of a season's episodes.
SeasonRowView(t, s) ==
  LET row == seasons[t][s] IN
    [coverage |-> IF row.known = Unknown THEN "Not downloaded"
                  ELSE IF Covered(row) THEN "" ELSE "partial",
     watched |-> IF Watched(t, s) > 0 THEN <<Watched(t, s), Known(t, s)>> ELSE << >>]
-----------------------------------------------------------------------------
\* A season's coverage tells the truth about the rows beside it: a list that
\* was not empty left exactly as many episodes as it is recorded with,
\* whatever numbers and ids TMDB repeated, moved or swapped, and no provider
\* id is stored twice in a season.
CoverageIsTrue ==
  \A t \in Titles : \A s \in DOMAIN seasons[t] :
    /\ seasons[t][s].known \notin {0, Unknown} => Known(t, s) = seasons[t][s].known
    /\ \A k, l \in InSeason(t, s) :
         k # l /\ episodes[t][k] = episodes[t][l] => episodes[t][k] = NoId

\* The tables are well-formed, their keys and references hold, and coverage is
\* true.
TablesAreSound == TypeOK /\ CoverageIsTrue

\* "Complete can never be shown over incomplete metadata" (ADR-0018:77): every
\* regular season has as many watched rows as TMDB counts, or TMDB gave no
\* count or no list.
CompleteIsWatched(t) ==
  IsComplete(t) =>
    \A s \in Regular(t) :
      seasons[t][s].count = Unknown \/ Watched(t, s) >= seasons[t][s].count

\* What the screens say of a series' seasons: a percentage only where every
\* regular season is listed without a gap, and 100 only where each says that
\* all its episodes are watched.
SeasonsAgree(t) ==
  LET view == ProgressView(t) IN
    view.percentage # Unknown =>
      \A s \in Regular(t) :
        /\ SeasonRowView(t, s).coverage = ""
        /\ view.percentage = 100 /\ SeasonRowView(t, s).watched # << >> =>
             SeasonRowView(t, s).watched[1] = SeasonRowView(t, s).watched[2]

\* Home lists a series under Up Next only while it is in progress, at most once
\* and with the episode the detail pane names; it leaves one out only when the
\* list of its kind is full.
HomeAgrees(t) ==
  \A started \in Taken(ContinueWatching), noted \in Taken(CaughtUp) :
    LET rows == UpNext(t, started, noted)
        kind == IF NextEpisode(t) \in Key THEN started ELSE noted
    IN  /\ rows # {} => Standing(t) = "in progress" /\ rows = {NextEpisode(t)}
        /\ Standing(t) = "in progress" /\ rows = {} => Cardinality(kind) = HomeLimit

\* The screens do not contradict each other about a series: the detail pane's
\* next episode and Home's come from different queries and agree, what Home
\* lists under Up Next is in progress everywhere, and a series is called
\* complete only where Statistics, the Library row and the detail pane all call
\* it so, and only when it is (ADR-0018). Watched specials are never part of it.
ScreensAgree ==
  \A t \in member :
    /\ NextEpisode(t) \in Key <=> NextKnown(t) # {}
    /\ NextEpisode(t) \in Key => NextKnown(t) = {NextEpisode(t)}
    /\ NextEpisode(t) = <<"Complete">> <=> Standing(t) = "complete"
    /\ ProgressView(t).percentage = 100 <=> Standing(t) = "complete"
    /\ LibraryStatus[t] = "watched" <=> Standing(t) = "complete"
    /\ LibraryStatus[t] \in {"percentage", "incomplete"} <=> Standing(t) = "in progress"
    /\ HomeAgrees(t)
    /\ tracked[t] \subseteq {0} \X Numbers => LibraryStatus[t] = "nothing"
    /\ SeasonsAgree(t)
    /\ CompleteIsWatched(t)

\* ADR-0027: an episode is announced once, for a Library season downloaded
\* before, and only if its number was not stored when the answer came or its
\* provider id moved to another number; what was read stays read.
Moved(t, k) ==
  episodes[t][k] # NoId /\ \E l \in DOMAIN episodes'[t] :
    l[1] = k[1] /\ l # k /\ episodes'[t][l] = episodes[t][k]

AnnouncedIsNew ==
  [][\A t \in Titles :
       /\ \A k \in DOMAIN releases[t] :
            k \in DOMAIN releases'[t] /\ (releases[t][k] => releases'[t][k])
       /\ \A k \in DOMAIN releases'[t] \ DOMAIN releases[t] :
            /\ t \in member /\ k[1] \in DOMAIN seasons[t]
            /\ seasons[t][k[1]].known # Unknown
            /\ k \in DOMAIN episodes[t] => Moved(t, k)
    ]_vars

\* Personal data outlives the metadata it is about (ADR-0016): an answer or the
\* cleanup changes no watched state, and a title goes only when nothing of the
\* user's refers to it.
PersonalOutlives ==
  [][\A t \in Titles :
       /\ t \in media /\ t \notin media' =>
            /\ t \notin member \cup rated \cup logged
            /\ tracked[t] = {} /\ DOMAIN releases[t] = {}
       /\ episodes'[t] # episodes[t] =>
            tracked'[t] = tracked[t] /\ rated' = rated /\ logged' = logged
    ]_vars
=============================================================================
