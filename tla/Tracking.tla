------------------------------ MODULE Tracking ------------------------------
(***************************************************************************)
(* Watching: the watched state and the history of watch events             *)
(* (tracking.rs), and what Statistics computes from the history            *)
(* (statistics.rs). Every write is one transaction on the UI thread, with  *)
(* the time the system clock shows then; a user may set that clock back.   *)
(*                                                                         *)
(* A series has one season here: Store has seasons, coverage and progress. *)
(***************************************************************************)
EXTENDS Integers, FiniteSets, SequencesExt

CONSTANTS
  Movies,
  Series,
  Episodes,    \* <<series, number>>
  Given,       \* per movie or episode, the rows TMDB's answers may leave of it
  Texts,       \* the names it may give them
  Genres,      \* per title, the names of its genres
  None,        \* an absent column
  Gone,        \* the runtime in place of an episode that is not stored
  Ranges,      \* time ranges: bucket length, and how many (0: all time)
  MaxBars,     \* yearly bars shown at most
  MaxTime,     \* bound on the clock
  MaxEvents    \* bound on the events ever recorded

Titles == Movies \cup Series
Targets == Movies \cup Episodes
Column == [minutes : Nat \cup {None, Gone}, name : Texts \cup {None}]

ASSUME TrackingAssumption ==
  /\ Movies \cap Series = {} /\ Movies \cap Episodes = {}
  /\ Episodes \subseteq Series \X Nat /\ IsFiniteSet(Episodes)
  /\ \A x \in Targets : Given[x] \subseteq Column
  /\ \A x \in Targets : \A row \in Given[x] :
       row.minutes = Gone => x \in Episodes /\ row.name = None
  /\ \A t \in Titles : IsFiniteSet(Genres[t])
  /\ None \notin Nat /\ Gone \notin Nat \cup {None}
  /\ Ranges \subseteq [unit : Nat \ {0}, buckets : Nat]
  /\ MaxBars \in Nat \ {0} /\ MaxTime \in Nat /\ MaxEvents \in Nat

VARIABLES
  watchedAt,   \* media_tracking and episode_tracking: when, or None
  runtime,     \* runtime_minutes of the stored movie or episode
  called,      \* its title or name; a LEFT JOIN finds none that is not stored
  events,      \* watch_events
  lastId,      \* the highest event id ever given: AUTOINCREMENT
  now          \* the clock

tracking == <<watchedAt, runtime, called, events, lastId, now>>
-----------------------------------------------------------------------------
Time == 0..MaxTime

Event == [id : 1..MaxEvents, target : Targets, at : Time, minutes : Nat \cup {None}]

TrackingTypeOK ==
  /\ watchedAt \in [Targets -> Time \cup {None}]
  /\ runtime \in [Targets -> Nat \cup {None, Gone}]
  /\ called \in [Targets -> Texts \cup {None}]
  /\ \A e \in events : e \in Event
  /\ lastId \in 0..MaxEvents /\ now \in Time

TrackingInit ==
  /\ watchedAt = [x \in Targets |-> None] /\ runtime = [x \in Targets |-> None]
  /\ called \in [Targets -> Texts \cup {None}]
  /\ \A x \in Targets : [minutes |-> None, name |-> called[x]] \in Given[x]
  /\ events = {} /\ lastId = 0 /\ now = 0

TitleOf(x) == IF x \in Movies THEN x ELSE x[1]
Stored(x) == runtime[x] # Gone
Watched == {x \in Targets : watchedAt[x] # None}
-----------------------------------------------------------------------------
\* The INSERT into watch_events: one row per target in episode order, with the
\* runtime known now.
Place(x, xs) == IF x \in Movies THEN 1 ELSE Cardinality({y \in xs : y[2] <= x[2]})

Record(xs) ==
  /\ lastId + Cardinality(xs) <= MaxEvents
  /\ events' = events \cup
       {[id |-> lastId + Place(x, xs), target |-> x, at |-> now, minutes |-> runtime[x]] : x \in xs}
  /\ lastId' = lastId + Cardinality(xs)

\* `watch_movie` and `watch_episode`: already watched, nothing changes unless
\* it was watched again; an episode that is not stored is an error.
Watch(x, again) ==
  /\ Stored(x) /\ (again \/ watchedAt[x] = None)
  /\ watchedAt' = [watchedAt EXCEPT ![x] = now]
  /\ Record({x})
  /\ UNCHANGED <<runtime, called, now>>

\* Mutant of Unwatch: what is not watched has no history.
UnwatchErasing(x) ==
  /\ watchedAt' = [watchedAt EXCEPT ![x] = None]
  /\ events' = {e \in events : e.target # x}
  /\ UNCHANGED <<runtime, called, lastId, now>>

\* `unwatch_movie` and `unwatch_episode`.
Unwatch(x) ==
  /\ watchedAt' = [watchedAt EXCEPT ![x] = None]
  /\ UNCHANGED <<runtime, called, events, lastId, now>>

Season(s) == {x \in Episodes : x[1] = s /\ Stored(x)}

\* `watch_season`: an event for every stored episode not yet watched, and the
\* same episodes marked.
WatchSeason(s) ==
  LET new == Season(s) \ Watched
  IN  /\ watchedAt' = [x \in Targets |-> IF x \in new THEN now ELSE watchedAt[x]]
      /\ Record(new)
      /\ UNCHANGED <<runtime, called, now>>

\* `unwatch_season`: only stored episodes.
UnwatchSeason(s) ==
  /\ watchedAt' = [x \in Targets |-> IF x \in Season(s) THEN None ELSE watchedAt[x]]
  /\ UNCHANGED <<runtime, called, events, lastId, now>>

\* `delete_event`.
Delete(id) ==
  /\ events' = {e \in events : e.id # id}
  /\ UNCHANGED <<watchedAt, runtime, called, lastId, now>>

\* A saved answer: the row of a movie or episode as TMDB describes it now, or
\* none if TMDB no longer lists the episode.
Refresh(x, row) ==
  /\ row \in Given[x]
  /\ runtime' = [runtime EXCEPT ![x] = row.minutes]
  /\ called' = [called EXCEPT ![x] = row.name]
  /\ UNCHANGED <<watchedAt, events, lastId, now>>

\* The clock goes on, or is set back.
Clock ==
  /\ now' \in Time \ {now}
  /\ UNCHANGED <<watchedAt, runtime, called, events, lastId>>
-----------------------------------------------------------------------------
\* `recent_history`: newest first; of the same second, the later one. An entry
\* shows the name its movie or episode has now. The title of an episode's series,
\* which changes in the same way, is left out.
Newer(e, f) == e.at > f.at \/ (e.at = f.at /\ e.id > f.id)
Newest(log, limit) == LET all == SetToSortSeq(log, Newer) IN SubSeq(all, 1, Min({limit, Len(all)}))

RecentHistory(limit) ==
  LET log == Newest(events, limit)
  IN  [i \in DOMAIN log |-> [event |-> log[i], name |-> called[log[i].target]]]

\* EVENTS: the runtime recorded, or the one stored now.
MinutesOf(e) ==
  IF e.minutes # None THEN e.minutes
  ELSE IF runtime[e.target] \in Nat THEN runtime[e.target] ELSE None

\* The first second of the bucket `back` buckets ago.
First(unit, back) == ((now \div unit) - back) * unit

\* `range_start`.
RangeStart(r) == IF r.buckets = 0 THEN -1 ELSE First(r.unit, r.buckets - 1)

\* `viewing`, for movies or for episodes: grouped by target, as the query is.
Viewing(targets, start) ==
  LET of(x) == {e \in events : e.target = x}
      since(x) == {e \in of(x) : e.at >= start}
      seen == {x \in targets : since(x) # {}}
      first(x) == IF Min({e.at : e \in of(x)}) >= start THEN 1 ELSE 0
      counted == UNION {since(x) : x \in seen}
      known == {e \in counted : MinutesOf(e) # None}
  IN  [watches  |-> MapThenSumSet(LAMBDA x : Cardinality(since(x)), seen),
       titles   |-> Cardinality(seen),
       rewatches |-> MapThenSumSet(LAMBDA x : Cardinality(since(x)) - first(x), seen),
       minutes  |-> MapThenSumSet(MinutesOf, known),
       unknown  |-> Cardinality(counted \ known)]

\* How many bars `activity` shows. All time begins in the year of the first
\* watch, and a first watch in a year to come still leaves one bar.
Bars(r) ==
  LET size == IF r.buckets > 0 THEN r.buckets
              ELSE IF events = {} THEN 1
              ELSE (now \div r.unit) - (Min({e.at : e \in events}) \div r.unit) + 1
  IN  Max({1, Min({size, MaxBars})})

\* Mutant of Activity: the newest bucket ends like every other.
ActivityEnding(r) ==
  [i \in 0..Bars(r) - 1 |-> Cardinality({e \in events :
     e.at >= First(r.unit, i) /\ e.at < First(r.unit, i - 1)})]

\* `activity`, by age: the events of each bucket; the newest has no end.
Activity(r) ==
  [i \in 0..Bars(r) - 1 |-> Cardinality({e \in events :
     e.at >= First(r.unit, i) /\ (i > 0 => e.at < First(r.unit, i - 1))})]

\* `genres`: watches per name, a title without one under None.
GenreWatches(start) ==
  LET names(t) == IF Genres[t] = {} THEN {None} ELSE Genres[t]
      watches(t) == Cardinality({e \in events : TitleOf(e.target) = t /\ e.at >= start})
      seen == {t \in Titles : watches(t) > 0}
  IN  [g \in UNION {names(t) : t \in seen} |->
         MapThenSumSet(watches, {t \in seen : g \in names(t)})]

\* `Viewing::plus`.
Plus(v, w) == [f \in DOMAIN v |-> v[f] + w[f]]

\* `load` of statistics.rs: one reading of the history for a range.
Statistics(r) ==
  LET start == RangeStart(r) IN
    [movies |-> Viewing(Movies, start), episodes |-> Viewing(Episodes, start),
     activity |-> Activity(r), genres |-> GenreWatches(start)]

\* `view` of statistics_page.rs: the cards, the bars and the split. The genres
\* beyond the eighth, and the Library part, are left out.
StatisticsView(r) ==
  LET s == Statistics(r)
      total == Plus(s.movies, s.episodes)
  IN  [watches |-> total.watches, rewatches |-> total.rewatches,
       minutes |-> total.minutes, uncounted |-> total.unknown,
       movies |-> s.movies.minutes, bars |-> s.activity, genres |-> s.genres]
-----------------------------------------------------------------------------
\* What Statistics shows of one history agrees, for every range and also after
\* the clock was set back: a rewatch is a watch of a movie or episode that has
\* another one dated earlier, in the range or before it, the bars add up to the
\* watches counted beside them, the watch time is that of the watches not
\* reported as left out of it, the movies' share is the movies', and each watch
\* counts once under each genre of its title. ADR-0020:28 means the watches
\* recorded earlier, which are others once the clock was set back.
StatisticsAgree ==
  \A r \in Ranges :
    LET counted == {e \in events : e.at >= RangeStart(r)}
        timed == {e \in counted : MinutesOf(e) # None}
        again(e) == \E f \in events : f.target = e.target /\ Newer(e, f)
        view == StatisticsView(r)
        genresOf(e) == Max({1, Cardinality(Genres[TitleOf(e.target)])})
    IN  /\ view.watches = Cardinality(counted)
        /\ view.rewatches = Cardinality({e \in counted : again(e)})
        /\ Bars(r) < MaxBars =>
             MapThenSumSet(LAMBDA i : view.bars[i], DOMAIN view.bars) = view.watches
        /\ view.uncounted = Cardinality(counted \ timed)
        /\ view.minutes = MapThenSumSet(MinutesOf, timed)
        /\ view.movies = MapThenSumSet(MinutesOf, {e \in timed : e.target \in Movies})
        /\ MapThenSumSet(LAMBDA g : view.genres[g], DOMAIN view.genres)
             = MapThenSumSet(genresOf, counted)

\* History is a log (ADR-0017): marking unwatched and refreshing metadata erase
\* nothing, an entry never changes, the only entry that can go is the one the
\* user deletes, without touching watched state, no id is given twice, and each
\* time something is marked the log gains exactly one entry saying so.
HistoryStays ==
  [][ LET new == events' \ events
          lost == events \ events'
      IN  /\ lost # {} => Cardinality(lost) = 1 /\ new = {} /\ UNCHANGED <<watchedAt, runtime>>
          /\ \A e \in new : e.id > lastId /\ watchedAt'[e.target] = e.at
          /\ \A x \in Targets : watchedAt'[x] \notin {watchedAt[x], None} =>
               Cardinality({e \in new : e.target = x}) = 1
    ]_tracking
=============================================================================
