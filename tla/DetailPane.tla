----------------------------- MODULE DetailPane -----------------------------
(***************************************************************************)
(* The Library detail pane, src/src/detail.rs, over the metadata that      *)
(* src/src/metadata.rs stores: a title opens from the cache, requests wait *)
(* until the selection settles, answers are saved under what they were     *)
(* requested for and shown only while their generation is current.         *)
(*                                                                         *)
(* Two things write the metadata: the pane's own answers, early or late,   *)
(* and the automatic refresh, which never tells the pane.                  *)
(***************************************************************************)
EXTENDS Integers, SequencesExt

CONSTANTS
  Series, Movies,  \* local ids of titles
  Numbers,         \* season numbers; 0 is the specials
  None,            \* no title, season, details or time
  MaxWeek,         \* how long a behaviour lasts; one week is FRESH_FOR
  Failing,         \* database operations that may fail, of Operations
  MaxGeneration,   \* the user stops acting at this season generation
  MaxOpen          \* the user waits while so many timers and requests are open

Operations == {"title", "episodes", "identity"}

VARIABLES
  week,      \* the clock
  media,     \* stored metadata: fetch times of titles and of listed seasons
  token,     \* whether SharedToken holds one
  page,      \* whether the Library page is shown
  pane,      \* the pane's State
  timers,    \* settle timers, with the selection they were started for
  requests,  \* requests with the network pool
  automatic, \* the season the automatic refresh asks for, one at a time
  behind     \* history: the shown title was saved, or not readable, unseen

vars == <<week, media, token, page, pane, timers, requests, automatic, behind>>
-----------------------------------------------------------------------------
Titles == Series \cup Movies
Time == 0..MaxWeek \cup {None}

\* A title as stored and as read: when its details were fetched, and when the
\* episodes of each listed season were.
Lists == UNION {[S -> Time] : S \in SUBSET Numbers}
Details == [fetched : Time, seasons : Lists]

ASSUME PaneAssumption ==
  /\ Series \cap Movies = {}
  /\ Numbers \subseteq Nat
  /\ None \notin Titles \cup Nat \cup Details \cup (Titles \X Numbers)
  /\ MaxWeek \in Nat /\ MaxGeneration \in Nat /\ MaxOpen \in Nat
  /\ Failing \subseteq Operations

SeasonsOf(d) == IF d = None THEN {} ELSE DOMAIN d.seasons

Pane == [id : Titles \cup {None}, details : Details \cup {None},
         season : Numbers \cup {None}, episodes : (Titles \X Numbers) \cup {None},
         titleGeneration : Nat, seasonGeneration : Nat,
         pending : BOOLEAN, notice : BOOLEAN,
         episodesRequest : {"idle", "loading", "failed"}]

Request == [kind : {"details", "episodes"}, generation : Nat, id : Titles,
            season : Numbers \cup {None}]

\* Never fetched, or older than FRESH_FOR.
WantsRefresh(fetched) == fetched = None \/ fetched < week

\* The first regular season, or the specials when there is nothing else.
DefaultSeason(S) ==
  IF S = {} THEN None ELSE IF S = {0} THEN 0 ELSE Min(S \ {0})

Closed == [id |-> None, details |-> None, season |-> None, episodes |-> None,
           titleGeneration |-> 0, seasonGeneration |-> 0, pending |-> FALSE,
           notice |-> FALSE, episodesRequest |-> "idle"]
-----------------------------------------------------------------------------
TypeOK ==
  /\ week \in 0..MaxWeek
  /\ media \in [Titles -> Details]
  /\ token \in BOOLEAN /\ page \in BOOLEAN /\ behind \in BOOLEAN
  /\ pane \in Pane
  /\ timers \subseteq [generation : Nat, id : Titles \cup {None}, season : Numbers \cup {None}]
  /\ requests \subseteq Request
  /\ automatic \in (Series \X Numbers) \cup {None}

\* The Library was filled in an earlier session.
Init ==
  /\ week = 0
  /\ media \in [Titles -> [fetched : {None, 0},
                           seasons : {[s \in S |-> None] : S \in SUBSET Numbers}]]
  /\ \A t \in Titles :
       DOMAIN media[t].seasons # {} => t \in Series /\ media[t].fetched # None
  /\ token \in BOOLEAN /\ page = TRUE
  /\ pane = Closed
  /\ timers = {} /\ requests = {} /\ automatic = None
  /\ behind = FALSE
-----------------------------------------------------------------------------
\* Mutant of SaveDetails: the answer's summaries replace the rows, and with them
\* the coverage.
SaveDetailsAfresh(d, S) ==
  [fetched |-> week,
   seasons |-> IF S = {} THEN d.seasons ELSE [n \in S |-> None]]

\* `metadata::save`: seasons no longer listed go, a season that stays keeps its
\* episodes' fetch time; an empty list is no information.
SaveDetails(d, S) ==
  [fetched |-> week,
   seasons |-> IF S = {} THEN d.seasons
               ELSE [n \in S |-> IF n \in DOMAIN d.seasons THEN d.seasons[n] ELSE None]]

\* `metadata::save_episodes`: the season's row is made if it is not there.
SaveEpisodes(d, n) ==
  [d EXCEPT !.seasons = [m \in DOMAIN d.seasons \cup {n} |->
                           IF m = n THEN week ELSE d.seasons[m]]]

\* Mutant of LoadDetails: a season that is gone stays selected.
LoadDetailsOnly(p, down) ==
  IF p.id = None THEN p
  ELSE [p EXCEPT !.details = IF "title" \in down THEN @ ELSE media'[p.id]]

\* `load_details` and then `load_episodes`, reading what the step has saved.
\* A season that is no longer listed gives way to the default one; where there
\* are no seasons, every load starts a new season generation.
LoadDetails(p, down) ==
  IF p.id = None THEN p
  ELSE LET d == IF "title" \in down THEN p.details ELSE media'[p.id] IN
       IF p.season \in SeasonsOf(d) THEN [p EXCEPT !.details = d]
       ELSE [p EXCEPT !.details = d, !.season = DefaultSeason(SeasonsOf(d)),
                      !.seasonGeneration = @ + 1, !.episodesRequest = "idle"]

\* A list that was fetched once is taken not to be empty.
LoadEpisodes(p, down) ==
  [p EXCEPT !.episodes =
     IF /\ p.id # None /\ "episodes" \notin down
        /\ p.season \in SeasonsOf(media'[p.id]) /\ media'[p.id].seasons[p.season] # None
     THEN <<p.id, p.season>> ELSE None]

Load(p, down) == LoadEpisodes(LoadDetails(p, down), down)

\* `fetch_details` and `fetch_episodes`: what they would ask for.
WantedDetails(p, force) ==
  IF /\ page' /\ token' /\ p.id # None /\ p.details # None
     /\ force \/ WantsRefresh(p.details.fetched)
     /\ ~p.pending
  THEN {[kind |-> "details", generation |-> p.titleGeneration, id |-> p.id,
         season |-> None]}
  ELSE {}

WantedEpisodes(p, force) ==
  IF /\ page' /\ token' /\ p.id # None /\ p.season \in SeasonsOf(p.details)
     /\ force \/ WantsRefresh(p.details.seasons[p.season])
     /\ p.episodesRequest # "loading"
  THEN {[kind |-> "episodes", generation |-> p.seasonGeneration, id |-> p.id,
         season |-> p.season]}
  ELSE {}

\* Each reads the title's identity, and asks for nothing when that fails.
Readable(wanted) == IF "identity" \in Failing THEN SUBSET wanted ELSE {wanted}

SendUnmarked(p, asked, open) == \* mutant: the pending flags are not set
  pane' = p /\ requests' = open \cup asked

\* Mark what is asked for as pending and hand it to the pool.
Send(p, asked, open) ==
  /\ requests' = open \cup asked
  /\ pane' = [p EXCEPT !.pending = @ \/ \E r \in asked : r.kind = "details",
                       !.episodesRequest = IF \E r \in asked : r.kind = "episodes"
                                           THEN "loading" ELSE @]

\* The policy for what is on screen.
Policy(p, force, open) ==
  \E asked \in Readable(WantedDetails(p, force) \cup WantedEpisodes(p, force)) :
    Send(p, asked, open)

\* `fetch_when_settled`.
Settle(p) ==
  timers' = timers \cup
    {[generation |-> p.seasonGeneration, id |-> p.id, season |-> p.season]}

Acts == /\ pane.seasonGeneration < MaxGeneration
        /\ Cardinality(timers) + Cardinality(requests) < MaxOpen

\* The Library selected another title, or none.
Select(t) ==
  /\ Acts
  /\ t # pane.id
  /\ UNCHANGED <<week, media, token, page, requests, automatic>>
  /\ \E down \in SUBSET Failing :
       /\ pane' = Load([Closed EXCEPT !.id = t,
                          !.titleGeneration = pane.titleGeneration + 1,
                          !.seasonGeneration = pane.seasonGeneration + 1], down)
       /\ behind' = ("title" \in down)
  /\ Settle(pane')

\* The user picks a season of the list.
SelectSeason(n) ==
  /\ Acts
  /\ n \in SeasonsOf(pane.details) \ {pane.season}
  /\ UNCHANGED <<week, media, token, page, requests, behind, automatic>>
  /\ \E down \in SUBSET Failing :
       pane' = LoadEpisodes([pane EXCEPT !.season = n, !.episodesRequest = "idle",
                                         !.seasonGeneration = @ + 1], down)
  /\ Settle(pane')

\* A settle timer does something only for the selection it was started for.
TimerFires(timer) ==
  /\ timers' = timers \ {timer}
  /\ UNCHANGED <<week, media, token, page, behind, automatic>>
  /\ IF timer.generation = pane.seasonGeneration
     THEN Policy(pane, FALSE, requests)
     ELSE UNCHANGED <<pane, requests>>

\* Refresh, and Try again for the season alone.
Refresh ==
  /\ Acts
  /\ UNCHANGED <<week, media, token, page, timers, behind, automatic>>
  /\ Policy(pane, TRUE, requests)

RetrySeason ==
  /\ Acts
  /\ UNCHANGED <<week, media, token, page, timers, behind, automatic>>
  /\ \E asked \in Readable(WantedEpisodes(pane, TRUE)) : Send(pane, asked, requests)

\* The token appears or goes away, and that is announced.
TokenChanges ==
  /\ Acts
  /\ token' = ~token
  /\ UNCHANGED <<week, media, page, timers, behind, automatic>>
  /\ Policy(pane, FALSE, requests)

\* What a save under `t` makes of the title on screen, if it is not read again.
Unseen(t) == behind' = (behind \/ pane.id = t)

ListsOf(t) == IF t \in Series THEN SUBSET Numbers ELSE {{}}

\* `details_arrived`: saved in any case; shown, with a request for the season
\* that is shown then, only for the current title generation.
DetailsArrived(r) ==
  /\ r.kind = "details"
  /\ UNCHANGED <<week, token, page, timers, automatic>>
  /\ \/ \E S \in ListsOf(r.id), down \in SUBSET Failing :
          /\ media' = [media EXCEPT ![r.id] = SaveDetails(@, S)]
          /\ IF r.generation # pane.titleGeneration
             THEN pane' = pane /\ requests' = requests \ {r} /\ Unseen(r.id)
             ELSE LET p == Load([pane EXCEPT !.pending = FALSE, !.notice = FALSE], down) IN
                  /\ behind' = ("title" \in down)
                  /\ \E asked \in Readable(WantedEpisodes(p, FALSE)) :
                       Send(p, asked, requests \ {r})
     \/ \* TMDB failed, or the save did
        /\ UNCHANGED <<media, behind>>
        /\ requests' = requests \ {r}
        /\ pane' = IF r.generation # pane.titleGeneration THEN pane
                   ELSE [pane EXCEPT !.pending = FALSE, !.notice = TRUE]

\* `episodes_arrived`: the season's row is read again in any case.
EpisodesArrived(r) ==
  /\ r.kind = "episodes"
  /\ UNCHANGED <<week, token, page, timers, automatic>>
  /\ requests' = requests \ {r}
  /\ \E saved \in BOOLEAN, down \in SUBSET Failing :
       /\ media' = IF saved THEN [media EXCEPT ![r.id] = SaveEpisodes(@, r.season)] ELSE media
       /\ IF r.generation # pane.seasonGeneration
          THEN /\ pane' = pane
               /\ IF saved THEN Unseen(r.id) ELSE UNCHANGED behind
          ELSE LET request == IF saved THEN "idle" ELSE "failed" IN
               /\ pane' = Load([pane EXCEPT !.episodesRequest = request], down)
               /\ behind' = IF "title" \in down THEN behind \/ saved ELSE FALSE

\* The automatic refresh saves what it was sent while there is a token; seasons
\* it asks for have been fetched before, and may be dropped on the way.
AutomaticDetails(t) ==
  /\ token
  /\ \E S \in ListsOf(t) : media' = [media EXCEPT ![t] = SaveDetails(@, S)]
  /\ Unseen(t)
  /\ UNCHANGED <<week, token, page, pane, timers, requests, automatic>>

AutomaticAsks(t, n) ==
  /\ token /\ automatic = None
  /\ n \in DOMAIN media[t].seasons /\ media[t].seasons[n] # None
  /\ automatic' = <<t, n>>
  /\ UNCHANGED <<week, media, token, page, pane, timers, requests, behind>>

AutomaticEpisodes ==
  /\ automatic # None
  /\ automatic' = None
  /\ UNCHANGED <<week, token, page, pane, timers, requests>>
  /\ LET t == automatic[1] IN
     \/ /\ token
        /\ media' = [media EXCEPT ![t] = SaveEpisodes(@, automatic[2])]
        /\ Unseen(t)
     \/ UNCHANGED <<media, behind>>

\* The user shows another page or comes back.
TurnPage ==
  /\ page' = ~page
  /\ UNCHANGED <<week, media, token, pane, timers, requests, behind, automatic>>

WeekPasses ==
  /\ week < MaxWeek
  /\ week' = week + 1
  /\ UNCHANGED <<media, token, page, pane, timers, requests, behind, automatic>>

Answered(r) == DetailsArrived(r) \/ EpisodesArrived(r)

Next ==
  \/ \E t \in Titles \cup {None} : Select(t)
  \/ \E n \in Numbers : SelectSeason(n)
  \/ \E timer \in timers : TimerFires(timer)
  \/ Refresh \/ RetrySeason
  \/ TokenChanges
  \/ \E r \in requests : Answered(r)
  \/ \E t \in Titles : AutomaticDetails(t)
  \/ \E t \in Series, n \in Numbers : AutomaticAsks(t, n)
  \/ AutomaticEpisodes
  \/ TurnPage
  \/ WeekPasses

Spec == Init /\ [][Next]_vars
-----------------------------------------------------------------------------
\* `media_detail`: the header of what `render` shows.
MediaDetail ==
  [hasItem |-> pane.id # None,
   refreshing |-> pane.details # None /\ (pane.pending \/ pane.episodesRequest = "loading")]

\* `season_panel`: the shown season's list, or what stands in its place and
\* whether Try again is offered there.
SeasonPanel ==
  CASE pane.season = None -> [shows |-> "no seasons", retry |-> FALSE]
    [] pane.episodes # None -> [shows |-> "episodes", retry |-> FALSE]
    [] pane.episodes = None /\ pane.season # None ->
         CASE pane.episodesRequest = "loading" -> [shows |-> "loading", retry |-> FALSE]
           [] pane.episodesRequest = "failed" -> [shows |-> "failed", retry |-> TRUE]
           [] pane.episodesRequest = "idle" ->
                IF pane.details.seasons[pane.season] = None
                THEN [shows |-> "not downloaded", retry |-> token]
                ELSE [shows |-> "none listed", retry |-> FALSE]

\* The refreshing indicator is true: a flag is set exactly while its answer is
\* on its way, once, and the answer is for what is shown, whatever was selected
\* before and however often (detail.rs:19-22).
Current(r) ==
  r.generation = IF r.kind = "details" THEN pane.titleGeneration ELSE pane.seasonGeneration
RefreshingIsTrue ==
  /\ MediaDetail.refreshing <=> \E r \in requests : Current(r)
  /\ {r \in requests : Current(r)} =
       (IF pane.pending
        THEN {[kind |-> "details", generation |-> pane.titleGeneration, id |-> pane.id,
               season |-> None]} ELSE {})
       \cup
       (IF pane.episodesRequest = "loading"
        THEN {[kind |-> "episodes", generation |-> pane.seasonGeneration, id |-> pane.id,
               season |-> pane.season]} ELSE {})

\* Title, season and episodes on screen belong together, though seasons come and
\* go with every answer.
ShownBelongs ==
  /\ pane.details # None => pane.id # None
  /\ IF SeasonsOf(pane.details) = {} THEN pane.season = None
     ELSE pane.season \in SeasonsOf(pane.details)
  /\ pane.episodes \in {None, <<pane.id, pane.season>>}

\* ADR-0013: the pane shows what is stored; only a save it is not told of, or a
\* failed read, leaves it behind. A season whose episodes are stored is never
\* called not downloaded, failed or loading, and no other shows a list.
ShownIsStored ==
  pane.id # None /\ ~behind =>
    /\ pane.details = media[pane.id]
    /\ pane.season # None /\ "episodes" \notin Failing =>
         (SeasonPanel.shows = "episodes" <=> media[pane.id].seasons[pane.season] # None)

\* Requests start only where the selection stops (detail.rs:15-17): a timer that
\* is still in effect was started for what is selected now.
SettledHere ==
  \A timer \in timers : timer.generation = pane.seasonGeneration
    => timer.id = pane.id /\ timer.season = pane.season

\* Pane and timers are consistent in themselves and with what is stored.
PaneIsSound == TypeOK /\ ShownBelongs /\ SettledHere /\ ShownIsStored

\* Known episodes are never forgotten while their season is listed (ADR-0015).
CoverageStays ==
  [][\A t \in Titles : \A n \in DOMAIN media[t].seasons \cap DOMAIN media'[t].seasons :
       media[t].seasons[n] # None => media'[t].seasons[n] # None]_vars
=============================================================================
