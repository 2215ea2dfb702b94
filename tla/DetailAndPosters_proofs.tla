---------------------- MODULE DetailAndPosters_proofs ----------------------
(***************************************************************************)
(* Proofs about two parts of the window that ask the network for what they *)
(* show: the detail pane, for any titles and seasons, and the poster       *)
(* service, for any number of posters of any size and any budget.          *)
(***************************************************************************)
EXTENDS DetailPane, Posters, FiniteSetTheorems, NaturalsInduction,
        WellFoundedInduction, TLAPS

\* Induction over naturals, with the property as a set.
LessThan == {ss \in Nat \X Nat : ss[1] < ss[2]}

LEMMA LeastOfNaturals ==
  ASSUME NEW S, S \subseteq Nat, S # {}
  PROVE  \E m \in S : \A n \in S : m <= n
<1>1. IsWellFoundedOn(LessThan, Nat)
  BY NatLessThanWellFounded, Zenon DEF OpToRel, LessThan
<1>2. PICK m \in S : \A n \in S : ~ (<<n, m>> \in LessThan)
  BY <1>1, WFMin, Zenon
<1>3. ASSUME NEW n \in S
      PROVE  m <= n
  <2>1. n < m => <<n, m>> \in LessThan
    BY DEF LessThan
  <2> QED
    BY <1>2, <2>1
<1> QED
  BY <1>3

LEMMA MinOfNaturals ==
  ASSUME NEW S, S \subseteq Nat, S # {}
  PROVE  /\ Min(S) \in S
         /\ \A n \in S : Min(S) <= n
BY LeastOfNaturals DEF Min

LEMMA NaturalInduction ==
  ASSUME NEW P, 0 \in P, \A n \in Nat : n \in P => n + 1 \in P
  PROVE  Nat \subseteq P
<1> SUFFICES ASSUME Nat \ P # {}
             PROVE  FALSE
  OBVIOUS
<1>1. PICK m \in Nat \ P : \A n \in Nat \ P : m <= n
  BY LeastOfNaturals
<1>2. m # 0 /\ m - 1 \in Nat
  BY <1>1
<1>3. m - 1 \in P
  BY <1>1, <1>2
<1>4. (m - 1) + 1 \in P
  BY <1>2, <1>3
<1> QED
  BY <1>1, <1>4

\* Where seasons are listed, the one selected by default is one of them.
LEMMA DefaultIsListed ==
  ASSUME NEW S, S \subseteq Numbers
  PROVE  /\ S = {} => DefaultSeason(S) = None
         /\ S # {} => DefaultSeason(S) \in S
<1>1. CASE S = {}
  BY <1>1 DEF DefaultSeason
<1>2. CASE S = {0}
  BY <1>2 DEF DefaultSeason
<1>3. CASE S # {} /\ S # {0}
  <2>1. S \ {0} # {} /\ S \ {0} \subseteq Nat
    BY <1>3, PaneAssumption
  <2> QED
    BY <1>3, <2>1, MinOfNaturals DEF DefaultSeason
<1> QED
  BY <1>1, <1>2, <1>3
-----------------------------------------------------------------------------
MediaOK == media \in [Titles -> Details]

\* Title and season of a pane belong together.
Belongs(p) ==
  /\ p.details # None => p.id # None
  /\ IF SeasonsOf(p.details) = {} THEN p.season = None ELSE p.season \in SeasonsOf(p.details)

\* What no load touches.
SameTitle(p, q) ==
  /\ q.id = p.id /\ q.titleGeneration = p.titleGeneration
  /\ q.pending = p.pending /\ q.notice = p.notice

LEMMA SeasonsAreNumbers ==
  ASSUME NEW d \in Details \cup {None}
  PROVE  SeasonsOf(d) \subseteq Numbers
BY DEF Details, Lists, SeasonsOf

\* What `load_details` leaves of a pane: the season stays, and with it the season
\* generation, or both are new and no season request counts any more.
LEMMA LoadDetailsResult ==
  ASSUME NEW p \in Pane, NEW down, MediaOK', p.details # None => p.id # None,
         p.id = None => p.season = None
  PROVE  LET q == LoadDetails(p, down) IN
         /\ q \in Pane /\ SameTitle(p, q) /\ Belongs(q)
         /\ q.episodes = p.episodes
         /\ q.details = IF p.id = None \/ "title" \in down THEN p.details ELSE media'[p.id]
         /\ \/ q.season = p.season /\ q.seasonGeneration = p.seasonGeneration
               /\ q.episodesRequest = p.episodesRequest
            \/ q.seasonGeneration = p.seasonGeneration + 1 /\ q.episodesRequest = "idle"
<1> DEFINE d == IF "title" \in down THEN p.details ELSE media'[p.id]
           q == LoadDetails(p, down)
<1>1. CASE p.id = None
  BY <1>1 DEF LoadDetails, Belongs, SameTitle, SeasonsOf
<1>2. CASE p.id # None
  <2>1. d \in Details \cup {None}
    BY <1>2 DEF MediaOK, Pane
  <2>2. CASE p.season \in SeasonsOf(d)
    <3>1. q = [p EXCEPT !.details = d]
      BY <1>2, <2>2 DEF LoadDetails
    <3>2. q \in Pane
      BY <2>1, <3>1 DEF Pane
    <3>3. q.details = d /\ q.id = p.id /\ q.season = p.season
      BY <3>1 DEF Pane
    <3>4. Belongs(q)
      BY <1>2, <2>2, <3>3 DEF Belongs
    <3> QED
      BY <1>2, <3>1, <3>2, <3>3, <3>4 DEF SameTitle, Pane
  <2>3. CASE p.season \notin SeasonsOf(d)
    <3>1. q = [p EXCEPT !.details = d, !.season = DefaultSeason(SeasonsOf(d)),
                        !.seasonGeneration = @ + 1, !.episodesRequest = "idle"]
      BY <1>2, <2>3 DEF LoadDetails
    <3>2. DefaultSeason(SeasonsOf(d)) \in Numbers \cup {None}
      BY <2>1, SeasonsAreNumbers, DefaultIsListed
    <3>3. q \in Pane
      <4>1. p.seasonGeneration + 1 \in Nat
        BY DEF Pane
      <4> HIDE DEF d
      <4> QED
        BY <2>1, <3>1, <3>2, <4>1 DEF Pane
    <3>4. q.details = d /\ q.id = p.id /\ q.season = DefaultSeason(SeasonsOf(d))
      BY <3>1 DEF Pane
    <3>5. Belongs(q)
      BY <1>2, <2>1, <3>4, SeasonsAreNumbers, DefaultIsListed DEF Belongs
    <3> QED
      BY <1>2, <3>1, <3>3, <3>4, <3>5 DEF SameTitle, Pane
  <2> QED
    BY <2>2, <2>3
<1> QED
  BY <1>1, <1>2

\* Whether the list of a pane's season is stored after the step.
Stored(p) == p.season \in SeasonsOf(media'[p.id]) /\ media'[p.id].seasons[p.season] # None

LEMMA LoadEpisodesResult ==
  ASSUME NEW p \in Pane, NEW down, MediaOK'
  PROVE  LET q == LoadEpisodes(p, down) IN
         /\ q \in Pane /\ SameTitle(p, q)
         /\ q.details = p.details /\ q.season = p.season
         /\ q.seasonGeneration = p.seasonGeneration /\ q.episodesRequest = p.episodesRequest
         /\ q.episodes \in {None, <<p.id, p.season>>}
         /\ p.id # None /\ "episodes" \notin down => (q.episodes # None <=> Stored(p))
<1> DEFINE q == LoadEpisodes(p, down)
           stored == /\ p.id # None /\ "episodes" \notin down
                     /\ p.season \in SeasonsOf(media'[p.id]) /\ media'[p.id].seasons[p.season] # None
           e == IF stored THEN <<p.id, p.season>> ELSE None
<1>1. q = [p EXCEPT !.episodes = e]
  BY DEF LoadEpisodes
<1>2. stored => <<p.id, p.season>> \in Titles \X Numbers
  <2> SUFFICES ASSUME stored PROVE <<p.id, p.season>> \in Titles \X Numbers
    OBVIOUS
  <2>1. p.id \in Titles
    BY DEF Pane
  <2>2. media'[p.id] \in Details
    BY <2>1 DEF MediaOK
  <2> QED
    BY <2>1, <2>2, SeasonsAreNumbers
<1>3. q \in Pane
  BY <1>1, <1>2 DEF Pane
<1>4. q.episodes = e /\ SameTitle(p, q) /\ q.details = p.details /\ q.season = p.season
      /\ q.seasonGeneration = p.seasonGeneration /\ q.episodesRequest = p.episodesRequest
  BY <1>1 DEF Pane, SameTitle
<1>5. e # None <=> stored
  BY <1>2, PaneAssumption
<1> HIDE DEF q
<1>6. p.id # None /\ "episodes" \notin down => (q.episodes # None <=> Stored(p))
  BY <1>4, <1>5 DEF Stored
<1> QED
  BY <1>3, <1>4, <1>6 DEF q

\* `load_details` and `load_episodes` together.
LEMMA LoadResult ==
  ASSUME NEW p \in Pane, NEW down, MediaOK', p.details # None => p.id # None,
         p.id = None => p.season = None
  PROVE  LET q == Load(p, down) IN
         /\ q \in Pane /\ SameTitle(p, q) /\ Belongs(q)
         /\ q.details = IF p.id = None \/ "title" \in down THEN p.details ELSE media'[p.id]
         /\ q.episodes \in {None, <<q.id, q.season>>}
         /\ q.id # None /\ "episodes" \notin down => (q.episodes # None <=> Stored(q))
         /\ \/ q.season = p.season /\ q.seasonGeneration = p.seasonGeneration
               /\ q.episodesRequest = p.episodesRequest
            \/ q.seasonGeneration = p.seasonGeneration + 1 /\ q.episodesRequest = "idle"
<1> DEFINE r == LoadDetails(p, down)
           q == LoadEpisodes(r, down)
<1>1. /\ r \in Pane /\ SameTitle(p, r) /\ Belongs(r)
      /\ r.details = IF p.id = None \/ "title" \in down THEN p.details ELSE media'[p.id]
      /\ \/ r.season = p.season /\ r.seasonGeneration = p.seasonGeneration
            /\ r.episodesRequest = p.episodesRequest
         \/ r.seasonGeneration = p.seasonGeneration + 1 /\ r.episodesRequest = "idle"
  BY LoadDetailsResult
<1> HIDE DEF r
<1>2. /\ q \in Pane /\ SameTitle(r, q)
      /\ q.details = r.details /\ q.season = r.season
      /\ q.seasonGeneration = r.seasonGeneration /\ q.episodesRequest = r.episodesRequest
      /\ q.episodes \in {None, <<r.id, r.season>>}
      /\ r.id # None /\ "episodes" \notin down => (q.episodes # None <=> Stored(r))
  BY <1>1, LoadEpisodesResult
<1> HIDE DEF q
<1>3. SameTitle(p, q) /\ Belongs(q) /\ (Stored(q) <=> Stored(r))
  BY <1>1, <1>2 DEF SameTitle, Belongs, Stored
<1>4. q = Load(p, down)
  BY DEF q, r, Load
<1>5. q.id = r.id
  BY <1>2 DEF SameTitle
<1> QED
  BY <1>1, <1>2, <1>3, <1>4, <1>5
-----------------------------------------------------------------------------
DetailsRequest(p) ==
  [kind |-> "details", generation |-> p.titleGeneration, id |-> p.id, season |-> None]
EpisodesRequest(p) ==
  [kind |-> "episodes", generation |-> p.seasonGeneration, id |-> p.id, season |-> p.season]

\* The flags of a pane and the requests under way agree: nothing under way is
\* ahead of the generations, and of this generation it is exactly what the flags
\* say.
Agrees(p, open) ==
  /\ \A r \in open : r.kind = "details" =>
       /\ r.generation <= p.titleGeneration
       /\ r.generation = p.titleGeneration => p.pending /\ r = DetailsRequest(p)
  /\ \A r \in open : r.kind = "episodes" =>
       /\ r.season # None
       /\ r.generation <= p.seasonGeneration
       /\ r.generation = p.seasonGeneration =>
            p.episodesRequest = "loading" /\ r = EpisodesRequest(p)
  /\ p.pending => DetailsRequest(p) \in open /\ p.details # None
  /\ p.episodesRequest = "loading" => EpisodesRequest(p) \in open /\ p.details # None

\* What `fetch_details` and `fetch_episodes` do with the flags keeps the
\* agreement, whichever of them could read the title's identity.
LEMMA SendAgrees ==
  ASSUME NEW p \in Pane, NEW open \in SUBSET Request, Belongs(p), Agrees(p, open),
         NEW force, NEW again,
         NEW asked \in SUBSET (WantedDetails(p, force) \cup WantedEpisodes(p, again)),
         Send(p, asked, open)
  PROVE  /\ pane' \in Pane /\ requests' \subseteq Request /\ Agrees(pane', requests')
         /\ pane'.id = p.id /\ pane'.details = p.details /\ pane'.season = p.season
         /\ pane'.episodes = p.episodes /\ pane'.seasonGeneration = p.seasonGeneration
<1>1. /\ \A r \in asked : r.kind = "details" =>
           r = DetailsRequest(p) /\ ~p.pending /\ p.details # None
      /\ \A r \in asked : r.kind = "episodes" =>
           /\ r = EpisodesRequest(p) /\ p.episodesRequest # "loading"
           /\ p.season \in SeasonsOf(p.details) /\ p.id # None
      /\ \A r \in asked : r.kind = "details" \/ r.kind = "episodes"
      /\ \A r \in asked : r.kind = "details" => p.id # None
  BY DEF WantedDetails, WantedEpisodes, DetailsRequest, EpisodesRequest
<1>2. ASSUME NEW r \in asked, r.kind = "episodes"
      PROVE  p.details # None /\ p.season \in Numbers
  <2>1. p.season \in SeasonsOf(p.details)
    BY <1>1, <1>2
  <2> QED
    BY <2>1, SeasonsAreNumbers DEF SeasonsOf, Pane
<1>3. asked \subseteq Request
  BY <1>1, <1>2 DEF Request, DetailsRequest, EpisodesRequest, Pane
<1> DEFINE pending == p.pending \/ \E r \in asked : r.kind = "details"
           request == IF \E r \in asked : r.kind = "episodes" THEN "loading" ELSE p.episodesRequest
<1>4. pane' = [p EXCEPT !.pending = pending, !.episodesRequest = request]
      /\ requests' = open \cup asked
  BY DEF Send
<1>5. pending \in BOOLEAN /\ request \in {"idle", "loading", "failed"}
  BY DEF Pane
<1>6. /\ pane' \in Pane /\ requests' \subseteq Request
      /\ pane'.id = p.id /\ pane'.details = p.details /\ pane'.season = p.season
      /\ pane'.episodes = p.episodes /\ pane'.seasonGeneration = p.seasonGeneration
      /\ pane'.titleGeneration = p.titleGeneration
      /\ pane'.pending = pending /\ pane'.episodesRequest = request
  BY <1>3, <1>4, <1>5 DEF Pane
<1>7. DetailsRequest(pane') = DetailsRequest(p) /\ EpisodesRequest(pane') = EpisodesRequest(p)
  BY <1>6 DEF DetailsRequest, EpisodesRequest
<1>8. Agrees(pane', requests')
  <2>1. ASSUME NEW r \in requests', r.kind = "details"
        PROVE  /\ r.generation <= pane'.titleGeneration
               /\ r.generation = pane'.titleGeneration => pane'.pending /\ r = DetailsRequest(pane')
    <3>1. CASE r \in open
      BY <2>1, <3>1, <1>6, <1>7 DEF Agrees
    <3>2. CASE r \in asked
      BY <2>1, <3>2, <1>1, <1>6, <1>7 DEF DetailsRequest, Pane
    <3> QED
      BY <3>1, <3>2, <1>4
  <2>2. ASSUME NEW r \in requests', r.kind = "episodes"
        PROVE  /\ r.season # None
               /\ r.generation <= pane'.seasonGeneration
               /\ r.generation = pane'.seasonGeneration =>
                    pane'.episodesRequest = "loading" /\ r = EpisodesRequest(pane')
    <3>1. CASE r \in open
      BY <2>2, <3>1, <1>6, <1>7 DEF Agrees
    <3>2. CASE r \in asked
      <4>1. r = EpisodesRequest(p) /\ p.season # None
        BY <2>2, <3>2, <1>1, <1>2, PaneAssumption
      <4> QED
        BY <2>2, <3>2, <4>1, <1>6, <1>7 DEF EpisodesRequest, Pane
    <3> QED
      BY <3>1, <3>2, <1>4
  <2>3. pane'.pending => DetailsRequest(pane') \in requests' /\ pane'.details # None
    <3>1. CASE p.pending
      BY <3>1, <1>4, <1>6, <1>7 DEF Agrees
    <3>2. CASE \E r \in asked : r.kind = "details"
      BY <3>2, <1>1, <1>4, <1>6, <1>7
    <3> QED
      BY <3>1, <3>2, <1>6
  <2>4. pane'.episodesRequest = "loading" =>
          EpisodesRequest(pane') \in requests' /\ pane'.details # None
    <3>1. CASE \E r \in asked : r.kind = "episodes"
      BY <3>1, <1>1, <1>2, <1>4, <1>6, <1>7
    <3>2. CASE ~ \E r \in asked : r.kind = "episodes"
      BY <3>2, <1>4, <1>6, <1>7 DEF Agrees
    <3> QED
      BY <3>1, <3>2
  <2> QED
    BY <2>1, <2>2, <2>3, <2>4 DEF Agrees
<1> QED
  BY <1>6, <1>8
-----------------------------------------------------------------------------
\* No settle timer is ahead of the selection.
TimersBehind == \A timer \in timers : timer.generation <= pane.seasonGeneration

\* The season panel shows episodes exactly where the pane has some.
LEMMA PanelShows ==
  ASSUME TypeOK, pane.season # None
  PROVE  SeasonPanel.shows = "episodes" <=> pane.episodes # None
<1>1. pane.episodesRequest \in {"idle", "loading", "failed"}
  BY DEF TypeOK, Pane
<1>2. CASE pane.episodes # None
  BY <1>2 DEF SeasonPanel
<1>3. CASE pane.episodes = None
  <2>1. CASE pane.episodesRequest = "loading"
    BY <1>3, <2>1 DEF SeasonPanel
  <2>2. CASE pane.episodesRequest = "failed"
    BY <1>3, <2>2 DEF SeasonPanel
  <2>3. CASE pane.episodesRequest = "idle"
    BY <1>3, <2>3 DEF SeasonPanel
  <2> QED
    BY <1>1, <2>1, <2>2, <2>3
<1> QED
  BY <1>2, <1>3

\* ShownIsStored for a pane, without the season panel.
ShowsStored(p, m) ==
  p.id # None =>
    /\ p.details = m[p.id]
    /\ p.season # None /\ "episodes" \notin Failing =>
         (p.episodes # None <=> m[p.id].seasons[p.season] # None)

PaneInv ==
  /\ TypeOK
  /\ Belongs(pane) /\ pane.episodes \in {None, <<pane.id, pane.season>>}
  /\ ~behind => ShowsStored(pane, media)
  /\ SettledHere /\ TimersBehind
  /\ Agrees(pane, requests)

LEMMA InvIsSound == PaneInv => PaneIsSound
<1> SUFFICES ASSUME PaneInv PROVE PaneIsSound
  OBVIOUS
<1>1. ShownIsStored
  BY PanelShows DEF PaneInv, ShownIsStored, ShowsStored
<1>2. ShownBelongs
  BY DEF PaneInv, ShownBelongs, Belongs
<1> QED
  BY <1>1, <1>2 DEF PaneInv, PaneIsSound

\* The flags say what is under way, and the indicator says what the flags say.
LEMMA InvIsTrue == PaneInv => RefreshingIsTrue
<1> SUFFICES ASSUME PaneInv PROVE RefreshingIsTrue
  OBVIOUS
<1>1. TypeOK /\ Agrees(pane, requests)
  BY DEF PaneInv
<1> DEFINE current == {r \in requests : Current(r)}
           details == IF pane.pending THEN {DetailsRequest(pane)} ELSE {}
           episodes == IF pane.episodesRequest = "loading" THEN {EpisodesRequest(pane)} ELSE {}
<1>2. ASSUME NEW r \in current
      PROVE  r \in details \cup episodes
  <2>1. r.kind = "details" \/ r.kind = "episodes"
    BY <1>1 DEF TypeOK, Request
  <2> QED
    BY <1>1, <1>2, <2>1 DEF Agrees, Current
<1>3. details \subseteq current /\ episodes \subseteq current
  BY <1>1 DEF Agrees, Current, DetailsRequest, EpisodesRequest
<1>4. current = details \cup episodes
  BY <1>2, <1>3
<1>5. MediaDetail.refreshing <=> pane.pending \/ pane.episodesRequest = "loading"
  BY <1>1 DEF MediaDetail, Agrees
<1>6. MediaDetail.refreshing <=> \E r \in requests : Current(r)
  BY <1>4, <1>5
<1> QED
  BY <1>4, <1>6 DEF RefreshingIsTrue, DetailsRequest, EpisodesRequest

\* After a load that could read the title the pane shows what is stored.
LEMMA LoadShowsStored ==
  ASSUME NEW p \in Pane, NEW down \in SUBSET Failing, MediaOK',
         p.details # None => p.id # None, p.id = None => p.season = None,
         "title" \notin down \/ p.id = None \/ p.details = media'[p.id]
  PROVE  ShowsStored(Load(p, down), media')
<1> DEFINE q == Load(p, down)
<1>1. /\ q \in Pane /\ SameTitle(p, q) /\ Belongs(q)
      /\ q.details = IF p.id = None \/ "title" \in down THEN p.details ELSE media'[p.id]
      /\ q.id # None /\ "episodes" \notin down => (q.episodes # None <=> Stored(q))
  BY LoadResult
<1> HIDE DEF q
<1> SUFFICES ASSUME q.id # None
             PROVE  /\ q.details = media'[q.id]
                    /\ q.season # None /\ "episodes" \notin Failing =>
                         (q.episodes # None <=> media'[q.id].seasons[q.season] # None)
  BY DEF ShowsStored, q
<1>2. q.details = media'[q.id]
  BY <1>1 DEF SameTitle
<1>3. ASSUME q.season # None, "episodes" \notin Failing
      PROVE  q.episodes # None <=> media'[q.id].seasons[q.season] # None
  <2>1. q.season \in SeasonsOf(q.details)
    BY <1>1, <1>3 DEF Belongs
  <2>2. "episodes" \notin down
    BY <1>3
  <2> QED
    BY <1>1, <1>2, <2>1, <2>2 DEF Stored
<1> QED
  BY <1>2, <1>3
-----------------------------------------------------------------------------
\* Saving keeps the metadata well-formed.
LEMMA SaveDetailsType ==
  ASSUME NEW d \in Details, NEW S \in SUBSET Numbers, week \in 0..MaxWeek
  PROVE  SaveDetails(d, S) \in Details
<1>1. d.seasons \in Lists
  BY DEF Details
<1>2. PICK D \in SUBSET Numbers : d.seasons \in [D -> Time]
  BY <1>1 DEF Lists
<1> DEFINE f == [n \in S |-> IF n \in DOMAIN d.seasons THEN d.seasons[n] ELSE None]
<1>3. f \in [S -> Time]
  BY <1>2 DEF Time
<1>4. f \in Lists
  BY <1>3 DEF Lists
<1> HIDE DEF f
<1>5. week \in Time
  BY DEF Time
<1>6. SaveDetails(d, S) = [fetched |-> week, seasons |-> IF S = {} THEN d.seasons ELSE f]
  BY DEF SaveDetails, f
<1> QED
  BY <1>1, <1>4, <1>5, <1>6 DEF Details

LEMMA SaveEpisodesType ==
  ASSUME NEW d \in Details, NEW n \in Numbers, week \in 0..MaxWeek
  PROVE  SaveEpisodes(d, n) \in Details
<1>1. d.seasons \in Lists /\ d.fetched \in Time
  BY DEF Details
<1>2. PICK D \in SUBSET Numbers : d.seasons \in [D -> Time]
  BY <1>1 DEF Lists
<1> DEFINE f == [m \in DOMAIN d.seasons \cup {n} |-> IF m = n THEN week ELSE d.seasons[m]]
<1>3. f \in [D \cup {n} -> Time]
  BY <1>2 DEF Time
<1>4. f \in Lists
  BY <1>3 DEF Lists
<1> HIDE DEF f
<1>5. SaveEpisodes(d, n) = [d EXCEPT !.seasons = f]
  BY DEF SaveEpisodes, f
<1> QED
  BY <1>1, <1>4, <1>5 DEF Details

\* Saving for a title that is not shown changes nothing the pane shows.
LEMMA UnseenInv ==
  ASSUME PaneInv, NEW t \in Titles, NEW d \in Details, media' = [media EXCEPT ![t] = d],
         Unseen(t), UNCHANGED <<week, token, page, pane, timers>>, requests' \subseteq requests,
         \A r \in requests \ requests' : ~ Current(r),
         automatic' \in (Series \X Numbers) \cup {None}
  PROVE  PaneInv'
<1>1. /\ TypeOK /\ Belongs(pane) /\ pane.episodes \in {None, <<pane.id, pane.season>>}
      /\ (~behind => ShowsStored(pane, media))
      /\ SettledHere /\ TimersBehind /\ Agrees(pane, requests)
  BY DEF PaneInv
<1>2. media \in [Titles -> Details]
  BY <1>1 DEF TypeOK
<1>3. TypeOK'
  BY <1>1, <1>2 DEF TypeOK, Unseen
<1>4. ~behind' => ShowsStored(pane', media')
  <2> SUFFICES ASSUME ~behind' PROVE ShowsStored(pane, media')
    OBVIOUS
  <2>1. pane.id # t /\ ~behind
    BY DEF Unseen
  <2>2. pane.id # None => pane.id \in Titles /\ media'[pane.id] = media[pane.id]
    BY <1>1, <1>2, <2>1 DEF TypeOK, Pane
  <2> QED
    BY <1>1, <2>1, <2>2 DEF ShowsStored
<1>5. Agrees(pane', requests')
  BY <1>1 DEF Agrees, Current, DetailsRequest, EpisodesRequest
<1>6. SettledHere' /\ TimersBehind' /\ Belongs(pane')
      /\ pane'.episodes \in {None, <<pane'.id, pane'.season>>}
  BY <1>1 DEF SettledHere, TimersBehind
<1> QED
  BY <1>3, <1>4, <1>5, <1>6 DEF PaneInv
-----------------------------------------------------------------------------
\* The invariant's parts, where a step needs them.
LEMMA Parts ==
  ASSUME PaneInv
  PROVE  /\ TypeOK /\ MediaOK /\ pane \in Pane /\ requests \subseteq Request
         /\ Belongs(pane) /\ pane.episodes \in {None, <<pane.id, pane.season>>}
         /\ (~behind => ShowsStored(pane, media))
         /\ SettledHere /\ TimersBehind /\ Agrees(pane, requests)
         /\ (pane.details # None => pane.id # None)
         /\ (pane.id = None => pane.season = None)
BY DEF PaneInv, TypeOK, MediaOK, Belongs, SeasonsOf

\* A settle timer started for a new selection is the only one of its generation.
LEMMA TimersFollow ==
  ASSUME TypeOK, TimersBehind, pane' \in Pane,
         pane'.seasonGeneration > pane.seasonGeneration, Settle(pane')
  PROVE  /\ TimersBehind' /\ SettledHere'
         /\ timers' \subseteq [generation : Nat, id : Titles \cup {None}, season : Numbers \cup {None}]
<1> DEFINE new == [generation |-> pane'.seasonGeneration, id |-> pane'.id, season |-> pane'.season]
<1>1. timers' = timers \cup {new}
  BY DEF Settle
<1>2. ASSUME NEW timer \in timers
      PROVE  timer.generation < pane'.seasonGeneration /\ timer.generation \in Nat
  BY DEF TimersBehind, TypeOK, Pane
<1>3. new \in [generation : Nat, id : Titles \cup {None}, season : Numbers \cup {None}]
      /\ new.generation = pane'.seasonGeneration /\ new.id = pane'.id /\ new.season = pane'.season
  BY DEF Pane
<1>4. pane'.seasonGeneration \in Nat
  BY DEF Pane
<1> HIDE DEF new
<1>5. ASSUME NEW timer \in timers'
      PROVE  /\ timer.generation <= pane'.seasonGeneration
             /\ timer.generation = pane'.seasonGeneration =>
                  timer.id = pane'.id /\ timer.season = pane'.season
  <2>1. CASE timer \in timers
    BY <2>1, <1>2, <1>4
  <2>2. CASE timer = new
    BY <2>2, <1>3, <1>4
  <2> QED
    BY <1>1, <2>1, <2>2
<1> QED
  BY <1>1, <1>3, <1>5 DEF TimersBehind, SettledHere, TypeOK

\* Requests of before a new generation stay under way, but count no more.
LEMMA RequestsLeft ==
  ASSUME TypeOK, Agrees(pane, requests), requests' = requests, pane' \in Pane,
         pane'.seasonGeneration > pane.seasonGeneration, pane'.episodesRequest = "idle",
         \/ pane'.titleGeneration > pane.titleGeneration /\ pane'.pending = FALSE
         \/ /\ pane'.titleGeneration = pane.titleGeneration /\ pane'.pending = pane.pending
            /\ pane'.id = pane.id /\ pane'.details = pane.details
  PROVE  Agrees(pane', requests')
<1>1. ASSUME NEW r \in requests
      PROVE  r.generation \in Nat
  BY DEF TypeOK, Request
<1>2. ASSUME NEW r \in requests, r.kind = "episodes"
      PROVE  r.generation < pane'.seasonGeneration /\ r.season # None
  BY <1>1, <1>2 DEF Agrees, Pane, TypeOK
<1>3. CASE pane'.titleGeneration > pane.titleGeneration /\ pane'.pending = FALSE
  <2>1. ASSUME NEW r \in requests, r.kind = "details"
        PROVE  r.generation < pane'.titleGeneration
    BY <1>1, <1>3, <2>1 DEF Agrees, Pane, TypeOK
  <2>2. pane'.titleGeneration \in Nat /\ pane'.seasonGeneration \in Nat
    BY DEF Pane
  <2> QED
    BY <1>1, <1>2, <1>3, <2>1, <2>2 DEF Agrees
<1>4. CASE /\ pane'.titleGeneration = pane.titleGeneration /\ pane'.pending = pane.pending
           /\ pane'.id = pane.id /\ pane'.details = pane.details
  <2>1. DetailsRequest(pane') = DetailsRequest(pane)
    BY <1>4 DEF DetailsRequest
  <2>2. pane'.seasonGeneration \in Nat
    BY DEF Pane
  <2> QED
    BY <1>1, <1>2, <1>4, <2>1, <2>2 DEF Agrees
<1> QED
  BY <1>3, <1>4

\* A new selection: every request and timer of before is of an earlier generation.
LEMMA SelectInv ==
  ASSUME PaneInv, NEW t \in Titles \cup {None}, Select(t)
  PROVE  PaneInv'
<1>1. TypeOK /\ MediaOK /\ pane \in Pane /\ Agrees(pane, requests) /\ TimersBehind
  BY Parts
<1>2. PICK down \in SUBSET Failing :
        /\ pane' = Load([Closed EXCEPT !.id = t,
                          !.titleGeneration = pane.titleGeneration + 1,
                          !.seasonGeneration = pane.seasonGeneration + 1], down)
        /\ behind' = ("title" \in down)
  BY DEF Select
<1> DEFINE p == [Closed EXCEPT !.id = t, !.titleGeneration = pane.titleGeneration + 1,
                               !.seasonGeneration = pane.seasonGeneration + 1]
<1>3. Closed \in Pane /\ pane.titleGeneration + 1 \in Nat /\ pane.seasonGeneration + 1 \in Nat
  BY <1>1 DEF Closed, Pane
<1>4. p \in Pane
  BY <1>3 DEF Pane
<1>5. UNCHANGED <<week, media, token, page, requests, automatic>>
      /\ timers' = timers \cup {[generation |-> pane'.seasonGeneration, id |-> pane'.id,
                                 season |-> pane'.season]}
  BY DEF Select, Settle
<1>6. MediaOK'
  BY <1>1, <1>5 DEF MediaOK
<1>7. p.details = None /\ p.season = None /\ p.pending = FALSE /\ p.episodesRequest = "idle"
      /\ p.titleGeneration = pane.titleGeneration + 1
      /\ p.seasonGeneration = pane.seasonGeneration + 1
  <2>1. /\ Closed.details = None /\ Closed.season = None /\ Closed.pending = FALSE
        /\ Closed.episodesRequest = "idle"
    BY DEF Closed
  <2> QED
    BY <1>3, <2>1 DEF Pane
<1>8. pane' = Load(p, down)
  BY <1>2
<1> HIDE DEF p
<1>9. /\ pane' \in Pane /\ SameTitle(p, pane') /\ Belongs(pane')
      /\ pane'.episodes \in {None, <<pane'.id, pane'.season>>}
      /\ pane'.seasonGeneration > pane.seasonGeneration
      /\ pane'.titleGeneration > pane.titleGeneration
      /\ pane'.episodesRequest = "idle" /\ pane'.pending = FALSE
  <2>1. /\ pane' \in Pane /\ SameTitle(p, pane') /\ Belongs(pane')
        /\ pane'.episodes \in {None, <<pane'.id, pane'.season>>}
        /\ \/ pane'.seasonGeneration = p.seasonGeneration
              /\ pane'.episodesRequest = p.episodesRequest
           \/ pane'.seasonGeneration = p.seasonGeneration + 1 /\ pane'.episodesRequest = "idle"
    BY <1>4, <1>6, <1>7, <1>8, LoadResult
  <2> QED
    BY <2>1, <1>1, <1>7 DEF SameTitle, Pane
<1>10. TypeOK'
  <2>1. [generation |-> pane'.seasonGeneration, id |-> pane'.id, season |-> pane'.season]
          \in [generation : Nat, id : Titles \cup {None}, season : Numbers \cup {None}]
    BY <1>9 DEF Pane
  <2>2. behind' \in BOOLEAN
    BY <1>2
  <2> QED
    BY <1>1, <1>5, <1>9, <2>1, <2>2 DEF TypeOK
<1>11. (~behind => ShowsStored(pane, media))'
  BY <1>2, <1>4, <1>6, <1>7, <1>8, LoadShowsStored
<1>12. TimersBehind' /\ SettledHere'
  BY <1>1, <1>9, TimersFollow DEF Select
<1>13. Agrees(pane, requests)'
  BY <1>1, <1>5, <1>9, RequestsLeft
<1> QED
  BY <1>9, <1>10, <1>11, <1>12, <1>13 DEF PaneInv

\* Another season of the same title.
LEMMA SelectSeasonInv ==
  ASSUME PaneInv, NEW n \in Numbers, SelectSeason(n)
  PROVE  PaneInv'
<1>1. /\ TypeOK /\ MediaOK /\ pane \in Pane /\ Agrees(pane, requests) /\ TimersBehind
      /\ Belongs(pane) /\ (~behind => ShowsStored(pane, media))
  BY Parts
<1> DEFINE p == [pane EXCEPT !.season = n, !.episodesRequest = "idle", !.seasonGeneration = @ + 1]
<1>2. PICK down \in SUBSET Failing : pane' = LoadEpisodes(p, down)
  BY DEF SelectSeason
<1>3. n \in SeasonsOf(pane.details)
      /\ UNCHANGED <<week, media, token, page, requests, behind, automatic>>
      /\ timers' = timers \cup {[generation |-> pane'.seasonGeneration, id |-> pane'.id,
                                 season |-> pane'.season]}
  BY DEF SelectSeason, Settle
<1>4. /\ p \in Pane /\ p.id = pane.id /\ p.details = pane.details /\ p.season = n
      /\ p.seasonGeneration = pane.seasonGeneration + 1 /\ p.episodesRequest = "idle"
      /\ p.titleGeneration = pane.titleGeneration /\ p.pending = pane.pending
  <2>1. pane.seasonGeneration + 1 \in Nat
    BY <1>1 DEF Pane
  <2> QED
    BY <1>1, <2>1 DEF Pane
<1> HIDE DEF p
<1>5. MediaOK'
  BY <1>1, <1>3 DEF MediaOK
<1>6. /\ pane' \in Pane /\ pane'.id = pane.id /\ pane'.details = pane.details /\ pane'.season = n
      /\ pane'.seasonGeneration = pane.seasonGeneration + 1 /\ pane'.episodesRequest = "idle"
      /\ pane'.titleGeneration = pane.titleGeneration /\ pane'.pending = pane.pending
      /\ pane'.episodes \in {None, <<pane'.id, pane'.season>>}
      /\ pane'.id # None /\ "episodes" \notin down => (pane'.episodes # None <=> Stored(p))
  BY <1>2, <1>4, <1>5, LoadEpisodesResult DEF SameTitle
<1>7. TypeOK'
  <2>1. [generation |-> pane'.seasonGeneration, id |-> pane'.id, season |-> pane'.season]
          \in [generation : Nat, id : Titles \cup {None}, season : Numbers \cup {None}]
    BY <1>6 DEF Pane
  <2> QED
    BY <1>1, <1>3, <1>6, <2>1 DEF TypeOK
<1>8. Belongs(pane')
  BY <1>1, <1>3, <1>6 DEF Belongs
<1>9. (~behind => ShowsStored(pane, media))'
  BY <1>1, <1>3, <1>4, <1>6 DEF ShowsStored, Stored
<1>10. TimersBehind' /\ SettledHere'
  <2>1. pane'.seasonGeneration > pane.seasonGeneration
    BY <1>1, <1>6 DEF Pane
  <2> QED
    BY <1>1, <1>6, <2>1, TimersFollow DEF SelectSeason
<1>11. Agrees(pane, requests)'
  <2>1. pane'.seasonGeneration > pane.seasonGeneration
    BY <1>1, <1>6 DEF Pane
  <2> QED
    BY <1>1, <1>3, <1>6, <2>1, RequestsLeft
<1> QED
  BY <1>6, <1>7, <1>8, <1>9, <1>10, <1>11 DEF PaneInv

\* What is asked for is always part of what is wanted.
LEMMA ReadableWithin ==
  ASSUME NEW wanted, NEW asked \in Readable(wanted)
  PROVE  asked \subseteq wanted
BY DEF Readable

\* A step that only asks: the flags follow the requests, all else stays.
LEMMA AskInv ==
  ASSUME PaneInv, NEW force, NEW again,
         NEW asked \in SUBSET (WantedDetails(pane, force) \cup WantedEpisodes(pane, again)),
         Send(pane, asked, requests),
         timers' \subseteq timers, token' \in BOOLEAN,
         UNCHANGED <<week, media, page, behind, automatic>>
  PROVE  PaneInv'
<1>1. /\ TypeOK /\ MediaOK /\ pane \in Pane /\ requests \subseteq Request
      /\ Belongs(pane) /\ pane.episodes \in {None, <<pane.id, pane.season>>}
      /\ (~behind => ShowsStored(pane, media))
      /\ SettledHere /\ TimersBehind /\ Agrees(pane, requests)
  BY Parts
<1>2. /\ pane' \in Pane /\ requests' \subseteq Request /\ Agrees(pane', requests')
      /\ pane'.id = pane.id /\ pane'.details = pane.details /\ pane'.season = pane.season
      /\ pane'.episodes = pane.episodes /\ pane'.seasonGeneration = pane.seasonGeneration
  BY <1>1, SendAgrees
<1>3. TypeOK'
  BY <1>1, <1>2 DEF TypeOK
<1>4. Belongs(pane') /\ pane'.episodes \in {None, <<pane'.id, pane'.season>>}
      /\ (~behind' => ShowsStored(pane', media'))
  BY <1>1, <1>2 DEF Belongs, ShowsStored
<1>5. SettledHere' /\ TimersBehind'
  BY <1>1, <1>2 DEF SettledHere, TimersBehind
<1> QED
  BY <1>2, <1>3, <1>4, <1>5 DEF PaneInv

LEMMA PolicyInv ==
  ASSUME PaneInv, NEW force, Policy(pane, force, requests),
         timers' \subseteq timers, token' \in BOOLEAN,
         UNCHANGED <<week, media, page, behind, automatic>>
  PROVE  PaneInv'
<1>1. PICK asked \in Readable(WantedDetails(pane, force) \cup WantedEpisodes(pane, force)) :
        Send(pane, asked, requests)
  BY DEF Policy
<1> QED
  BY <1>1, ReadableWithin, AskInv

\* A settle timer, Refresh, Try again and the announcement of the token.
LEMMA AskingSteps ==
  ASSUME PaneInv,
         \/ \E timer \in timers : TimerFires(timer)
         \/ Refresh \/ RetrySeason \/ TokenChanges
  PROVE  PaneInv'
<1>1. TypeOK
  BY Parts
<1>2. ASSUME NEW timer \in timers, TimerFires(timer)
      PROVE  PaneInv'
  <2>1. timers' \subseteq timers /\ token' \in BOOLEAN
        /\ UNCHANGED <<week, media, token, page, behind, automatic>>
    BY <1>1, <1>2 DEF TimerFires, TypeOK
  <2>2. CASE timer.generation = pane.seasonGeneration
    BY <1>2, <2>1, <2>2, PolicyInv DEF TimerFires
  <2>3. CASE timer.generation # pane.seasonGeneration
    BY <1>2, <2>1, <2>3 DEF TimerFires, PaneInv, TypeOK, SettledHere, TimersBehind
  <2> QED
    BY <2>2, <2>3
<1>3. CASE Refresh
  BY <1>1, <1>3, PolicyInv DEF Refresh, TypeOK
<1>4. CASE RetrySeason
  <2>1. PICK asked \in Readable(WantedEpisodes(pane, TRUE)) : Send(pane, asked, requests)
    BY <1>4 DEF RetrySeason
  <2>2. asked \in SUBSET (WantedDetails(pane, TRUE) \cup WantedEpisodes(pane, TRUE))
    BY <2>1, ReadableWithin
  <2> QED
    BY <1>1, <1>4, <2>1, <2>2, AskInv DEF RetrySeason, TypeOK
<1>5. CASE TokenChanges
  BY <1>1, <1>5, PolicyInv DEF TokenChanges, TypeOK
<1> QED
  BY <1>2, <1>3, <1>4, <1>5
-----------------------------------------------------------------------------
\* What the automatic refresh and the clock do, and turning the page.
LEMMA ElsewhereInv ==
  ASSUME PaneInv,
         \/ \E t \in Titles : AutomaticDetails(t)
         \/ \E t \in Series, n \in Numbers : AutomaticAsks(t, n)
         \/ AutomaticEpisodes \/ TurnPage \/ WeekPasses
  PROVE  PaneInv'
<1>1. TypeOK /\ media \in [Titles -> Details] /\ week \in 0..MaxWeek
      /\ automatic \in (Series \X Numbers) \cup {None}
  BY Parts DEF TypeOK
<1>2. ASSUME NEW t \in Titles, AutomaticDetails(t)
      PROVE  PaneInv'
  <2>1. PICK S \in ListsOf(t) : media' = [media EXCEPT ![t] = SaveDetails(media[t], S)]
    BY <1>2 DEF AutomaticDetails
  <2>2. S \in SUBSET Numbers
    BY DEF ListsOf
  <2>3. SaveDetails(media[t], S) \in Details
    BY <1>1, <2>2, SaveDetailsType
  <2> QED
    BY <1>1, <1>2, <2>1, <2>3, UnseenInv DEF AutomaticDetails
<1>3. CASE AutomaticEpisodes
  <2> DEFINE t == automatic[1]
             n == automatic[2]
  <2>1. t \in Titles /\ n \in Numbers
    BY <1>1, <1>3 DEF AutomaticEpisodes, Titles
  <2>2. CASE UNCHANGED <<media, behind>>
    BY <1>3, <2>2 DEF AutomaticEpisodes, PaneInv, TypeOK, SettledHere, TimersBehind
  <2>3. CASE media' = [media EXCEPT ![t] = SaveEpisodes(media[t], n)] /\ Unseen(t)
    <3>1. SaveEpisodes(media[t], n) \in Details
      BY <1>1, <2>1, SaveEpisodesType
    <3> QED
      BY <1>1, <1>3, <2>1, <2>3, <3>1, UnseenInv DEF AutomaticEpisodes
  <2> QED
    BY <1>3, <2>2, <2>3 DEF AutomaticEpisodes
<1>4. ASSUME NEW t \in Series, NEW n \in Numbers, AutomaticAsks(t, n)
      PROVE  PaneInv'
  BY <1>4 DEF AutomaticAsks, PaneInv, TypeOK, SettledHere, TimersBehind
<1>5. CASE TurnPage
  BY <1>5 DEF TurnPage, PaneInv, TypeOK, SettledHere, TimersBehind
<1>6. CASE WeekPasses
  <2>1. week' \in 0..MaxWeek
    BY <1>1, <1>6, PaneAssumption DEF WeekPasses
  <2> QED
    BY <1>6, <2>1 DEF WeekPasses, PaneInv, TypeOK, SettledHere, TimersBehind
<1> QED
  BY <1>2, <1>3, <1>4, <1>5, <1>6
-----------------------------------------------------------------------------
\* The answer of the current generation takes its flag with it.
LEMMA DetailsAnswered ==
  ASSUME PaneInv, NEW r \in requests, r.kind = "details", Current(r), NEW notice \in BOOLEAN
  PROVE  LET p == [pane EXCEPT !.pending = FALSE, !.notice = notice] IN
         /\ r.id = pane.id /\ pane.details # None
         /\ p \in Pane /\ Agrees(p, requests \ {r})
         /\ p.id = pane.id /\ p.details = pane.details /\ p.season = pane.season
         /\ p.episodes = pane.episodes /\ p.seasonGeneration = pane.seasonGeneration
<1> DEFINE p == [pane EXCEPT !.pending = FALSE, !.notice = notice]
<1>1. pane \in Pane /\ Agrees(pane, requests)
  BY Parts
<1>2. /\ p \in Pane /\ p.pending = FALSE
      /\ p.id = pane.id /\ p.details = pane.details /\ p.season = pane.season
      /\ p.episodes = pane.episodes /\ p.seasonGeneration = pane.seasonGeneration
      /\ p.titleGeneration = pane.titleGeneration /\ p.episodesRequest = pane.episodesRequest
  BY <1>1 DEF Pane
<1>3. r = DetailsRequest(pane) /\ pane.pending
  BY <1>1 DEF Agrees, Current
<1>4. EpisodesRequest(p) = EpisodesRequest(pane) /\ EpisodesRequest(pane) # r
  BY <1>2, <1>3 DEF EpisodesRequest, DetailsRequest
<1> HIDE DEF p
<1>5. Agrees(p, requests \ {r})
  BY <1>1, <1>2, <1>3, <1>4 DEF Agrees
<1>6. r.id = pane.id /\ pane.details # None
  BY <1>1, <1>3 DEF Agrees, DetailsRequest
<1> QED
  BY <1>2, <1>5, <1>6 DEF p

LEMMA EpisodesAnswered ==
  ASSUME PaneInv, NEW r \in requests, r.kind = "episodes", Current(r),
         NEW request \in {"idle", "failed"}
  PROVE  LET p == [pane EXCEPT !.episodesRequest = request] IN
         /\ r.id = pane.id /\ r.season = pane.season /\ pane.details # None
         /\ p \in Pane /\ Agrees(p, requests \ {r})
         /\ p.id = pane.id /\ p.details = pane.details /\ p.season = pane.season
         /\ p.episodes = pane.episodes /\ p.seasonGeneration = pane.seasonGeneration
<1> DEFINE p == [pane EXCEPT !.episodesRequest = request]
<1>1. pane \in Pane /\ Agrees(pane, requests)
  BY Parts
<1>2. /\ p \in Pane /\ p.episodesRequest = request
      /\ p.id = pane.id /\ p.details = pane.details /\ p.season = pane.season
      /\ p.episodes = pane.episodes /\ p.seasonGeneration = pane.seasonGeneration
      /\ p.titleGeneration = pane.titleGeneration /\ p.pending = pane.pending
  BY <1>1 DEF Pane
<1>3. r = EpisodesRequest(pane) /\ pane.episodesRequest = "loading"
  BY <1>1 DEF Agrees, Current
<1>4. DetailsRequest(p) = DetailsRequest(pane) /\ DetailsRequest(pane) # r
  BY <1>2, <1>3 DEF EpisodesRequest, DetailsRequest
<1> HIDE DEF p
<1>5. Agrees(p, requests \ {r})
  BY <1>1, <1>2, <1>3, <1>4 DEF Agrees
<1>6. r.id = pane.id /\ r.season = pane.season /\ pane.details # None
  BY <1>1, <1>3 DEF Agrees, EpisodesRequest
<1> QED
  BY <1>2, <1>5, <1>6 DEF p

\* A load that moves the season leaves the season's requests behind.
LEMMA LoadAgrees ==
  ASSUME NEW p \in Pane, NEW open \in SUBSET Request, Agrees(p, open), NEW down, MediaOK',
         p.details # None => p.id # None, p.id = None => p.season = None
  PROVE  Agrees(Load(p, down), open)
<1> DEFINE q == Load(p, down)
<1>1. /\ q \in Pane /\ SameTitle(p, q)
      /\ q.details = IF p.id = None \/ "title" \in down THEN p.details ELSE media'[p.id]
      /\ \/ q.season = p.season /\ q.seasonGeneration = p.seasonGeneration
            /\ q.episodesRequest = p.episodesRequest
         \/ q.seasonGeneration = p.seasonGeneration + 1 /\ q.episodesRequest = "idle"
  BY LoadResult
<1> HIDE DEF q
<1>2. DetailsRequest(q) = DetailsRequest(p) /\ q.titleGeneration = p.titleGeneration
      /\ q.pending = p.pending
  BY <1>1 DEF SameTitle, DetailsRequest
<1>3. p.details # None => q.details # None
  BY <1>1, PaneAssumption DEF MediaOK, Pane
<1>4. CASE /\ q.season = p.season /\ q.seasonGeneration = p.seasonGeneration
           /\ q.episodesRequest = p.episodesRequest
  <2>1. EpisodesRequest(q) = EpisodesRequest(p)
    BY <1>1, <1>4 DEF SameTitle, EpisodesRequest
  <2> QED
    BY <1>2, <1>3, <1>4, <2>1 DEF Agrees, q
<1>5. CASE q.seasonGeneration = p.seasonGeneration + 1 /\ q.episodesRequest = "idle"
  <2>1. ASSUME NEW r \in open, r.kind = "episodes"
        PROVE  r.generation < q.seasonGeneration /\ r.season # None /\ r.generation \in Nat
    BY <1>5, <2>1 DEF Agrees, Request, Pane
  <2>2. q.seasonGeneration \in Nat
    BY <1>1 DEF Pane
  <2> QED
    BY <1>2, <1>3, <1>5, <2>1, <2>2 DEF Agrees, q
<1> QED
  BY <1>1, <1>4, <1>5

\* A step that loads the pane after an answer and asks for the season that is
\* then shown, if for any.
LEMMA ReadAgainInv ==
  ASSUME PaneInv, NEW p \in Pane, NEW open \in SUBSET requests, Agrees(p, open), MediaOK',
         p.id = pane.id, p.details = pane.details, p.season = pane.season,
         p.seasonGeneration = pane.seasonGeneration,
         NEW down \in SUBSET Failing,
         NEW asked \in SUBSET WantedEpisodes(Load(p, down), FALSE),
         Send(Load(p, down), asked, open),
         UNCHANGED <<week, token, page, timers, automatic>>, behind' \in BOOLEAN,
         ~behind' => "title" \notin down \/ p.details = media'[p.id]
  PROVE  PaneInv'
<1> DEFINE q == Load(p, down)
<1>1. /\ TypeOK /\ requests \subseteq Request /\ SettledHere /\ TimersBehind
      /\ (p.details # None => p.id # None) /\ (p.id = None => p.season = None)
  BY Parts
<1>2. /\ q \in Pane /\ Belongs(q) /\ q.episodes \in {None, <<q.id, q.season>>}
      /\ SameTitle(p, q)
      /\ \/ q.season = p.season /\ q.seasonGeneration = p.seasonGeneration
         \/ q.seasonGeneration = p.seasonGeneration + 1
  BY <1>1, LoadResult
<1>3. Agrees(q, open)
  BY <1>1, LoadAgrees
<1>4. ~behind' => ShowsStored(q, media')
  BY <1>1, LoadShowsStored
<1>5. asked \in SUBSET (WantedDetails(q, FALSE) \cup WantedEpisodes(q, FALSE))
      /\ Send(q, asked, open) /\ open \in SUBSET Request
  BY <1>1
<1> HIDE DEF q
<1>6. /\ pane' \in Pane /\ requests' \subseteq Request /\ Agrees(pane', requests')
      /\ pane'.id = q.id /\ pane'.details = q.details /\ pane'.season = q.season
      /\ pane'.episodes = q.episodes /\ pane'.seasonGeneration = q.seasonGeneration
  BY <1>2, <1>3, <1>5, SendAgrees
<1>7. TypeOK'
  BY <1>1, <1>6 DEF TypeOK, MediaOK
<1>8. Belongs(pane') /\ pane'.episodes \in {None, <<pane'.id, pane'.season>>}
      /\ (~behind' => ShowsStored(pane', media'))
  BY <1>2, <1>4, <1>6 DEF Belongs, ShowsStored
<1>9. SettledHere' /\ TimersBehind'
  <2>1. ASSUME NEW timer \in timers
        PROVE  /\ timer.generation <= pane'.seasonGeneration
               /\ timer.generation = pane'.seasonGeneration =>
                    timer.id = pane'.id /\ timer.season = pane'.season
    <3>1. /\ timer.generation \in Nat /\ pane.seasonGeneration \in Nat
          /\ timer.generation <= pane.seasonGeneration
      BY <1>1 DEF TypeOK, TimersBehind, Pane
    <3>2. CASE q.season = p.season /\ q.seasonGeneration = p.seasonGeneration
      BY <1>1, <1>2, <1>6, <3>1, <3>2 DEF SettledHere, SameTitle
    <3>3. CASE q.seasonGeneration = p.seasonGeneration + 1
      BY <1>6, <3>1, <3>3
    <3> QED
      BY <1>2, <3>2, <3>3
  <2> QED
    BY <2>1 DEF SettledHere, TimersBehind
<1> QED
  BY <1>6, <1>7, <1>8, <1>9 DEF PaneInv

LEMMA DetailsArrivedInv ==
  ASSUME PaneInv, NEW r \in requests, DetailsArrived(r)
  PROVE  PaneInv'
<1>1. /\ TypeOK /\ requests \subseteq Request /\ media \in [Titles -> Details] /\ pane \in Pane
      /\ Belongs(pane) /\ pane.episodes \in {None, <<pane.id, pane.season>>}
      /\ (~behind => ShowsStored(pane, media))
      /\ SettledHere /\ TimersBehind /\ Agrees(pane, requests)
  BY Parts DEF MediaOK
<1>2. r.kind = "details" /\ r.id \in Titles
      /\ UNCHANGED <<week, token, page, timers, automatic>>
  BY <1>1 DEF DetailsArrived, Request
<1>3. Current(r) <=> r.generation = pane.titleGeneration
  BY <1>2 DEF Current
<1>4. ASSUME NEW S \in ListsOf(r.id), NEW down \in SUBSET Failing,
             media' = [media EXCEPT ![r.id] = SaveDetails(media[r.id], S)],
             IF r.generation # pane.titleGeneration
             THEN pane' = pane /\ requests' = requests \ {r} /\ Unseen(r.id)
             ELSE LET p == Load([pane EXCEPT !.pending = FALSE, !.notice = FALSE], down) IN
                  /\ behind' = ("title" \in down)
                  /\ \E asked \in Readable(WantedEpisodes(p, FALSE)) :
                       Send(p, asked, requests \ {r})
      PROVE  PaneInv'
  <2>1. S \in SUBSET Numbers
    BY DEF ListsOf
  <2>2. SaveDetails(media[r.id], S) \in Details
    BY <1>1, <1>2, <2>1, SaveDetailsType DEF TypeOK
  <2>3. CASE ~ Current(r)
    BY <1>1, <1>2, <1>3, <1>4, <2>2, <2>3, UnseenInv DEF TypeOK
  <2>4. CASE Current(r)
    <3> DEFINE p == [pane EXCEPT !.pending = FALSE, !.notice = FALSE]
    <3>1. /\ r.id = pane.id /\ pane.details # None
          /\ p \in Pane /\ Agrees(p, requests \ {r})
          /\ p.id = pane.id /\ p.details = pane.details /\ p.season = pane.season
          /\ p.seasonGeneration = pane.seasonGeneration
      BY <1>2, <2>4, DetailsAnswered
    <3> HIDE DEF p
    <3>2. behind' = ("title" \in down)
      BY <1>3, <1>4, <2>4
    <3>3. PICK asked \in Readable(WantedEpisodes(Load(p, down), FALSE)) :
            Send(Load(p, down), asked, requests \ {r})
      BY <1>3, <1>4, <2>4 DEF p
    <3>4. asked \in SUBSET WantedEpisodes(Load(p, down), FALSE)
      BY <3>3, ReadableWithin
    <3>5. MediaOK'
      BY <1>1, <1>4, <2>2 DEF MediaOK
    <3>6. behind' \in BOOLEAN
      BY <3>2
    <3>7. ~behind' => "title" \notin down
      BY <3>2, Zenon
    <3> QED
      BY <1>2, <3>1, <3>3, <3>4, <3>5, <3>6, <3>7, ReadAgainInv
  <2> QED
    BY <2>3, <2>4
<1>5. ASSUME UNCHANGED <<media, behind>>, requests' = requests \ {r},
             pane' = IF r.generation # pane.titleGeneration THEN pane
                     ELSE [pane EXCEPT !.pending = FALSE, !.notice = TRUE]
      PROVE  PaneInv'
  <2>1. CASE ~ Current(r)
    <3>1. Agrees(pane, requests')
      BY <1>1, <1>5, <2>1 DEF Agrees, Current, DetailsRequest, EpisodesRequest
    <3> QED
      BY <1>1, <1>2, <1>3, <1>5, <2>1, <3>1 DEF PaneInv, TypeOK, SettledHere, TimersBehind
  <2>2. CASE Current(r)
    <3>1. pane' = [pane EXCEPT !.pending = FALSE, !.notice = TRUE]
      BY <1>3, <1>5, <2>2
    <3>2. /\ pane' \in Pane /\ Agrees(pane', requests')
          /\ pane'.id = pane.id /\ pane'.details = pane.details /\ pane'.season = pane.season
          /\ pane'.episodes = pane.episodes /\ pane'.seasonGeneration = pane.seasonGeneration
      BY <1>2, <1>5, <2>2, <3>1, DetailsAnswered
    <3>3. TypeOK'
      BY <1>1, <1>2, <1>5, <3>2 DEF TypeOK
    <3>4. Belongs(pane') /\ pane'.episodes \in {None, <<pane'.id, pane'.season>>}
          /\ (~behind' => ShowsStored(pane', media'))
      BY <1>1, <1>5, <3>2 DEF Belongs, ShowsStored
    <3>5. SettledHere' /\ TimersBehind'
      BY <1>1, <1>2, <3>2 DEF SettledHere, TimersBehind
    <3> QED
      BY <3>2, <3>3, <3>4, <3>5 DEF PaneInv
  <2> QED
    BY <2>1, <2>2
<1> QED
  BY <1>4, <1>5 DEF DetailsArrived

LEMMA EpisodesArrivedInv ==
  ASSUME PaneInv, NEW r \in requests, EpisodesArrived(r)
  PROVE  PaneInv'
<1>1. /\ TypeOK /\ requests \subseteq Request /\ media \in [Titles -> Details] /\ pane \in Pane
      /\ Belongs(pane) /\ pane.episodes \in {None, <<pane.id, pane.season>>}
      /\ (~behind => ShowsStored(pane, media))
      /\ SettledHere /\ TimersBehind /\ Agrees(pane, requests)
  BY Parts DEF MediaOK
<1>2. r.kind = "episodes" /\ r.id \in Titles /\ requests' = requests \ {r}
      /\ UNCHANGED <<week, token, page, timers, automatic>>
  BY <1>1 DEF EpisodesArrived, Request
<1>3. Current(r) <=> r.generation = pane.seasonGeneration
  BY <1>2 DEF Current
<1>4. r.season \in Numbers
  BY <1>1, <1>2 DEF Agrees, Request
<1>5. PICK saved \in BOOLEAN, down \in SUBSET Failing :
        /\ media' = IF saved THEN [media EXCEPT ![r.id] = SaveEpisodes(media[r.id], r.season)] ELSE media
        /\ IF r.generation # pane.seasonGeneration
           THEN /\ pane' = pane
                /\ IF saved THEN Unseen(r.id) ELSE UNCHANGED behind
           ELSE LET request == IF saved THEN "idle" ELSE "failed" IN
                /\ pane' = Load([pane EXCEPT !.episodesRequest = request], down)
                /\ behind' = IF "title" \in down THEN behind \/ saved ELSE FALSE
  BY DEF EpisodesArrived
<1>6. SaveEpisodes(media[r.id], r.season) \in Details
  BY <1>1, <1>2, <1>4, SaveEpisodesType DEF TypeOK
<1>7. CASE ~ Current(r)
  <2>1. CASE saved
    BY <1>1, <1>2, <1>3, <1>5, <1>6, <1>7, <2>1, UnseenInv DEF TypeOK
  <2>2. CASE ~saved
    <3>1. Agrees(pane, requests')
      BY <1>1, <1>2, <1>7 DEF Agrees, Current, DetailsRequest, EpisodesRequest
    <3> QED
      BY <1>1, <1>2, <1>3, <1>5, <1>7, <2>2, <3>1 DEF PaneInv, TypeOK, SettledHere, TimersBehind
  <2> QED
    BY <2>1, <2>2
<1>8. CASE Current(r)
  <2> DEFINE request == IF saved THEN "idle" ELSE "failed"
             p == [pane EXCEPT !.episodesRequest = request]
             q == Load(p, down)
  <2>1. request \in {"idle", "failed"}
    OBVIOUS
  <2>2. pane' = q /\ behind' = IF "title" \in down THEN behind \/ saved ELSE FALSE
    BY <1>3, <1>5, <1>8
  <2> HIDE DEF request
  <2>3. /\ r.id = pane.id /\ pane.details # None
        /\ p \in Pane /\ Agrees(p, requests \ {r})
        /\ p.id = pane.id /\ p.details = pane.details /\ p.season = pane.season
        /\ p.seasonGeneration = pane.seasonGeneration
    BY <1>2, <1>8, <2>1, EpisodesAnswered
  <2> HIDE DEF p
  <2>4. MediaOK'
    BY <1>1, <1>5, <1>6 DEF MediaOK
  <2>5. q \in Pane
    BY <2>3, <2>4, LoadResult, Parts
  <2>6. Send(q, {}, requests \ {r})
    <3> HIDE DEF q
    <3>1. q = [q EXCEPT !.pending = q.pending \/ FALSE, !.episodesRequest = q.episodesRequest]
      BY <2>5 DEF Pane
    <3> QED
      BY <1>2, <2>2, <3>1 DEF Send
  <2>7. behind' \in BOOLEAN /\ (~behind' => "title" \notin down \/ p.details = media'[p.id])
    <3>1. pane.id # None
      BY <1>1, <2>3 DEF Belongs
    <3>2. ~behind => pane.details = media[pane.id]
      BY <1>1, <3>1 DEF ShowsStored
    <3> QED
      BY <1>1, <1>5, <2>2, <2>3, <3>2 DEF TypeOK
  <2>8. {} \in SUBSET WantedEpisodes(q, FALSE) /\ requests \ {r} \in SUBSET requests
    OBVIOUS
  <2> QED
    BY <1>2, <2>3, <2>4, <2>6, <2>7, <2>8, ReadAgainInv
<1> QED
  BY <1>7, <1>8
-----------------------------------------------------------------------------
\* The pane starts closed.
LEMMA InitInv == Init => PaneInv
<1> SUFFICES ASSUME Init PROVE PaneInv
  OBVIOUS
<1>1. pane \in Pane /\ pane.id = None /\ pane.details = None /\ pane.season = None
      /\ pane.episodes = None /\ pane.pending = FALSE /\ pane.episodesRequest = "idle"
  BY DEF Init, Closed, Pane
<1>2. media \in [Titles -> Details]
  <2>1. {None, 0} \subseteq Time
    BY PaneAssumption DEF Time
  <2>2. {[s \in S |-> None] : S \in SUBSET Numbers} \subseteq Lists
    BY DEF Lists, Time
  <2> QED
    BY <2>1, <2>2 DEF Init, Details
<1>3. TypeOK
  <2>1. week \in 0..MaxWeek
    BY PaneAssumption DEF Init
  <2>2. page \in BOOLEAN /\ token \in BOOLEAN /\ behind \in BOOLEAN
    BY Zenon DEF Init
  <2>3. timers = {} /\ requests = {} /\ automatic = None
    BY DEF Init
  <2> QED
    BY <1>1, <1>2, <2>1, <2>2, <2>3 DEF TypeOK
<1> QED
  BY <1>1, <1>3 DEF Init, PaneInv, Belongs, SeasonsOf, ShowsStored, SettledHere, TimersBehind, Agrees

\* Every handler keeps the invariant, for any titles, seasons and failing reads,
\* however many timers and requests are under way.
THEOREM PaneInductive == Spec => []PaneInv
<1>1. PaneInv /\ [Next]_vars => PaneInv'
  <2> SUFFICES ASSUME PaneInv, [Next]_vars PROVE PaneInv'
    OBVIOUS
  <2>1. CASE UNCHANGED vars
    BY <2>1 DEF vars, PaneInv, TypeOK, SettledHere, TimersBehind
  <2>2. CASE Next
    BY <2>2, SelectInv, SelectSeasonInv, AskingSteps, DetailsArrivedInv, EpisodesArrivedInv,
       ElsewhereInv DEF Next, Answered
  <2> QED
    BY <2>1, <2>2
<1> QED
  BY InitInv, <1>1, PTL DEF Spec

\* The refreshing indicator is on exactly while an answer for what is shown is
\* under way.
THEOREM IndicatorIsTrue == Spec => []RefreshingIsTrue
BY PaneInductive, InvIsTrue, PTL

\* Title, season and episodes on screen belong together and are what is stored,
\* but for what the pane was not told of or could not read.
THEOREM PaneStaysSound == Spec => []PaneIsSound
BY PaneInductive, InvIsSound, PTL
-----------------------------------------------------------------------------
\* A save keeps the fetch times of the seasons that stay.
KeepsCoverage(d, e) ==
  \A n \in DOMAIN d.seasons \cap DOMAIN e.seasons : d.seasons[n] # None => e.seasons[n] # None

LEMMA SavesKeep ==
  ASSUME NEW d \in Details, week \in 0..MaxWeek
  PROVE  /\ \A S \in SUBSET Numbers : KeepsCoverage(d, SaveDetails(d, S))
         /\ \A n \in Numbers : KeepsCoverage(d, SaveEpisodes(d, n))
<1>1. week # None
  BY PaneAssumption
<1>2. ASSUME NEW S \in SUBSET Numbers
      PROVE  KeepsCoverage(d, SaveDetails(d, S))
  BY DEF KeepsCoverage, SaveDetails
<1>3. ASSUME NEW n \in Numbers
      PROVE  KeepsCoverage(d, SaveEpisodes(d, n))
  BY <1>1 DEF KeepsCoverage, SaveEpisodes, Details
<1> QED
  BY <1>2, <1>3

\* No answer, early or late, the pane's or the automatic one, forgets that a
\* season's episodes were fetched.
THEOREM CoverageIsKept == Spec => CoverageStays
<1> DEFINE keeps == \A t \in Titles : \A n \in DOMAIN media[t].seasons \cap DOMAIN media'[t].seasons :
                      media[t].seasons[n] # None => media'[t].seasons[n] # None
<1>1. PaneInv /\ [Next]_vars => [keeps]_vars
  <2> SUFFICES ASSUME PaneInv, Next PROVE keeps
    OBVIOUS
  <2>1. media \in [Titles -> Details] /\ week \in 0..MaxWeek /\ requests \subseteq Request
        /\ Agrees(pane, requests) /\ automatic \in (Series \X Numbers) \cup {None}
    BY Parts DEF TypeOK
  <2>2. ASSUME NEW t \in Titles, NEW d, media' = [media EXCEPT ![t] = d], KeepsCoverage(media[t], d)
        PROVE  keeps
    BY <2>1, <2>2 DEF KeepsCoverage
  <2>3. CASE media' = media
    BY <2>3
  <2>4. ASSUME NEW r \in requests, Answered(r)
        PROVE  keeps
    <3>1. r.id \in Titles /\ (r.kind = "episodes" => r.season \in Numbers)
      BY <2>1 DEF Request, Agrees
    <3>2. CASE DetailsArrived(r)
      <4>1. CASE UNCHANGED media
        BY <4>1, <2>3
      <4>2. CASE \E S \in ListsOf(r.id) : media' = [media EXCEPT ![r.id] = SaveDetails(media[r.id], S)]
        <5>1. PICK S \in ListsOf(r.id) : media' = [media EXCEPT ![r.id] = SaveDetails(media[r.id], S)]
          BY <4>2
        <5>2. S \in SUBSET Numbers
          BY DEF ListsOf
        <5> QED
          BY <2>1, <2>2, <3>1, <5>1, <5>2, SavesKeep
      <4> QED
        BY <3>2, <4>1, <4>2 DEF DetailsArrived
    <3>3. CASE EpisodesArrived(r)
      <4>1. r.season \in Numbers
        BY <3>1, <3>3 DEF EpisodesArrived
      <4>2. \/ media' = media
            \/ media' = [media EXCEPT ![r.id] = SaveEpisodes(media[r.id], r.season)]
        BY <3>3 DEF EpisodesArrived
      <4> QED
        BY <2>1, <2>2, <2>3, <3>1, <4>1, <4>2, SavesKeep
    <3> QED
      BY <2>4, <3>2, <3>3 DEF Answered
  <2>5. ASSUME NEW t \in Titles, AutomaticDetails(t)
        PROVE  keeps
    <3>1. PICK S \in ListsOf(t) : media' = [media EXCEPT ![t] = SaveDetails(media[t], S)]
      BY <2>5 DEF AutomaticDetails
    <3>2. S \in SUBSET Numbers
      BY DEF ListsOf
    <3> QED
      BY <2>1, <2>2, <3>1, <3>2, SavesKeep
  <2>6. CASE AutomaticEpisodes
    <3>1. automatic[1] \in Titles /\ automatic[2] \in Numbers
      BY <2>1, <2>6 DEF AutomaticEpisodes, Titles
    <3>2. \/ media' = media
          \/ media' = [media EXCEPT ![automatic[1]] = SaveEpisodes(media[automatic[1]], automatic[2])]
      BY <2>6 DEF AutomaticEpisodes
    <3> QED
      BY <2>1, <2>2, <2>3, <3>1, <3>2, SavesKeep
  <2> HIDE DEF keeps
  <2> QED
    BY <2>3, <2>4, <2>5, <2>6 DEF Next, Select, SelectSeason, TimerFires, Refresh, RetrySeason,
       TokenChanges, AutomaticAsks, TurnPage, WeekPasses
<1> QED
  BY PaneInductive, <1>1, PTL DEF Spec, CoverageStays
-----------------------------------------------------------------------------

Stages == {"idle", "queued", "download", "decoded", "writing", "written"} \cup Outcomes

\* The variables the properties below read have their types.
LoadTypes ==
  /\ now \in Nat /\ inFlight \subseteq Keys
  /\ failed \in [Keys -> {NoFailure, Never} \cup Nat]
  /\ last \in [Keys -> {NoFailure, Never} \cup Nat]
  /\ load \in [Keys -> Stages]
  /\ disk \in [Keys -> {"absent", "whole", "partial", "damaged"}]

\* TMDB may be asked for the poster again.
Expired(k) == last[k] = NoFailure \/ (last[k] \in Nat /\ now >= last[k] + RetryAfter)

\* `failed` keeps the poster from being asked for too early.
HeldBack(k) ==
  \/ failed[k] = Never
  \/ last[k] \in Nat /\ failed[k] \in Nat /\ failed[k] >= last[k] + RetryAfter

\* What a load's stage says of the service's maps, and of TMDB's last answer.
LoadInv(k) ==
  /\ load[k] # "idle" => k \in inFlight
  /\ load[k] = "idle" => Expired(k) \/ HeldBack(k)
  /\ load[k] \notin {"idle", "transient", "permanent"} => Expired(k)
  /\ load[k] = "transient" => last[k] \in Nat /\ last[k] <= now

PostersInv ==
  /\ LoadTypes /\ FilesAreWhole
  /\ \A k \in Keys : LoadInv(k)
-----------------------------------------------------------------------------
LEMMA PostersStart == PostersInit => PostersInv
  BY PostersAssumption
  DEF PostersInit, PostersInv, LoadTypes, FilesAreWhole, LoadInv, Expired, HeldBack, AllKeys, Stages, Outcomes

\* A worker's step moves one load, and TMDB's answer with it.
LEMMA WorksKeeps ==
  ASSUME PostersInv, NEW k \in Keys, Works(k)
  PROVE  PostersInv'
<1> USE PostersAssumption DEF PostersInv, LoadTypes, Stages, Outcomes, Step, service
<1>1. CASE ReadDisk(k)
  BY <1>1 DEF ReadDisk, FilesAreWhole, LoadInv, Expired, HeldBack
<1>2. CASE ReadFails(k)
  BY <1>2 DEF ReadFails, FilesAreWhole, LoadInv, Expired, HeldBack
<1>3. CASE Download(k)
  <2>1. PICK result \in Outcomes :
          /\ load' = [load EXCEPT ![k] = IF result = "loaded" THEN "decoded" ELSE result]
          /\ last' = [last EXCEPT ![k] = CASE result = "loaded" -> NoFailure
                                           [] result = "permanent" -> Never
                                           [] result = "transient" -> now]
    BY <1>3 DEF Download
  <2>2. /\ UNCHANGED <<now, inFlight, failed, disk>> /\ load[k] = "download"
    BY <1>3 DEF Download
  <2>3. LoadTypes' /\ FilesAreWhole'
    BY <2>1, <2>2 DEF FilesAreWhole
  <2>4. \A j \in Keys \ {k} : LoadInv(j)'
    BY <2>1, <2>2 DEF LoadInv, Expired, HeldBack
  <2>5. LoadInv(k)'
    <3>1. CASE result = "loaded"
      BY <3>1, <2>1, <2>2 DEF LoadInv, Expired, HeldBack
    <3>2. CASE result = "permanent"
      BY <3>2, <2>1, <2>2 DEF LoadInv, Expired, HeldBack
    <3>3. CASE result = "transient"
      BY <3>3, <2>1, <2>2 DEF LoadInv, Expired, HeldBack
    <3> QED
      BY <2>1, <3>1, <3>2, <3>3
  <2> QED
    BY <2>3, <2>4, <2>5
<1>4. CASE CreateTemp(k) \/ SyncTemp(k) \/ WriteFails(k)
  BY <1>4 DEF CreateTemp, SyncTemp, WriteFails, FilesAreWhole, LoadInv, Expired, HeldBack
<1>5. CASE Rename(k)
  BY <1>5 DEF Rename, Temp, FilesAreWhole, LoadInv, Expired, HeldBack
<1> QED
  BY <1>1, <1>2, <1>3, <1>4, <1>5 DEF Works

\* `Posters::image` starts a load only for a poster that may be asked for.
LEMMA ImageKeeps ==
  ASSUME PostersInv, NEW k \in Keys, Image(k)
  PROVE  PostersInv'
<1> USE PostersAssumption DEF PostersInv, LoadTypes, Stages, Outcomes
<1>1. UNCHANGED <<now, failed, disk, last>>
  BY DEF Image
<1>2. CASE UNCHANGED <<inFlight, load>>
  BY <1>1, <1>2 DEF FilesAreWhole, LoadInv, Expired, HeldBack
<1>3. CASE /\ ~Blocked(k) /\ inFlight' = inFlight \cup {k}
           /\ load' = [load EXCEPT ![k] = "queued"]
  <2>1. load[k] = "idle" /\ Expired(k)
    BY <1>3 DEF Blocked, LoadInv, Expired, HeldBack
  <2>2. Expired(k)'
    BY <1>1, <2>1 DEF Expired
  <2>3. LoadTypes' /\ FilesAreWhole'
    BY <1>1, <1>3 DEF FilesAreWhole
  <2>4. LoadInv(k)'
    BY <1>3, <2>2 DEF LoadInv
  <2>5. \A j \in Keys \ {k} : LoadInv(j)'
    BY <1>1, <1>3 DEF LoadInv, Expired, HeldBack
  <2> QED
    BY <2>3, <2>4, <2>5
<1> QED
  BY <1>2, <1>3 DEF Image, Step

\* `Posters::arrived` writes down a failure before the key may be asked for.
LEMMA ArrivedKeeps ==
  ASSUME PostersInv, NEW k \in Keys, Arrived(k)
  PROVE  PostersInv'
<1> USE PostersAssumption DEF PostersInv, LoadTypes, Stages, Outcomes
<1>1. /\ UNCHANGED <<now, disk, last>> /\ load[k] \in Outcomes
      /\ load' = [load EXCEPT ![k] = "idle"] /\ inFlight' = inFlight \ {k}
  BY DEF Arrived, Step
<1>2. failed' = [failed EXCEPT ![k] = IF load[k] = "loaded" THEN NoFailure
                                      ELSE IF load[k] = "permanent" THEN Never ELSE now + RetryAfter]
  BY DEF Arrived
<1>3. LoadTypes' /\ FilesAreWhole'
  BY <1>1, <1>2 DEF FilesAreWhole
<1>4. \A j \in Keys \ {k} : LoadInv(j)'
  BY <1>1, <1>2 DEF LoadInv, Expired, HeldBack
<1>5. LoadInv(k)'
  <2>1. CASE load[k] = "loaded"
    BY <1>1, <1>2, <2>1 DEF LoadInv, Expired, HeldBack
  <2>2. CASE load[k] = "permanent"
    BY <1>1, <1>2, <2>2 DEF LoadInv, Expired, HeldBack
  <2>3. CASE load[k] = "transient"
    BY <1>1, <1>2, <2>3 DEF LoadInv, Expired, HeldBack
  <2> QED
    BY <1>1, <2>1, <2>2, <2>3
<1> QED
  BY <1>3, <1>4, <1>5

\* What happens around the loads: starting, ending, cleaning, time, damage.
LEMMA RestKeeps ==
  ASSUME PostersInv, Launch \/ Exit \/ CleanUnused \/ Tick \/ \E k \in Keys : Damage(k)
  PROVE  PostersInv'
<1> USE PostersAssumption DEF PostersInv, LoadTypes, Stages, Outcomes, service
<1>1. CASE Launch
  BY <1>1 DEF Launch, FilesAreWhole, LoadInv, Expired, HeldBack
<1>2. CASE Exit
  BY <1>2 DEF Exit, AllKeys, FilesAreWhole, LoadInv, Expired, HeldBack
<1>3. CASE CleanUnused
  BY <1>3 DEF CleanUnused, FilesAreWhole, LoadInv, Expired, HeldBack
<1>4. CASE Tick
  BY <1>4 DEF Tick, FilesAreWhole, LoadInv, Expired, HeldBack
<1>5. CASE \E k \in Keys : Damage(k)
  BY <1>5 DEF Damage, FilesAreWhole, LoadInv, Expired, HeldBack
<1> QED
  BY <1>1, <1>2, <1>3, <1>4, <1>5

LEMMA NextKeeps == PostersInv /\ [PostersNext]_posterVars => PostersInv'
<1> SUFFICES ASSUME PostersInv, [PostersNext]_posterVars PROVE PostersInv'
  OBVIOUS
<1>1. CASE UNCHANGED posterVars
  BY <1>1 DEF posterVars, service, PostersInv, LoadTypes, FilesAreWhole, LoadInv, Expired, HeldBack
<1> QED
  BY <1>1, WorksKeeps, ImageKeeps, ArrivedKeeps, RestKeeps DEF PostersNext

LEMMA PostersInductive == PostersSpec => []PostersInv
  BY PostersStart, NextKeeps, PTL DEF PostersSpec

\* No file with a final name is ever half-written, wherever a process died and
\* however many posters are written at a time: `DiskCache::write` renames only
\* what was written to its end.
THEOREM OnlyWholeFiles == PostersSpec => []FilesAreWhole
<1>1. PostersInv => FilesAreWhole
  BY DEF PostersInv
<1> QED
  BY <1>1, PostersInductive, PTL
-----------------------------------------------------------------------------
\* A step takes no load back to its start, and asks TMDB only in time.
LEMMA StepIsSparing ==
  ASSUME PostersInv, [PostersNext]_posterVars, NEW k \in Keys
  PROVE  /\ load[k] # "idle" => load'[k] # "queued" \/ load[k] = "queued"
         /\ load[k] # "download" /\ load'[k] = "download" => Expired(k)
<1> USE DEF PostersInv, LoadTypes, Step
<1>1. CASE \E j \in Keys : Image(j)
  <2>1. PICK j \in Keys : Image(j)
    BY <1>1
  <2>2. \/ load' = load
        \/ load' = [load EXCEPT ![j] = "queued"] /\ load[j] = "idle"
    BY <2>1 DEF Image, Blocked, LoadInv
  <2> QED
    BY <2>2
<1>2. CASE \E j \in Keys : Works(j)
  <2>1. PICK j \in Keys : Works(j)
    BY <1>2
  <2>2. CASE j # k
    <3>1. load'[k] = load[k]
      BY <2>1, <2>2 DEF Works, ReadDisk, ReadFails, Download, CreateTemp, SyncTemp, Rename, WriteFails
    <3> QED
      BY <3>1
  <2>3. CASE j = k
    <3>1. load'[k] # "queued"
      BY <2>1, <2>3 DEF Works, ReadDisk, ReadFails, Download, CreateTemp, SyncTemp, Rename, WriteFails, Outcomes
    <3>2. load'[k] = "download" => load[k] = "queued"
      BY <2>1, <2>3 DEF Works, ReadDisk, ReadFails, Download, CreateTemp, SyncTemp, Rename, WriteFails, Outcomes
    <3> QED
      BY <3>1, <3>2 DEF LoadInv
  <2> QED
    BY <2>2, <2>3
<1>3. CASE (\E j \in Keys : Arrived(j)) \/ Exit
  BY <1>3 DEF Arrived, Exit, AllKeys
<1>4. CASE Launch \/ CleanUnused \/ Tick \/ (\E j \in Keys : Damage(j)) \/ UNCHANGED posterVars
  BY <1>4 DEF Launch, CleanUnused, Tick, Damage, posterVars
<1> QED
  BY <1>1, <1>2, <1>3, <1>4 DEF PostersNext

\* One worker at a time for each poster, and TMDB is left alone for RETRY_AFTER
\* after it failed to give one and for the session after a definite failure:
\* `in_flight` and `failed` suffice for that, also when a load ends on the disk's
\* copy. Failed disk writes are not among these failures.
THEOREM AsksSparingly == PostersSpec => AskedSparingly
<1>1. PostersInv /\ [PostersNext]_posterVars =>
        [\A k \in Keys :
          /\ load[k] # "idle" => load'[k] # "queued" \/ load[k] = "queued"
          /\ load[k] # "download" /\ load'[k] = "download" =>
               last[k] = NoFailure \/ (last[k] \in Nat /\ now >= last[k] + RetryAfter)]_posterVars
  BY StepIsSparing DEF Expired
<1> QED
  BY <1>1, PostersInductive, PTL DEF PostersSpec, AskedSparingly
-----------------------------------------------------------------------------
\* The sums that `Bytes` takes, up to the entry n.
Totals(entries, n, f) ==
  f = [i \in 0..n |-> IF i = 0 THEN 0 ELSE f[i - 1] + Size[entries[i]]]

LEMMA TotalsExist ==
  ASSUME NEW entries, NEW N \in Nat
  PROVE  \E f : Totals(entries, N, f)
<1> DEFINE P == {n \in Nat : \E f : Totals(entries, n, f)}
<1>1. 0 \in P
  <2>1. Totals(entries, 0, [i \in 0..0 |-> 0])
    BY DEF Totals
  <2> QED
    BY <2>1
<1>2. ASSUME NEW n \in Nat, n \in P
      PROVE  n + 1 \in P
  <2>1. PICK f : Totals(entries, n, f)
    BY <1>2
  <2> DEFINE g == [i \in 0..(n + 1) |-> IF i = n + 1 THEN f[n] + Size[entries[n + 1]] ELSE f[i]]
  <2>2. Totals(entries, n + 1, g)
    <3>1. \A i \in 0..n : g[i] = f[i]
      OBVIOUS
    <3>2. ASSUME NEW i \in 0..(n + 1)
          PROVE  g[i] = IF i = 0 THEN 0 ELSE g[i - 1] + Size[entries[i]]
      <4>1. CASE i = n + 1
        BY <3>1, <4>1
      <4>2. CASE i = 0
        BY <2>1, <3>1, <4>2 DEF Totals
      <4>3. CASE i # 0 /\ i # n + 1
        <5>1. i \in 0..n /\ i - 1 \in 0..n
          BY <4>3
        <5>2. f[i] = f[i - 1] + Size[entries[i]]
          BY <2>1, <4>3, <5>1 DEF Totals
        <5> QED
          BY <3>1, <4>3, <5>1, <5>2
      <4> QED
        BY <4>1, <4>2, <4>3
    <3>3. g = [i \in 0..(n + 1) |-> g[i]]
      OBVIOUS
    <3> HIDE DEF g
    <3> QED
      BY <3>2, <3>3 DEF Totals
  <2> QED
    BY <2>2
<1>3. N \in P
  <2> HIDE DEF P
  <2> QED
    BY <1>1, <1>2, NaturalInduction
<1> QED
  BY <1>3

LEMMA TotalsStep ==
  ASSUME NEW entries, NEW N \in Nat, NEW f, Totals(entries, N, f), NEW n \in Nat
  PROVE  /\ f[0] = 0
         /\ n + 1 <= N => f[n + 1] = f[n] + Size[entries[n + 1]]
BY DEF Totals

LEMMA BytesAreTotals ==
  ASSUME NEW entries \in Seq(Keys)
  PROVE  \E f : /\ Totals(entries, Len(entries), f)
                /\ Bytes(entries) = f[Len(entries)]
                /\ \A n \in 0..Len(entries) : f[n] \in Nat
<1> DEFINE f == CHOOSE g : Totals(entries, Len(entries), g)
<1>1. Totals(entries, Len(entries), f)
  BY TotalsExist
<1>2. Bytes(entries) = f[Len(entries)]
  BY Zenon DEF Bytes, Totals
<1> HIDE DEF f
<1> DEFINE P == {n \in Nat : n <= Len(entries) => f[n] \in Nat}
<1>3. 0 \in P
  BY <1>1, TotalsStep
<1>4. ASSUME NEW n \in Nat, n \in P
      PROVE  n + 1 \in P
  <2> SUFFICES ASSUME n + 1 <= Len(entries)
               PROVE  f[n + 1] \in Nat
    OBVIOUS
  <2>1. f[n + 1] = f[n] + Size[entries[n + 1]] /\ f[n] \in Nat
    BY <1>1, <1>4, TotalsStep
  <2>2. entries[n + 1] \in Keys
    OBVIOUS
  <2>3. Size[entries[n + 1]] \in Nat
    BY <2>2, PostersAssumption
  <2> QED
    BY <2>1, <2>3
<1>5. Nat \subseteq P
  <2> HIDE DEF P
  <2> QED
    BY <1>3, <1>4, NaturalInduction
<1> QED
  BY <1>1, <1>2, <1>5

LEMMA BytesOfConcat ==
  ASSUME NEW a \in Seq(Keys), NEW b \in Seq(Keys)
  PROVE  Bytes(a \o b) = Bytes(a) + Bytes(b)
<1> DEFINE c == a \o b
<1>1. /\ c \in Seq(Keys) /\ Len(c) = Len(a) + Len(b)
      /\ Len(a) \in Nat /\ Len(b) \in Nat /\ Len(c) \in Nat
      /\ \A i \in 1..Len(a) : c[i] = a[i]
      /\ \A i \in 1..Len(b) : c[Len(a) + i] = b[i]
  OBVIOUS
<1> HIDE DEF c
<1>2. PICK f : /\ Totals(a, Len(a), f) /\ Bytes(a) = f[Len(a)]
               /\ \A n \in 0..Len(a) : f[n] \in Nat
  BY BytesAreTotals
<1>3. PICK g : /\ Totals(b, Len(b), g) /\ Bytes(b) = g[Len(b)]
               /\ \A n \in 0..Len(b) : g[n] \in Nat
  BY BytesAreTotals
<1>4. PICK h : /\ Totals(c, Len(c), h) /\ Bytes(c) = h[Len(c)]
               /\ \A n \in 0..Len(c) : h[n] \in Nat
  BY <1>1, BytesAreTotals
<1> DEFINE P == {n \in Nat : n <= Len(a) => h[n] = f[n]}
           Q == {n \in Nat : n <= Len(b) => h[Len(a) + n] = f[Len(a)] + g[n]}
<1>5. Nat \subseteq P
  <2>1. 0 \in P
    BY <1>1, <1>2, <1>4, TotalsStep
  <2>2. ASSUME NEW n \in Nat, n \in P
        PROVE  n + 1 \in P
    <3> SUFFICES ASSUME n + 1 <= Len(a)
                 PROVE  h[n + 1] = f[n + 1]
      OBVIOUS
    <3>1. h[n] = f[n] /\ c[n + 1] = a[n + 1] /\ n + 1 <= Len(c)
      BY <1>1, <2>2
    <3>2. h[n + 1] = h[n] + Size[c[n + 1]]
      <4>1. Len(c) \in Nat /\ Totals(c, Len(c), h)
        BY <1>1, <1>4
      <4> QED
        BY <3>1, <4>1, TotalsStep
    <3>3. f[n + 1] = f[n] + Size[a[n + 1]]
      BY <1>1, <1>2, TotalsStep
    <3> QED
      BY <3>1, <3>2, <3>3
  <2> HIDE DEF P
  <2> QED
    BY <2>1, <2>2, NaturalInduction
<1>6. Nat \subseteq Q
  <2>1. 0 \in Q
    <3>1. h[Len(a)] = f[Len(a)] /\ g[0] = 0 /\ f[Len(a)] \in Nat /\ Len(a) + 0 = Len(a)
      BY <1>1, <1>2, <1>3, <1>5, TotalsStep
    <3> QED
      BY <3>1
  <2>2. ASSUME NEW n \in Nat, n \in Q
        PROVE  n + 1 \in Q
    <3> SUFFICES ASSUME n + 1 <= Len(b)
                 PROVE  h[Len(a) + (n + 1)] = f[Len(a)] + g[n + 1]
      OBVIOUS
    <3>1. /\ h[Len(a) + n] = f[Len(a)] + g[n]
          /\ c[Len(a) + (n + 1)] = b[n + 1]
          /\ (Len(a) + n) + 1 <= Len(c) /\ Len(a) + n \in Nat
          /\ (Len(a) + n) + 1 = Len(a) + (n + 1)
      BY <1>1, <2>2
    <3>2. h[(Len(a) + n) + 1] = h[Len(a) + n] + Size[c[(Len(a) + n) + 1]]
      <4>1. Len(c) \in Nat /\ Totals(c, Len(c), h)
        BY <1>1, <1>4
      <4> DEFINE m == Len(a) + n
      <4>2. m \in Nat /\ m + 1 <= Len(c)
        BY <3>1
      <4> HIDE DEF m
      <4>3. h[m + 1] = h[m] + Size[c[m + 1]]
        BY <4>1, <4>2, TotalsStep
      <4> QED
        BY <4>3 DEF m
    <3>3. g[n + 1] = g[n] + Size[b[n + 1]]
      BY <1>1, <1>3, TotalsStep
    <3>4. b[n + 1] \in Keys
      OBVIOUS
    <3>5. f[Len(a)] \in Nat /\ g[n] \in Nat /\ Size[b[n + 1]] \in Nat
      BY <1>1, <1>2, <1>3, <3>4, PostersAssumption
    <3> QED
      BY <3>1, <3>2, <3>3, <3>5
  <2> HIDE DEF Q
  <2> QED
    BY <2>1, <2>2, NaturalInduction
<1>7. Len(b) \in Q
  BY <1>1, <1>6
<1> QED
  BY <1>1, <1>2, <1>3, <1>4, <1>7 DEF c

LEMMA BytesOfOne ==
  ASSUME NEW k \in Keys
  PROVE  Bytes(<<k>>) = Size[k] /\ Size[k] \in Nat
<1>1. <<k>> \in Seq(Keys) /\ Len(<<k>>) = 1 /\ <<k>>[1] = k
  OBVIOUS
<1> DEFINE s == <<k>>
<1> HIDE DEF s
<1>2. PICK f : /\ Totals(s, 1, f) /\ Bytes(s) = f[1]
  BY <1>1, BytesAreTotals DEF s
<1>3. f[0] = 0 /\ f[0 + 1] = f[0] + Size[s[0 + 1]]
  BY <1>2, TotalsStep
<1>4. Size[k] \in Nat
  BY PostersAssumption
<1> QED
  BY <1>1, <1>2, <1>3, <1>4 DEF s

LEMMA BytesOfNone == Bytes(<< >>) = 0
<1>1. << >> \in Seq(Keys) /\ Len(<< >>) = 0
  OBVIOUS
<1>2. PICK f : Totals(<< >>, 0, f) /\ Bytes(<< >>) = f[0]
  BY <1>1, BytesAreTotals
<1> QED
  BY <1>2, TotalsStep

LEMMA BytesOfAppend ==
  ASSUME NEW a \in Seq(Keys), NEW k \in Keys
  PROVE  Bytes(Append(a, k)) = Bytes(a) + Size[k]
<1>1. Append(a, k) = a \o <<k>> /\ <<k>> \in Seq(Keys)
  OBVIOUS
<1> QED
  BY <1>1, BytesOfConcat, BytesOfOne
-----------------------------------------------------------------------------
\* No poster is held twice.
Distinct(s) == \A i, j \in DOMAIN s : s[i] = s[j] => i = j

RamInv ==
  /\ ram \in Seq(Keys) /\ used \in Nat
  /\ used <= Budget /\ used = Bytes(ram)
  /\ Distinct(ram)

LEMMA DistinctCount ==
  ASSUME NEW s \in Seq(Keys), Distinct(s)
  PROVE  Cardinality(Range(s)) = Len(s)
<1>1. Len(s) \in Nat /\ DOMAIN s = 1..Len(s) /\ s \in [1..Len(s) -> Keys]
  OBVIOUS
<1>2. s \in Bijection(1..Len(s), Range(s))
  <2>1. Range(s) = {s[i] : i \in 1..Len(s)}
    BY <1>1 DEF Range
  <2>2. s \in [1..Len(s) -> Range(s)]
    BY <1>1, <2>1
  <2> QED
    BY <1>1, <2>1, <2>2 DEF Bijection, Injection, Surjection, IsInjective, Distinct
<1>3. IsFiniteSet(1..Len(s)) /\ Cardinality(1..Len(s)) = Len(s)
  BY <1>1, FS_Interval
<1> QED
  BY <1>2, <1>3, FS_Bijection DEF ExistsBijection

\* Sequences joined and cut.
LEMMA Joined ==
  ASSUME NEW a \in Seq(Keys), NEW b \in Seq(Keys)
  PROVE  /\ a \o b \in Seq(Keys) /\ Len(a \o b) = Len(a) + Len(b)
         /\ Len(a) \in Nat /\ Len(b) \in Nat
         /\ \A i \in 1..Len(a) : (a \o b)[i] = a[i]
         /\ \A i \in 1..Len(b) : (a \o b)[Len(a) + i] = b[i]
OBVIOUS

LEMMA Parted ==
  ASSUME NEW s \in Seq(Keys), NEW n \in 0..Len(s)
  PROVE  /\ Len(s) \in Nat
         /\ SubSeq(s, 1, n) \in Seq(Keys) /\ Len(SubSeq(s, 1, n)) = n
         /\ \A i \in 1..n : SubSeq(s, 1, n)[i] = s[i]
         /\ SubSeq(s, n + 1, Len(s)) \in Seq(Keys) /\ Len(SubSeq(s, n + 1, Len(s))) = Len(s) - n
         /\ \A i \in 1..(Len(s) - n) : SubSeq(s, n + 1, Len(s))[i] = s[n + i]
OBVIOUS

LEMMA BytesOfParts ==
  ASSUME NEW s \in Seq(Keys), NEW n \in 0..Len(s)
  PROVE  /\ SubSeq(s, 1, n) \in Seq(Keys) /\ SubSeq(s, n + 1, Len(s)) \in Seq(Keys)
         /\ Bytes(s) = Bytes(SubSeq(s, 1, n)) + Bytes(SubSeq(s, n + 1, Len(s)))
<1> DEFINE a == SubSeq(s, 1, n)
           b == SubSeq(s, n + 1, Len(s))
<1>1. /\ a \in Seq(Keys) /\ Len(a) = n /\ \A i \in 1..n : a[i] = s[i]
      /\ b \in Seq(Keys) /\ Len(b) = Len(s) - n
      /\ \A i \in 1..(Len(s) - n) : b[i] = s[n + i]
  OBVIOUS
<1> HIDE DEF a, b
<1>2. /\ a \o b \in Seq(Keys) /\ Len(a \o b) = Len(s)
      /\ \A i \in 1..Len(s) : (a \o b)[i] = s[i]
  <2> DEFINE c == a \o b
  <2>1. /\ c \in Seq(Keys) /\ Len(c) = Len(s)
        /\ \A i \in 1..n : c[i] = s[i]
        /\ \A i \in 1..(Len(s) - n) : c[n + i] = s[n + i]
    BY <1>1, Joined
  <2> HIDE DEF c
  <2>2. ASSUME NEW i \in 1..Len(s)
        PROVE  c[i] = s[i]
    <3>1. i \in 1..n \/ (i - n \in 1..(Len(s) - n) /\ n + (i - n) = i)
      OBVIOUS
    <3> QED
      BY <2>1, <3>1
  <2> QED
    BY <2>1, <2>2 DEF c
<1>3. a \o b = s
  <2> DEFINE c == a \o b
  <2> HIDE DEF c
  <2>1. c \in Seq(Keys) /\ Len(c) = Len(s) /\ \A i \in 1..Len(s) : c[i] = s[i]
    BY <1>2 DEF c
  <2>2. c = s
    BY <2>1
  <2> QED
    BY <2>2 DEF c
<1>4. Bytes(s) = Bytes(a) + Bytes(b)
  BY <1>1, <1>3, BytesOfConcat
<1> QED
  BY <1>1, <1>4 DEF a, b

LEMMA BytesAreNatural ==
  ASSUME NEW s \in Seq(Keys)
  PROVE  Bytes(s) \in Nat
BY BytesAreTotals

\* `Lru::get` moves one entry to the end.
LEMMA TouchedKeeps ==
  ASSUME RamInv, NEW k \in Keys, k \in Range(ram), ram' = Touched(k), used' = used
  PROVE  RamInv'
<1> DEFINE at == {i \in DOMAIN ram : ram[i] = k}
           x == Min(at)
           n == Len(ram)
           a == SubSeq(ram, 1, x - 1)
           b == SubSeq(ram, x + 1, Len(ram))
           c == a \o b
<1>1. ram \in Seq(Keys) /\ n \in Nat /\ DOMAIN ram = 1..n
  BY DEF RamInv
<1>2. x \in 1..n /\ ram[x] = k
  <2>1. at # {} /\ at \subseteq Nat
    BY <1>1 DEF Range
  <2> QED
    BY <1>1, <2>1, MinOfNaturals
<1>3. ram' = Append(c, k)
  BY <1>2, Zenon DEF Touched, RemoveAt
<1> HIDE DEF x
<1>4. /\ a \in Seq(Keys) /\ Len(a) = x - 1 /\ \A i \in 1..(x - 1) : a[i] = ram[i]
      /\ b \in Seq(Keys) /\ Len(b) = n - x
      /\ \A i \in 1..(n - x) : b[i] = ram[x + i]
  <2>1. x - 1 \in 0..Len(ram) /\ x \in 0..Len(ram)
    BY <1>1, <1>2
  <2> QED
    BY <1>1, <2>1, Parted
<1>5. Bytes(ram) = Bytes(a) + Size[k] + Bytes(b)
  <2>1. x - 1 \in 0..Len(ram) /\ x \in 0..Len(ram) /\ (x - 1) + 1 = x
    BY <1>1, <1>2
  <2>2. Bytes(ram) = Bytes(SubSeq(ram, 1, x)) + Bytes(b) /\ SubSeq(ram, 1, x) \in Seq(Keys)
    BY <1>1, <2>1, BytesOfParts
  <2>3. SubSeq(ram, 1, x) = Append(a, k)
    <3> DEFINE cut == SubSeq(ram, 1, x)
               joined == Append(a, k)
    <3>1. cut \in Seq(Keys) /\ Len(cut) = x /\ \A i \in 1..x : cut[i] = ram[i]
      BY <1>1, <1>2
    <3>2. joined \in Seq(Keys) /\ Len(joined) = x /\ \A i \in 1..(x - 1) : joined[i] = a[i]
      BY <1>2, <1>4
    <3>3. joined[x] = k
      BY <1>2, <1>4
    <3>4. \A i \in 1..x : cut[i] = joined[i]
      BY <1>2, <1>4, <3>1, <3>2, <3>3
    <3> HIDE DEF cut, joined
    <3>5. cut = joined
      BY <1>2, <3>1, <3>2, <3>4
    <3> QED
      BY <3>5 DEF cut, joined
  <2> HIDE DEF a
  <2> QED
    BY <1>4, <2>2, <2>3, BytesOfAppend
<1> HIDE DEF n, a, b
<1>6. /\ c \in Seq(Keys) /\ Len(c) = n - 1
      /\ \A i \in 1..(x - 1) : c[i] = ram[i]
      /\ \A i \in 1..(n - x) : c[(x - 1) + i] = ram[x + i]
  <2>1. /\ c \in Seq(Keys) /\ Len(c) = Len(a) + Len(b)
        /\ \A i \in 1..Len(a) : c[i] = a[i]
        /\ \A i \in 1..Len(b) : c[Len(a) + i] = b[i]
    BY <1>4, Joined
  <2> HIDE DEF c
  <2>2. Len(a) + Len(b) = n - 1
    BY <1>1, <1>2, <1>4
  <2> QED
    BY <1>4, <2>1, <2>2
<1> HIDE DEF c
<1>7. /\ ram' \in Seq(Keys) /\ DOMAIN ram' = 1..n
      /\ \A i \in 1..(n - 1) : ram'[i] = c[i]
      /\ ram'[n] = ram[x]
  BY <1>1, <1>2, <1>3, <1>6
<1>8. Distinct(ram')
  <2> DEFINE from(i) == IF i < x THEN i ELSE IF i = n THEN x ELSE i + 1
  <2>1. ASSUME NEW i \in 1..n
        PROVE  from(i) \in 1..n /\ ram'[i] = ram[from(i)]
    <3>1. CASE i < x
      <4>1. i \in 1..(x - 1) /\ i \in 1..(n - 1) /\ from(i) = i
        BY <1>1, <1>2, <3>1
      <4> HIDE DEF from
      <4> QED
        BY <1>6, <1>7, <4>1
    <3>2. CASE i >= x /\ i = n
      <4>1. from(i) = x
        BY <1>1, <1>2, <3>2
      <4> HIDE DEF from
      <4> QED
        BY <1>2, <1>7, <3>2, <4>1
    <3>3. CASE i >= x /\ i # n
      <4>1. /\ i - x + 1 \in 1..(n - x) /\ i \in 1..(n - 1)
            /\ (x - 1) + (i - x + 1) = i /\ x + (i - x + 1) = i + 1
            /\ from(i) = i + 1 /\ i + 1 \in 1..n
        BY <1>1, <1>2, <3>3
      <4> HIDE DEF from
      <4>2. c[i] = ram[i + 1]
        BY <1>6, <4>1
      <4> QED
        BY <1>7, <4>1, <4>2
    <3>4. i < x \/ i >= x
      BY <1>2
    <3> HIDE DEF from
    <3> QED
      BY <3>1, <3>2, <3>3, <3>4
  <2>2. ASSUME NEW i \in 1..n, NEW j \in 1..n, from(i) = from(j)
        PROVE  i = j
    BY <1>1, <1>2, <2>2
  <2>3. \A i, j \in 1..n : ram[i] = ram[j] => i = j
    BY <1>1 DEF RamInv, Distinct
  <2> HIDE DEF from
  <2> QED
    BY <1>7, <2>1, <2>2, <2>3 DEF Distinct
<1>9. Bytes(ram') = Bytes(ram)
  <2>1. Bytes(ram') = Bytes(c) + Size[k]
    BY <1>3, <1>6, BytesOfAppend
  <2>2. Bytes(c) = Bytes(a) + Bytes(b)
    BY <1>4, BytesOfConcat DEF c
  <2>3. Bytes(a) \in Nat /\ Bytes(b) \in Nat /\ Size[k] \in Nat
    BY <1>4, BytesAreNatural, BytesOfOne
  <2> QED
    BY <1>5, <2>1, <2>2, <2>3
<1> QED
  BY <1>7, <1>8, <1>9 DEF RamInv

\* `Lru::insert` evicts until the new poster fits, and it always does: the
\* loop never runs out of entries.
LEMMA KeptFits ==
  ASSUME RamInv, NEW k \in Keys, Size[k] <= Budget
  PROVE  \E n \in 0..Len(ram) :
           /\ Kept(k) = SubSeq(ram, n + 1, Len(ram))
           /\ Bytes(SubSeq(ram, 1, n)) >= used + Size[k] - Budget
<1> DEFINE fits(n) == Bytes(SubSeq(ram, 1, n)) >= used + Size[k] - Budget
           evicted == CHOOSE n \in 0..Len(ram) : fits(n) /\ \A m \in 0..(n - 1) : ~fits(m)
           S == {n \in 0..Len(ram) : fits(n)}
<1>1. ram \in Seq(Keys) /\ Len(ram) \in Nat /\ used \in Nat /\ used = Bytes(ram)
  BY DEF RamInv
<1>2. Len(ram) \in S
  <2>1. Size[k] \in Nat /\ Budget \in Nat
    BY PostersAssumption
  <2>2. SubSeq(ram, 1, Len(ram)) = ram
    BY <1>1
  <2>3. used >= used + Size[k] - Budget
    BY <1>1, <2>1
  <2>4. fits(Len(ram))
    BY <1>1, <2>2, <2>3
  <2> HIDE DEF fits
  <2> QED
    BY <1>1, <2>4
<1>3. PICK n \in S : \A m \in S : n <= m
  <2>1. S \subseteq Nat /\ S # {}
    BY <1>2
  <2> HIDE DEF S
  <2> QED
    BY <2>1, LeastOfNaturals
<1>4. n \in 0..Len(ram) /\ fits(n)
  BY <1>3
<1>5. ASSUME NEW m \in 0..(n - 1)
      PROVE  ~fits(m)
  <2>1. m \in 0..Len(ram) /\ ~ (n <= m)
    BY <1>1, <1>4
  <2>2. m \notin S
    <3> HIDE DEF S
    <3> QED
      BY <1>3, <2>1
  <2> HIDE DEF fits
  <2> QED
    BY <2>1, <2>2
<1> HIDE DEF fits
<1>6. evicted \in 0..Len(ram) /\ fits(evicted)
  BY <1>4, <1>5
<1>7. Kept(k) = SubSeq(ram, evicted + 1, Len(ram))
  BY Zenon DEF Kept, fits
<1> HIDE DEF evicted
<1> QED
  BY <1>6, <1>7 DEF fits

LEMMA Sums ==
  ASSUME NEW x \in Nat, NEW y \in Nat, NEW size \in Nat, NEW limit \in Nat,
         x >= x + y + size - limit
  PROVE  /\ (x + y) - ((x + y) - y) + size = y + size
         /\ y + size <= limit /\ y + size \in Nat
OBVIOUS

LEMMA InsertKeeps ==
  ASSUME RamInv, NEW k \in Keys, Insert(k)
  PROVE  RamInv'
<1>1. CASE UNCHANGED <<ram, used>>
  BY <1>1 DEF RamInv, Distinct
<1>2. CASE ~ (Size[k] > Budget \/ k \in Range(ram))
  <2>1. /\ ram' = Append(Kept(k), k)
        /\ used' = used - (Bytes(ram) - Bytes(Kept(k))) + Size[k]
    BY <1>2 DEF Insert
  <2>2. /\ ram \in Seq(Keys) /\ Len(ram) \in Nat /\ DOMAIN ram = 1..Len(ram)
        /\ used \in Nat /\ used = Bytes(ram) /\ used <= Budget
    BY DEF RamInv
  <2>3. Size[k] \in Nat /\ Budget \in Nat /\ Size[k] <= Budget
    BY <1>2, PostersAssumption
  <2>4. PICK n \in 0..Len(ram) :
          /\ Kept(k) = SubSeq(ram, n + 1, Len(ram))
          /\ Bytes(SubSeq(ram, 1, n)) >= used + Size[k] - Budget
    BY <2>3, KeptFits
  <2> DEFINE a == SubSeq(ram, 1, n)
             b == Kept(k)
             l == Len(ram) - n
  <2>5. /\ a \in Seq(Keys) /\ b \in Seq(Keys) /\ Len(b) = l /\ l \in Nat
        /\ \A i \in 1..l : b[i] = ram[n + i] /\ n + i \in 1..Len(ram)
        /\ Bytes(ram) = Bytes(a) + Bytes(b)
    <3>1. /\ SubSeq(ram, 1, n) \in Seq(Keys) /\ SubSeq(ram, n + 1, Len(ram)) \in Seq(Keys)
          /\ Len(SubSeq(ram, n + 1, Len(ram))) = l
          /\ \A i \in 1..l : SubSeq(ram, n + 1, Len(ram))[i] = ram[n + i]
      BY <2>2, Parted
    <3>2. Bytes(ram) = Bytes(a) + Bytes(SubSeq(ram, n + 1, Len(ram)))
      BY <2>2, BytesOfParts
    <3>3. l \in Nat /\ \A i \in 1..l : n + i \in 1..Len(ram)
      BY <2>2
    <3> HIDE DEF a, l
    <3> QED
      BY <2>4, <3>1, <3>2, <3>3 DEF a
  <2> HIDE DEF a, b, l
  <2>6. Bytes(a) \in Nat /\ Bytes(b) \in Nat
    BY <2>5, BytesAreNatural
  <2>7. Bytes(ram') = Bytes(b) + Size[k]
    BY <2>1, <2>5, BytesOfAppend DEF b
  <2>8. used' = Bytes(ram') /\ used' \in Nat /\ used' <= Budget
    <3>1. Bytes(a) >= used + Size[k] - Budget
      BY <2>4 DEF a
    <3>2. used' = used - (Bytes(ram) - Bytes(b)) + Size[k]
      BY <2>1 DEF b
    <3>3. Bytes(a) >= Bytes(a) + Bytes(b) + Size[k] - Budget
      BY <2>2, <2>5, <3>1
    <3>4. used' = (Bytes(a) + Bytes(b)) - ((Bytes(a) + Bytes(b)) - Bytes(b)) + Size[k]
      BY <2>2, <2>5, <3>2
    <3> DEFINE x == Bytes(a)
               y == Bytes(b)
               size == Size[k]
    <3>5. x \in Nat /\ y \in Nat /\ size \in Nat /\ Budget \in Nat
          /\ x >= x + y + size - Budget
          /\ used' = (x + y) - ((x + y) - y) + size
          /\ Bytes(ram') = y + size
      BY <2>3, <2>6, <2>7, <3>3, <3>4
    <3> HIDE DEF x, y, size
    <3> QED
      BY <3>5, Sums
  <2>9. /\ ram' \in Seq(Keys) /\ DOMAIN ram' = 1..(l + 1)
        /\ \A i \in 1..l : ram'[i] = b[i]
        /\ ram'[l + 1] = k
    BY <2>1, <2>5 DEF b
  <2>10. Distinct(ram')
    <3>1. \A i \in 1..l : ram'[i] = ram[n + i] /\ n + i \in DOMAIN ram /\ ram'[i] # k
      <4>1. \A i \in DOMAIN ram : ram[i] # k
        BY <1>2 DEF Range
      <4> QED
        BY <2>2, <2>5, <2>9, <4>1
    <3>2. \A i, j \in DOMAIN ram : ram[i] = ram[j] => i = j
      BY DEF RamInv, Distinct
    <3>3. ASSUME NEW i \in 1..l, NEW j \in 1..l, ram'[i] = ram'[j]
          PROVE  i = j
      <4>1. n + i = n + j
        BY <3>1, <3>2, <3>3
      <4> QED
        BY <4>1
    <3>4. \A i \in 1..(l + 1) : i \in 1..l \/ i = l + 1
      BY <2>5
    <3> QED
      BY <2>9, <3>1, <3>3, <3>4 DEF Distinct
  <2> QED
    BY <2>8, <2>9, <2>10 DEF RamInv
<1> QED
  BY <1>1, <1>2 DEF Insert

LEMMA RamInductive == PostersSpec => []RamInv
<1>1. PostersInit => RamInv
  BY BytesOfNone, PostersAssumption DEF PostersInit, RamInv, Distinct
<1>2. RamInv /\ [PostersNext]_posterVars => RamInv'
  <2> SUFFICES ASSUME RamInv, [PostersNext]_posterVars
               PROVE  RamInv'
    OBVIOUS
  <2>1. CASE UNCHANGED <<ram, used>>
    BY <2>1 DEF RamInv, Distinct
  <2>2. ASSUME NEW k \in Keys, Image(k)
        PROVE  RamInv'
    BY <2>1, <2>2, TouchedKeeps DEF Image
  <2>3. ASSUME NEW k \in Keys, Works(k)
        PROVE  UNCHANGED <<ram, used>>
    BY <2>3 DEF Works, ReadDisk, ReadFails, Download, CreateTemp, SyncTemp, Rename, WriteFails, service
  <2>4. ASSUME NEW k \in Keys, Arrived(k)
        PROVE  RamInv'
    BY <2>1, <2>4, InsertKeeps DEF Arrived
  <2>5. CASE Exit
    <3>1. ram' = << >> /\ used' = 0
      BY <2>5 DEF Exit
    <3> QED
      BY <3>1, BytesOfNone, PostersAssumption DEF RamInv, Distinct
  <2>6. ASSUME Launch \/ CleanUnused \/ Tick \/ (\E k \in Keys : Damage(k)) \/ UNCHANGED posterVars
        PROVE  UNCHANGED <<ram, used>>
    BY <2>6 DEF Launch, CleanUnused, Tick, Damage, posterVars, service
  <2> QED
    BY <2>1, <2>2, <2>3, <2>4, <2>5, <2>6 DEF PostersNext
<1> QED
  BY <1>1, <1>2, PTL DEF PostersSpec

\* The RAM cache holds no poster twice, its running total is exact, and the
\* total stays within RAM_BUDGET, for posters of any size in any order.
THEOREM RamStaysBounded == PostersSpec => []RamIsBounded
<1>1. RamInv => RamIsBounded
  BY DistinctCount DEF RamInv, RamIsBounded
<1> QED
  BY <1>1, RamInductive, PTL
-----------------------------------------------------------------------------
\* What PostersInv and RamInv do not say of the types.
ServiceTypes ==
  /\ running \in BOOLEAN /\ now \in Times
  /\ failed \in [Keys -> {NoFailure, Never} \cup (0..(MaxTime + RetryAfter))]
  /\ last \in [Keys -> {NoFailure, Never} \cup Times]

LEMMA ServiceStep ==
  ASSUME ServiceTypes, [PostersNext]_posterVars
  PROVE  ServiceTypes'
<1> USE PostersAssumption DEF ServiceTypes, Times
<1>1. CASE UNCHANGED <<running, now, failed, last>>
  BY <1>1
<1>2. ASSUME NEW k \in Keys, Download(k) PROVE ServiceTypes'
  <2>1. PICK a \in {NoFailure, Never, now} : last' = [last EXCEPT ![k] = a]
    BY <1>2 DEF Download, Outcomes
  <2> QED
    BY <1>2, <2>1 DEF Download, service
<1>3. ASSUME NEW k \in Keys, Arrived(k) PROVE ServiceTypes'
  <2>1. PICK a \in {NoFailure, Never, now + RetryAfter} : failed' = [failed EXCEPT ![k] = a]
    BY <1>3 DEF Arrived
  <2> QED
    BY <1>3, <2>1 DEF Arrived
<1>4. CASE Launch
  BY <1>4 DEF Launch, service
<1>5. CASE Exit
  <2>1. /\ running' = FALSE /\ now' = now
        /\ failed' = [j \in Keys |-> NoFailure] /\ last' = [j \in Keys |-> NoFailure]
    BY <1>5 DEF Exit, AllKeys
  <2>2. running' \in BOOLEAN
    BY <2>1, Zenon
  <2> QED
    BY <2>1, <2>2
<1>6. CASE Tick
  <2>1. /\ UNCHANGED <<running, failed, last>> /\ now' \in Times
    BY <1>6 DEF Tick, service
  <2> QED
    BY <2>1
<1>7. ASSUME NEW k \in Keys,
             \/ ReadDisk(k) \/ ReadFails(k) \/ CreateTemp(k) \/ SyncTemp(k) \/ Rename(k)
             \/ WriteFails(k) \/ Image(k) \/ Damage(k)
      PROVE  UNCHANGED <<running, now, failed, last>>
  BY <1>7 DEF ReadDisk, ReadFails, CreateTemp, SyncTemp, Rename, WriteFails, Image, Damage, service
<1>8. ASSUME CleanUnused \/ UNCHANGED posterVars PROVE UNCHANGED <<running, now, failed, last>>
  BY <1>8 DEF CleanUnused, posterVars, service
<1> QED
  BY <1>1, <1>2, <1>3, <1>4, <1>5, <1>6, <1>7, <1>8 DEF PostersNext, Works

\* Every map of the service keeps its type: a failed poster is remembered until
\* a time RETRY_AFTER away at most, a load is at a stage its worker knows.
THEOREM PostersTypes == PostersSpec => []PostersTypeOK
<1>1. PostersInit => ServiceTypes
  <2> SUFFICES ASSUME PostersInit PROVE ServiceTypes
    OBVIOUS
  <2>1. running \in BOOLEAN
    BY Zenon DEF PostersInit
  <2>2. /\ now \in Times
        /\ failed = [j \in Keys |-> NoFailure] /\ last = [j \in Keys |-> NoFailure]
    BY PostersAssumption DEF PostersInit, Times, AllKeys
  <2> QED
    BY <2>1, <2>2 DEF ServiceTypes
<1>2. ServiceTypes /\ [PostersNext]_posterVars => ServiceTypes'
  BY ServiceStep
<1>3. PostersInv /\ RamInv /\ ServiceTypes => PostersTypeOK
  BY DEF PostersInv, LoadTypes, Stages, RamInv, ServiceTypes, PostersTypeOK
<1> QED
  BY <1>1, <1>2, <1>3, PostersInductive, RamInductive, PTL DEF PostersSpec
=============================================================================
