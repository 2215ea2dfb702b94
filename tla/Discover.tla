------------------------------ MODULE Discover ------------------------------
(***************************************************************************)
(* The Discover page: the search state machine of src/src/search.rs driven *)
(* by the handlers of src/src/remote.rs, with the selection and the "In    *)
(* Library" badges that every handler renders at its end.                  *)
(*                                                                         *)
(* Debounce timers and answers arrive on the UI thread in any order; an    *)
(* edit, a new token or a removed one makes all earlier ones stale, and    *)
(* nothing in flight is cancelled.                                         *)
(***************************************************************************)
EXTENDS Integers, FiniteSets, SequencesExt

CONSTANTS
  Ids,            \* provider ids; a movie and a series may share one
  Queries,        \* search texts
  Blank,          \* the empty search text
  Tokens, NoToken,
  Answers,        \* pages TMDB may return: [total, ids]
  MaxPage,        \* TMDB refuses later pages (MAX_PAGE)
  None,           \* no selection
  MaxGeneration   \* edits and token changes in a behaviour

ASSUME DiscoverAssumption ==
  /\ MaxPage \in Nat \ {0} /\ MaxGeneration \in Nat
  /\ Blank \notin Queries /\ NoToken \notin Tokens
  /\ Answers \subseteq [total : Nat, ids : Seq(Ids)]

VARIABLES
  token,       \* the token in use; the controller's has_token follows it
  query, generation, waiting,
  side,        \* per media type: what is loaded, pending and failed
  timers,      \* generations with a debounce timer running
  requests,    \* requests handed to the network pool and not yet answered
  selected, picked,
  library,     \* titles with a library_entries row
  inLibrary    \* the listed titles shown as "In Library"

controller == <<query, generation, waiting, side>>
vars == <<token, controller, timers, requests, selected, picked, library, inLibrary>>
-----------------------------------------------------------------------------
Kinds == {"movie", "tv"}
Title == Kinds \X Ids

\* A listed result, with the search it came from.
Result == [id : Ids, query : Queries, token : Tokens, page : 1..MaxPage]

Side == [loaded : 0..MaxPage, total : Nat, results : Seq(Result),
         pending : 0..MaxPage, failed : BOOLEAN]
Empty == [loaded |-> 0, total |-> 0, results |-> <<>>, pending |-> 0, failed |-> FALSE]

Request == [generation : 0..MaxGeneration, query : Queries, token : Tokens,
            kind : Kinds, page : 1..MaxPage]

IdsOf(s) == {s.results[i].id : i \in DOMAIN s.results}
Listed(ss) == {t \in Title : t[2] \in IdsOf(ss[t[1]])}
Shown(ss) == [k \in Kinds |-> [i \in DOMAIN ss[k].results |-> ss[k].results[i].id]]
Top(ss) ==
  IF ss["movie"].results # <<>> THEN <<"movie", ss["movie"].results[1].id>>
  ELSE IF ss["tv"].results # <<>> THEN <<"tv", ss["tv"].results[1].id>>
  ELSE None

SamePage(r) == r.page = side[r.kind].pending \* mutant: no generation
Current(r) == r.generation = generation /\ r.page = side[r.kind].pending

\* `next_page`: 0 when there is nothing to load or a request is out.
NextPage(s) ==
  IF s.pending = 0 /\ (s.failed \/ s.loaded = 0 \/ s.loaded < Min({s.total, MaxPage}))
  THEN s.loaded + 1 ELSE 0

\* The ids of a page that are not listed yet, each once, in the page's order.
FirstAt(ids, x) == Min({i \in DOMAIN ids : ids[i] = x})
Anyway(ids, s) == {ids} \* mutant: results are not deduplicated
Fresh(ids, s) ==
  LET new == Range(ids) \ IdsOf(s) IN
  {q \in Injection(1..Cardinality(new), new) :
     \A i, j \in DOMAIN q : i < j => FirstAt(ids, q[i]) < FirstAt(ids, q[j])}
-----------------------------------------------------------------------------
SearchOK ==
  /\ token \in Tokens \cup {NoToken}
  /\ query \in Queries \cup {Blank}
  /\ generation \in 0..MaxGeneration
  /\ waiting \in BOOLEAN
  /\ side \in [Kinds -> Side]
  /\ timers \subseteq 0..MaxGeneration
  /\ requests \subseteq Request

ViewOK ==
  /\ selected \in Title \cup {None}
  /\ picked \in BOOLEAN
  /\ library \subseteq Title
  /\ inLibrary \subseteq Title

\* What each variable holds, among it that no page beyond TMDB's limit is
\* asked for and that no request goes out without a query or a token.
TypeOK == SearchOK /\ ViewOK

Init ==
  /\ token = NoToken
  /\ query = Blank /\ generation = 0 /\ waiting = FALSE
  /\ side = [k \in Kinds |-> Empty]
  /\ timers = {} /\ requests = {}
  /\ selected = None /\ picked = FALSE
  /\ library \in SUBSET Title
  /\ inLibrary = {}
-----------------------------------------------------------------------------
\* Mutant of Render: a picked title stays selected when the list lost it.
RenderKeeping(libraryChanged, chosen, byUser) ==
  /\ picked' = byUser
  /\ selected' = IF byUser THEN chosen ELSE Top(side')
  /\ inLibrary' = IF libraryChanged \/ Shown(side') # Shown(side)
                  THEN Listed(side') \cap library' ELSE inLibrary

\* `render`, the end of every handler: membership is read again when the list
\* changed or the library did; a user's choice stays while it is still listed,
\* an automatic selection follows the top row.  The caller has set side',
\* library', and chosen/byUser, the selection before rendering.
Render(libraryChanged, chosen, byUser) ==
  LET keep == byUser /\ chosen \in Listed(side') IN
  /\ picked' = keep
  /\ selected' = IF keep THEN chosen ELSE Top(side')
  /\ inLibrary' = IF libraryChanged \/ Shown(side') # Shown(side)
                  THEN Listed(side') \cap library' ELSE inLibrary

\* Mutant of Restart: the sides keep what the old generation loaded and awaits.
RestartKeepingSides ==
  /\ generation' = generation + 1
  /\ side' = side
  /\ waiting' = (token' # NoToken /\ query' # Blank)
  /\ timers' = IF waiting' THEN timers \cup {generation'} ELSE timers

\* `restart` and `schedule`: a new generation, with a timer if there is
\* something to search for.  The caller has set token' and query'.
Restart ==
  /\ generation' = generation + 1
  /\ side' = [k \in Kinds |-> Empty]
  /\ waiting' = (token' # NoToken /\ query' # Blank)
  /\ timers' = IF waiting' THEN timers \cup {generation'} ELSE timers

\* An edit of the search field.
Edit(text) ==
  /\ generation < MaxGeneration
  /\ text # query
  /\ query' = text
  /\ UNCHANGED <<token, requests, library>>
  /\ Restart
  /\ Render(FALSE, selected, picked)

\* Mutant of SetToken: the generation to fire at once is dropped.
SetTokenOnly(t) ==
  /\ generation < MaxGeneration
  /\ token' = t
  /\ generation' = generation + 1
  /\ side' = [k \in Kinds |-> Empty]
  /\ waiting' = (t # NoToken /\ query # Blank)
  /\ UNCHANGED <<query, timers, requests, library>>
  /\ Render(FALSE, selected, picked)

\* A token is loaded, saved or removed; removing also drops the selection.
SetToken(t) ==
  /\ generation < MaxGeneration
  /\ token' = t
  /\ UNCHANGED <<query, requests, library>>
  /\ Restart
  /\ Render(FALSE, IF t = NoToken THEN None ELSE selected, picked)

\* `send`: with the token in use now; without one the requests are dropped.
Send(pages) ==
  requests' = requests \cup
    (IF token = NoToken THEN {} ELSE
      {[generation |-> generation, query |-> query, token |-> token,
        kind |-> k, page |-> pages[k]] : k \in {j \in Kinds : pages[j] > 0}})

Pend(pages) ==
  side' = [k \in Kinds |-> IF pages[k] > 0 THEN [side[k] EXCEPT !.pending = pages[k]]
                           ELSE side[k]]

\* A debounce timer fires; only the latest generation's searches.
TimerFires(g) ==
  /\ g \in timers
  /\ timers' = timers \ {g}
  /\ UNCHANGED <<token, query, generation, library>>
  /\ IF waiting /\ g = generation
     THEN LET first == [k \in Kinds |-> 1] IN
          waiting' = FALSE /\ Pend(first) /\ Send(first)
     ELSE UNCHANGED <<waiting, side, requests>>
  /\ Render(FALSE, selected, picked)

\* `status`, of which the first that applies is shown.
AnyPending == \E k \in Kinds : side[k].pending > 0
Status ==
  IF token = NoToken THEN "no credential"
  ELSE IF query = Blank THEN "idle"
  ELSE IF waiting THEN "waiting"
  ELSE IF \E k \in Kinds : side[k].results # <<>> THEN "results"
  ELSE IF AnyPending THEN "loading"
  ELSE IF \E k \in Kinds : side[k].failed THEN "failed"
  ELSE "no results"

\* `partial_failure`, `loading_more` and `can_load_more`, beside a list.
CanLoadMore ==
  Status = "results" /\ ~AnyPending /\ \E k \in Kinds : NextPage(side[k]) > 0

\* `search_view`: what the page shows and offers. A failure offers Try again;
\* for a token TMDB rejects, which is not told apart here, the way to Settings.
SearchView ==
  [shows |-> Status,
   spinner |-> Status \in {"waiting", "loading"} \/ (Status = "results" /\ AnyPending),
   notice |-> Status = "results" /\ \E k \in Kinds : side[k].failed,
   loadMore |-> CanLoadMore,
   tryAgain |-> Status = "failed"]

\* "Load more" and "Try again", where one of them is offered.
LoadMore ==
  LET next == [k \in Kinds |-> NextPage(side[k])] IN
  /\ SearchView.loadMore \/ SearchView.tryAgain
  /\ UNCHANGED <<token, query, generation, waiting, timers, library>>
  /\ Pend(next) /\ Send(next)
  /\ Render(FALSE, selected, picked)

\* `apply` of a page, or of an error, to the side it was requested for.
Loaded(r, answer, new) ==
  [loaded |-> r.page, total |-> answer.total, pending |-> 0, failed |-> FALSE,
   results |-> side[r.kind].results \o
     [i \in DOMAIN new |-> [id |-> new[i], query |-> r.query, token |-> r.token,
                            page |-> r.page]]]
FailedSilently(r) == [side[r.kind] EXCEPT !.pending = 0] \* mutant: no error kept
Failed(r) == [side[r.kind] EXCEPT !.pending = 0, !.failed = TRUE]

\* An answer: dropped unless it is for the pending page of this generation.
Answered(r) ==
  /\ requests' = requests \ {r}
  /\ UNCHANGED <<token, query, generation, waiting, timers, library>>
  /\ \/ ~Current(r) /\ UNCHANGED side
     \/ /\ Current(r)
        /\ \/ side' = [side EXCEPT ![r.kind] = Failed(r)]
           \/ \E answer \in Answers : \E new \in Fresh(answer.ids, side[r.kind]) :
                side' = [side EXCEPT ![r.kind] = Loaded(r, answer, new)]
  /\ Render(FALSE, selected, picked)

\* The user picks a row.
Select(t) ==
  /\ t \in Listed(side)
  /\ UNCHANGED <<token, controller, timers, requests, library>>
  /\ Render(FALSE, t, TRUE)

\* Add to Library; for a title shown as in the library the same button opens
\* it.  A failed transaction changes nothing.
AddToLibrary ==
  /\ selected # None /\ selected \notin inLibrary
  /\ library' = library \cup {selected}
  /\ UNCHANGED <<token, controller, timers, requests>>
  /\ Render(TRUE, selected, picked)

\* Mutant of RemoveFromLibrary: the Library page announces nothing.
RemoveQuietly(t) ==
  /\ t \in library
  /\ library' = library \ {t}
  /\ UNCHANGED <<token, controller, timers, requests>>
  /\ Render(FALSE, selected, picked)

\* Remove from Library, on the Library page, announces the new membership.
RemoveFromLibrary(t) ==
  /\ t \in library
  /\ library' = library \ {t}
  /\ UNCHANGED <<token, controller, timers, requests>>
  /\ Render(TRUE, selected, picked)

Next ==
  \/ \E text \in Queries \cup {Blank} : Edit(text)
  \/ \E t \in Tokens \cup {NoToken} : SetToken(t)
  \/ \E g \in timers : TimerFires(g)
  \/ LoadMore
  \/ \E r \in requests : Answered(r)
  \/ \E t \in Title : Select(t)
  \/ AddToLibrary
  \/ \E t \in Title : RemoveFromLibrary(t)

Spec == Init /\ [][Next]_vars

\* Timers fire and requests are answered: each has a timeout.
Fairness ==
  /\ WF_vars(\E g \in timers : TimerFires(g))
  /\ WF_vars(\E r \in requests : Answered(r))

FairSpec == Spec /\ Fairness
-----------------------------------------------------------------------------
\* Every listed result answers the query in the search field and was fetched
\* with the token in use, though answers to earlier edits, and to a replaced or
\* removed token, keep arriving (ADR-0008: stale responses).  Pages are
\* appended in order and never beyond the last one TMDB serves.
CurrentSearchOnly ==
  \A k \in Kinds : \A i \in DOMAIN side[k].results :
    LET r == side[k].results[i] IN
    /\ r.query = query /\ r.token = token
    /\ r.page <= side[k].loaded
    /\ \A j \in 1..(i - 1) : side[k].results[j].page <= r.page

\* TMDB moves titles between pages while they are read: none is listed twice.
ListedOnce ==
  \A k \in Kinds : \A i, j \in DOMAIN side[k].results :
    side[k].results[i].id = side[k].results[j].id => i = j

\* The spinner is true: what the current search waits for is on its way, once.
\* A pending page without a request would wait forever, a second request
\* would append a page twice.
WaitsForSomething ==
  /\ waiting => generation \in timers
  /\ \A k \in Kinds :
       LET out == {r \in requests : r.generation = generation /\ r.kind = k} IN
       out = IF side[k].pending = 0 THEN {}
             ELSE {[generation |-> generation, query |-> query, token |-> token,
                    kind |-> k, page |-> side[k].pending]}

\* The page says "No results" only when TMDB said so, for both media types, and
\* at rest a page that failed or was never asked for can be asked for again.
NoResultsIsTrue ==
  /\ SearchView.shows = "no results" => \A k \in Kinds : side[k].loaded > 0
  /\ /\ SearchView.shows \in {"results", "failed", "no results"} /\ ~SearchView.spinner
     /\ \E k \in Kinds : side[k].failed \/ side[k].loaded = 0
     => SearchView.loadMore \/ SearchView.tryAgain

\* R8.md:43-46: a listed title shows "In Library" exactly while it is there,
\* although membership is only looked up when the list or the library changes.
BadgesAreTrue == inLibrary = Listed(side) \cap library

\* The preview, which Add acts on, shows a listed title; a title the user picked
\* stays selected while it is listed, however results stream in around it.
ChoiceStays ==
  [][/\ selected' # None => selected' \in Listed(side')
     /\ picked /\ selected' # selected
          => selected \notin Listed(side') \/ \E t \in Title : Select(t)]_vars

\* A typed search comes to an end: results, none, or an error.
SearchEnds == SearchView.spinner ~> ~SearchView.spinner
-----------------------------------------------------------------------------
\* The inductive invariant.  No answer is ahead of the controller, and a
\* generation is never reused.
NotLater == \A r \in requests : r.generation <= generation

\* Pages come one after the other, sides fill only while there is a search,
\* and a side at rest has been answered.
PagesInOrder ==
  /\ waiting => token # NoToken /\ query # Blank
  /\ \A k \in Kinds :
       /\ side[k].pending \in {0, side[k].loaded + 1}
       /\ side[k].failed => side[k].loaded < MaxPage
       /\ waiting \/ token = NoToken \/ query = Blank => side[k] = Empty
       /\ ~waiting /\ token # NoToken /\ query # Blank
            => side[k].pending > 0 \/ side[k].loaded > 0 \/ side[k].failed

SearchInv ==
  /\ SearchOK /\ NotLater /\ PagesInOrder
  /\ WaitsForSomething /\ CurrentSearchOnly /\ ListedOnce

DiscoverInv == SearchInv /\ ViewOK /\ BadgesAreTrue
=============================================================================
