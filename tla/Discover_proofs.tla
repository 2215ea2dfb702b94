--------------------------- MODULE Discover_proofs ---------------------------
(***************************************************************************)
(* Safety of the Discover page for every set of ids, queries and tokens,   *)
(* every page TMDB may answer with and every number of pages and edits:    *)
(* DiscoverInv is inductive, and the properties follow from it.            *)
(***************************************************************************)
EXTENDS Discover, FiniteSetTheorems, TLAPS

\* Functions on an initial segment are sequences, and what \o makes of two.
LEMMA FunctionIsSeq ==
  ASSUME NEW S, NEW n \in Nat, NEW f \in [1..n -> S]
  PROVE  f \in Seq(S) /\ Len(f) = n
OBVIOUS

LEMMA Joined ==
  ASSUME NEW S, NEW a \in Seq(S), NEW b \in Seq(S)
  PROVE  /\ a \o b \in Seq(S) /\ Len(a \o b) = Len(a) + Len(b)
         /\ \A i \in 1..(Len(a) + Len(b)) :
              (a \o b)[i] = IF i <= Len(a) THEN a[i] ELSE b[i - Len(a)]
OBVIOUS

\* A page repeats ids, but has finitely many.
LEMMA RangeFinite ==
  ASSUME NEW S, NEW s \in Seq(S)
  PROVE  IsFiniteSet(Range(s)) /\ Range(s) \subseteq S
<1>1. DOMAIN s = 1..Len(s) /\ Len(s) \in Nat
  OBVIOUS
<1>2. s \in Surjection(1..Len(s), Range(s))
  BY <1>1 DEF Surjection, Range
<1>3. IsFiniteSet(1..Len(s))
  BY <1>1, FS_Interval
<1>4. IsFiniteSet(Range(s))
  BY <1>2, <1>3, FS_Surjection
<1>5. Range(s) \subseteq S
  BY <1>1 DEF Range
<1> QED BY <1>4, <1>5

\* The new ids of a page: each once, and none that is listed already.
LEMMA FreshOnce ==
  ASSUME NEW ids \in Seq(Ids), NEW s \in Side, NEW new \in Fresh(ids, s)
  PROVE  /\ new \in Seq(Ids)
         /\ \A i, j \in DOMAIN new : new[i] = new[j] => i = j
         /\ \A i \in DOMAIN new : new[i] \notin IdsOf(s)
<1> DEFINE N == Range(ids) \ IdsOf(s)
<1>1. IsFiniteSet(N) /\ N \subseteq Ids
  <2>1. IsFiniteSet(Range(ids)) /\ Range(ids) \subseteq Ids
    BY RangeFinite
  <2>2. N \subseteq Range(ids)
    OBVIOUS
  <2> QED BY <2>1, <2>2, FS_Subset
<1>2. Cardinality(N) \in Nat
  BY <1>1, FS_CardinalityType
<1>3. new \in Injection(1..Cardinality(N), N)
  BY DEF Fresh
<1>4. new \in [1..Cardinality(N) -> N] /\ IsInjective(new)
  BY <1>3 DEF Injection
<1>5. new \in Seq(N)
  BY <1>2, <1>4, FunctionIsSeq
<1>6. new \in Seq(Ids)
  BY <1>1, <1>5
<1>7. \A i, j \in DOMAIN new : new[i] = new[j] => i = j
  BY <1>4 DEF IsInjective
<1>8. \A i \in DOMAIN new : new[i] \in N
  BY <1>4
<1> QED BY <1>6, <1>7, <1>8

\* Results of an answer, appended to the ones already listed.
Listing(new, q, t, p) == [i \in DOMAIN new |-> [id |-> new[i], query |-> q, token |-> t, page |-> p]]

Continues(all, old, new, q, t, p) ==
  /\ all \in Seq(Result)
  /\ DOMAIN old = 1..Len(old) /\ Len(old) \in Nat
  /\ DOMAIN new = 1..Len(new) /\ Len(new) \in Nat
  /\ DOMAIN all = 1..(Len(old) + Len(new))
  /\ \A i \in 1..Len(old) : all[i] = old[i]
  /\ \A i \in DOMAIN all : i > Len(old) =>
       /\ i - Len(old) \in DOMAIN new
       /\ all[i].id = new[i - Len(old)]
       /\ all[i].query = q /\ all[i].token = t /\ all[i].page = p

LEMMA Appended ==
  ASSUME NEW old \in Seq(Result), NEW new \in Seq(Ids),
         NEW q \in Queries, NEW t \in Tokens, NEW p \in 1..MaxPage
  PROVE  Continues(old \o Listing(new, q, t, p), old, new, q, t, p)
<1> DEFINE all == old \o Listing(new, q, t, p)
<1> DEFINE add == Listing(new, q, t, p)
<1>1. DOMAIN new = 1..Len(new) /\ Len(new) \in Nat /\ DOMAIN old = 1..Len(old) /\ Len(old) \in Nat
  OBVIOUS
<1>2. add \in [1..Len(new) -> Result]
  <2>1. \A i \in 1..Len(new) : [id |-> new[i], query |-> q, token |-> t, page |-> p] \in Result
    BY <1>1 DEF Result
  <2> QED BY <1>1, <2>1 DEF Listing
<1>3. add \in Seq(Result) /\ Len(add) = Len(new)
  <2> HIDE DEF add
  <2> QED BY <1>1, <1>2, FunctionIsSeq
<1>4. \A i \in 1..Len(new) : /\ add[i].id = new[i] /\ add[i].query = q
                             /\ add[i].token = t /\ add[i].page = p
  BY <1>1 DEF Listing
<1>10. all = old \o add
  OBVIOUS
<1>5. /\ all \in Seq(Result) /\ Len(all) = Len(old) + Len(new)
      /\ \A i \in 1..Len(all) : all[i] = IF i <= Len(old) THEN old[i] ELSE add[i - Len(old)]
    <2> HIDE DEF add
  <2>1. /\ old \o add \in Seq(Result) /\ Len(old \o add) = Len(old) + Len(add)
        /\ \A i \in 1..(Len(old) + Len(add)) :
             (old \o add)[i] = IF i <= Len(old) THEN old[i] ELSE add[i - Len(old)]
    BY <1>3, Joined
  <2> QED BY <2>1, <1>3, <1>10
<1> HIDE DEF add, all
<1>6. DOMAIN all = 1..(Len(old) + Len(new))
  BY <1>5
<1>7. \A i \in 1..Len(old) : all[i] = old[i]
  BY <1>1, <1>5
<1>8. ASSUME NEW i \in DOMAIN all, i > Len(old)
      PROVE  i - Len(old) \in 1..Len(new) /\ all[i] = add[i - Len(old)]
  BY <1>1, <1>5, <1>6, <1>8
<1>9. Continues(all, old, new, q, t, p)
  BY <1>1, <1>4, <1>5, <1>6, <1>7, <1>8 DEF Continues
<1> QED BY <1>9 DEF all

\* What `next_page` answers.
LEMMA NextPageOK ==
  ASSUME NEW s \in Side, s.failed => s.loaded < MaxPage
  PROVE  /\ NextPage(s) \in 0..MaxPage
         /\ NextPage(s) > 0 => s.pending = 0 /\ NextPage(s) = s.loaded + 1
         /\ NextPage(s) = 0 /\ s.pending = 0 => s.loaded > 0
<1>1. s.loaded \in Nat /\ s.loaded <= MaxPage /\ s.total \in Nat /\ s.pending \in Nat
  BY DiscoverAssumption DEF Side
<1>2. MaxPage \in Nat /\ MaxPage > 0
  BY DiscoverAssumption
<1>3. Min({s.total, MaxPage}) <= MaxPage
  <2>1. \E x \in {s.total, MaxPage} : \A y \in {s.total, MaxPage} : x =< y
    BY <1>1, <1>2
  <2> QED BY <2>1, <1>1, <1>2 DEF Min
<1>4. Min({s.total, MaxPage}) \in Nat
  <2>1. \E x \in {s.total, MaxPage} : \A y \in {s.total, MaxPage} : x =< y
    BY <1>1, <1>2
  <2> QED BY <2>1, <1>1, <1>2 DEF Min
<1> QED BY <1>1, <1>2, <1>3, <1>4 DEF NextPage

-----------------------------------------------------------------------------
LEMMA EmptySide == Empty \in Side
BY DiscoverAssumption DEF Empty, Side

LEMMA InitInv == Init => DiscoverInv
<1> SUFFICES ASSUME Init PROVE DiscoverInv
  OBVIOUS
<1>1. SearchOK
  <2>1. side \in [Kinds -> Side]
    BY EmptySide DEF Init
  <2>2. generation \in 0..MaxGeneration
    BY DiscoverAssumption DEF Init
  <2> QED BY <2>1, <2>2 DEF Init, SearchOK
<1>2. ViewOK
  BY DEF Init, ViewOK
<1>3. NotLater /\ WaitsForSomething
  BY DEF Init, NotLater, WaitsForSomething, Empty
<1>4. PagesInOrder
  <2>1. ~waiting /\ token = NoToken /\ \A k \in Kinds : side[k] = Empty
    BY DEF Init
  <2>2. Empty.pending = 0 /\ ~Empty.failed
    BY DEF Empty
  <2> QED BY <2>1, <2>2 DEF PagesInOrder
<1>5. CurrentSearchOnly /\ ListedOnce
  BY DEF Init, CurrentSearchOnly, ListedOnce, Empty
<1>6. BadgesAreTrue
  <2>1. \A k \in Kinds : IdsOf(side[k]) = {}
    BY DEF Init, IdsOf, Empty
  <2>2. \A t \in Title : t[1] \in Kinds
    BY DEF Title
  <2> QED BY <2>1, <2>2 DEF Init, BadgesAreTrue, Listed
<1> QED BY <1>1, <1>2, <1>3, <1>4, <1>5, <1>6 DEF DiscoverInv, SearchInv

\* An edit or a change of token: nothing in flight has the new generation.
LEMMA RestartInv ==
  ASSUME SearchInv, Restart, generation < MaxGeneration, requests' = requests,
         token' \in Tokens \cup {NoToken}, query' \in Queries \cup {Blank}
  PROVE  SearchInv'
<1> USE DEF SearchInv
<1>1. /\ generation \in Nat /\ generation' = generation + 1 /\ generation' \in 0..MaxGeneration
      /\ waiting' \in BOOLEAN
      /\ \A k \in Kinds : side'[k] = Empty
  <2>1. generation \in Nat /\ generation' = generation + 1 /\ generation' \in 0..MaxGeneration
    BY DiscoverAssumption DEF Restart, SearchOK
  <2>2. waiting' \in BOOLEAN /\ \A k \in Kinds : side'[k] = Empty
    BY DEF Restart
  <2> QED BY <2>1, <2>2
<1>2. side' \in [Kinds -> Side]
  BY EmptySide DEF Restart
<1>3. timers' \subseteq 0..MaxGeneration
  BY <1>1 DEF Restart, SearchOK
<1>4. SearchOK'
  BY <1>1, <1>2, <1>3 DEF SearchOK
<1>5. \A r \in requests : r.generation \in Nat /\ r.generation <= generation
  BY DEF SearchOK, NotLater, Request
<1>6. NotLater'
  BY <1>1, <1>5 DEF NotLater
<1>7. WaitsForSomething'
  <2>1. waiting' => generation' \in timers'
    BY DEF Restart
  <2>2. \A r \in requests : r.generation # generation'
    BY <1>1, <1>5
  <2> QED BY <1>1, <2>1, <2>2 DEF WaitsForSomething, Empty
<1>8. PagesInOrder'
  <2>1. waiting' <=> token' # NoToken /\ query' # Blank
    BY DEF Restart
  <2>2. Empty.pending = 0 /\ ~Empty.failed
    BY DEF Empty
  <2>3. \A k \in Kinds : side'[k].pending \in {0, side'[k].loaded + 1} /\ ~side'[k].failed
    BY <1>1, <2>2
  <2> QED BY <1>1, <2>1, <2>3 DEF PagesInOrder
<1>9. CurrentSearchOnly' /\ ListedOnce'
  BY <1>1 DEF CurrentSearchOnly, ListedOnce, Empty
<1> QED BY <1>4, <1>6, <1>7, <1>8, <1>9

\* What sending pages does to the sides and to what is in flight.
Asked(k, page) ==
  [generation |-> generation, query |-> query, token |-> token, kind |-> k, page |-> page]

\* The debounce timer of the current search and "Load more": a page after the
\* last one, for sides that wait for none.
LEMMA SendInv ==
  ASSUME SearchInv, NEW pages \in [Kinds -> 0..MaxPage], Pend(pages), Send(pages),
         UNCHANGED <<token, query, generation>>, waiting' = FALSE, timers' \subseteq timers,
         token # NoToken, query # Blank,
         \A k \in Kinds :
           /\ pages[k] > 0 => side[k].pending = 0 /\ pages[k] = side[k].loaded + 1
           /\ pages[k] = 0 => side[k].pending > 0 \/ side[k].loaded > 0 \/ side[k].failed
  PROVE  SearchInv'
<1> USE DEF SearchInv
<1>1. ASSUME NEW k \in Kinds
      PROVE  /\ side[k] \in Side /\ pages[k] \in Nat /\ side'[k] \in Side
             /\ side'[k].loaded = side[k].loaded /\ side'[k].results = side[k].results
             /\ side'[k].failed = side[k].failed
             /\ pages[k] > 0 => side'[k].pending = pages[k]
             /\ pages[k] = 0 => side'[k].pending = side[k].pending
  <2>1. side[k] \in Side /\ pages[k] \in 0..MaxPage
    BY DEF SearchOK
  <2>2. side'[k] = IF pages[k] > 0 THEN [side[k] EXCEPT !.pending = pages[k]] ELSE side[k]
    BY DEF Pend
  <2>3. CASE pages[k] > 0
    BY <2>1, <2>2, <2>3 DEF Side
  <2>4. CASE pages[k] = 0
    BY <2>1, <2>2, <2>4 DEF Side
  <2> QED BY <2>1, <2>3, <2>4, DiscoverAssumption
<1>2. side' \in [Kinds -> Side]
  BY <1>1 DEF Pend
<1>3. /\ requests \subseteq requests'
      /\ \A k \in Kinds : pages[k] > 0 => Asked(k, pages[k]) \in requests'
      /\ \A r \in requests' :
           r \in requests \/ \E k \in Kinds : pages[k] > 0 /\ r = Asked(k, pages[k])
  BY DEF Send, Asked
<1>4. \A k \in Kinds : pages[k] > 0 => Asked(k, pages[k]) \in Request
  <2> SUFFICES ASSUME NEW k \in Kinds, pages[k] > 0 PROVE Asked(k, pages[k]) \in Request
    OBVIOUS
  <2>1. pages[k] \in 1..MaxPage
    BY DiscoverAssumption
  <2>2. token \in Tokens /\ query \in Queries /\ generation \in 0..MaxGeneration
    BY DEF SearchOK
  <2> QED BY <2>1, <2>2 DEF Asked, Request
<1>5. requests' \subseteq Request
  BY <1>3, <1>4 DEF SearchOK
<1>6. SearchOK'
  <2>1. timers' \subseteq 0..MaxGeneration /\ waiting' \in BOOLEAN
    BY DEF SearchOK
  <2> QED BY <1>2, <1>5, <2>1 DEF SearchOK
<1>7. \A k \in Kinds : Asked(k, pages[k]).generation = generation /\ Asked(k, pages[k]).kind = k
  BY DEF Asked
<1>8. NotLater'
  BY <1>3, <1>7, DiscoverAssumption DEF NotLater, SearchOK
<1>9. WaitsForSomething'
  <2> SUFFICES ASSUME NEW k \in Kinds
               PROVE  {r \in requests' : r.generation = generation /\ r.kind = k} =
                        IF side'[k].pending = 0 THEN {} ELSE {Asked(k, side'[k].pending)}
    BY DEF WaitsForSomething, Asked
  <2>1. {r \in requests : r.generation = generation /\ r.kind = k} =
          IF side[k].pending = 0 THEN {} ELSE {Asked(k, side[k].pending)}
    BY DEF WaitsForSomething, Asked
  <2>2. CASE pages[k] > 0
    <3>1. side[k].pending = 0 /\ side'[k].pending = pages[k] /\ side'[k].pending # 0
      BY <1>1, <2>2
    <3> QED BY <3>1, <2>1, <2>2, <1>3, <1>7
  <2>3. CASE pages[k] = 0
    <3>1. side'[k].pending = side[k].pending
      BY <1>1, <2>3
    <3> QED BY <3>1, <2>1, <2>3, <1>3, <1>7
  <2> QED BY <2>2, <2>3, <1>1
<1>10. PagesInOrder'
  <2>1. ASSUME NEW k \in Kinds
        PROVE  /\ side'[k].pending \in {0, side'[k].loaded + 1}
               /\ side'[k].pending > 0 \/ side'[k].loaded > 0 \/ side'[k].failed
    <3>1. CASE pages[k] > 0
      BY <1>1, <3>1
    <3>2. CASE pages[k] = 0
      BY <1>1, <3>2 DEF PagesInOrder
    <3> QED BY <1>1, <3>1, <3>2
  <2>2. ASSUME NEW k \in Kinds PROVE side'[k].failed => side'[k].loaded < MaxPage
    BY <1>1 DEF PagesInOrder
  <2> QED BY <2>1, <2>2 DEF PagesInOrder
<1>11. CurrentSearchOnly' /\ ListedOnce'
  BY <1>1 DEF CurrentSearchOnly, ListedOnce
<1> QED BY <1>6, <1>8, <1>9, <1>10, <1>11
-----------------------------------------------------------------------------
\* What is in flight for this generation is what the sides wait for: an answer
\* is current exactly when it has the generation, and then the side it is for
\* waits for it, with the query and the token in use.
LEMMA CurrentAnswer ==
  ASSUME SearchInv, NEW r \in requests, r.generation = generation
  PROVE  /\ Current(r) /\ r = Asked(r.kind, side[r.kind].pending)
         /\ r.kind \in Kinds /\ r.query = query /\ r.token = token
         /\ r.page = side[r.kind].loaded + 1 /\ r.page \in 1..MaxPage
         /\ r.query \in Queries /\ r.token \in Tokens
         /\ ~waiting /\ token # NoToken /\ query # Blank
<1> USE DEF SearchInv
<1>1. r \in Request /\ r.kind \in Kinds /\ r.page \in 1..MaxPage
      /\ r.query \in Queries /\ r.token \in Tokens
  BY DEF SearchOK, Request
<1>2. r \in IF side[r.kind].pending = 0 THEN {} ELSE {Asked(r.kind, side[r.kind].pending)}
  BY <1>1 DEF WaitsForSomething, Asked
<1>3. side[r.kind].pending # 0 /\ r = Asked(r.kind, side[r.kind].pending)
  BY <1>2
<1>4. r.page = side[r.kind].pending /\ r.query = query /\ r.token = token
  BY <1>3 DEF Asked
<1>5. side[r.kind].pending = side[r.kind].loaded + 1
  BY <1>1, <1>3 DEF PagesInOrder
<1>6. side[r.kind] # Empty
  BY <1>3 DEF Empty
<1>7. ~waiting /\ token # NoToken /\ query # Blank
  BY <1>1, <1>6 DEF PagesInOrder
<1> QED BY <1>1, <1>3, <1>4, <1>5, <1>7 DEF Current

\* An answer takes its request out of flight; the side it was for, if any,
\* waits no longer.
LEMMA TakenOut ==
  ASSUME SearchInv, NEW r \in requests, requests' = requests \ {r},
         token' = token, query' = query, generation' = generation,
         waiting' = waiting, timers' = timers, side' \in [Kinds -> Side],
         \A k \in Kinds : side'[k] = side[k] \/ (r.generation = generation /\ k = r.kind),
         r.generation = generation => side'[r.kind].pending = 0
  PROVE  SearchOK' /\ NotLater' /\ WaitsForSomething'
<1> USE DEF SearchInv
<1>1. SearchOK' /\ NotLater'
  BY DEF SearchOK, NotLater
<1>2. WaitsForSomething'
  <2>1. waiting' => generation' \in timers'
    BY DEF WaitsForSomething
  <2> SUFFICES ASSUME NEW k \in Kinds
               PROVE  {q \in requests' : q.generation = generation /\ q.kind = k} =
                        IF side'[k].pending = 0 THEN {} ELSE {Asked(k, side'[k].pending)}
    BY <2>1 DEF WaitsForSomething, Asked
  <2>2. {q \in requests : q.generation = generation /\ q.kind = k} =
          IF side[k].pending = 0 THEN {} ELSE {Asked(k, side[k].pending)}
    BY DEF WaitsForSomething, Asked
  <2>3. CASE r.generation = generation /\ k = r.kind
    BY <2>2, <2>3, CurrentAnswer
  <2>4. CASE ~(r.generation = generation /\ k = r.kind)
    BY <2>2, <2>4
  <2> QED BY <2>3, <2>4
<1> QED BY <1>1, <1>2

\* A page that arrives continues the side it was requested for.
LEMMA LoadedSide ==
  ASSUME SearchInv, NEW r \in requests, r.generation = generation,
         NEW answer \in Answers, NEW new \in Fresh(answer.ids, side[r.kind]),
         NEW s, s = Loaded(r, answer, new)
  PROVE  /\ s \in Side /\ s.pending = 0 /\ ~s.failed /\ s.loaded = side[r.kind].loaded + 1
         /\ \A i \in DOMAIN s.results :
              /\ s.results[i].query = query /\ s.results[i].token = token
              /\ s.results[i].page <= s.loaded
              /\ \A j \in 1..(i - 1) : s.results[j].page <= s.results[i].page
         /\ \A i, j \in DOMAIN s.results : s.results[i].id = s.results[j].id => i = j
<1> USE DEF SearchInv
<1> DEFINE o == side[r.kind]
<1>1. /\ r.kind \in Kinds /\ r.query = query /\ r.token = token
      /\ r.page = o.loaded + 1 /\ r.page \in 1..MaxPage
      /\ r.query \in Queries /\ r.token \in Tokens
  BY CurrentAnswer
<1>2. o \in Side
  BY <1>1 DEF SearchOK
<1>3. o.results \in Seq(Result) /\ o.loaded \in Nat
  BY <1>2, DiscoverAssumption DEF Side
<1>4. answer.ids \in Seq(Ids) /\ answer.total \in Nat
  BY DiscoverAssumption
<1>5. /\ new \in Seq(Ids)
      /\ \A i, j \in DOMAIN new : new[i] = new[j] => i = j
      /\ \A i \in DOMAIN new : new[i] \notin IdsOf(o)
  BY <1>2, <1>4, FreshOnce
<1>6. /\ s.loaded = r.page /\ s.total = answer.total /\ s.pending = 0 /\ s.failed = FALSE
      /\ s.results = o.results \o Listing(new, r.query, r.token, r.page)
      /\ s = [loaded |-> s.loaded, total |-> s.total, results |-> s.results,
              pending |-> s.pending, failed |-> s.failed]
  BY DEF Loaded, Listing
<1> DEFINE old == o.results
           all == s.results
           n == Len(old)
<1>7. /\ all \in Seq(Result)
      /\ DOMAIN old = 1..n /\ n \in Nat
      /\ DOMAIN new = 1..Len(new) /\ Len(new) \in Nat
      /\ DOMAIN all = 1..(n + Len(new))
      /\ \A i \in 1..n : all[i] = old[i]
      /\ \A i \in DOMAIN all : i > n =>
           /\ i - n \in DOMAIN new
           /\ all[i].id = new[i - n]
           /\ all[i].query = r.query /\ all[i].token = r.token
           /\ all[i].page = r.page
  <2>1. old \in Seq(Result) /\ all = old \o Listing(new, r.query, r.token, r.page)
    BY <1>3, <1>6
  <2>2. r.query \in Queries /\ r.token \in Tokens /\ r.page \in 1..MaxPage /\ new \in Seq(Ids)
    BY <1>1, <1>5
  <2>3. Continues(old \o Listing(new, r.query, r.token, r.page),
                  old, new, r.query, r.token, r.page)
    BY <2>1, <2>2, Appended
  <2> QED BY <2>1, <2>3 DEF Continues
<1>8. s \in Side
  <2>1. s.loaded \in 0..MaxPage /\ s.pending \in 0..MaxPage
    BY <1>1, <1>6, DiscoverAssumption
  <2>2. s.total \in Nat /\ s.results \in Seq(Result) /\ s.failed \in BOOLEAN
    BY <1>4, <1>6, <1>7
  <2>3. [loaded |-> s.loaded, total |-> s.total, results |-> s.results,
         pending |-> s.pending, failed |-> s.failed] \in Side
    BY <2>1, <2>2 DEF Side
  <2> QED BY <1>6, <2>3
<1>9. \A i \in 1..n :
        /\ old[i].query = query /\ old[i].token = token
        /\ old[i].page <= o.loaded /\ old[i].page \in Nat
        /\ \A j \in 1..(i - 1) : old[j].page <= old[i].page
  <2>1. \A i \in 1..n :
        /\ old[i].query = query /\ old[i].token = token
        /\ old[i].page <= o.loaded
        /\ \A j \in 1..(i - 1) : old[j].page <= old[i].page
    BY <1>1, <1>7 DEF CurrentSearchOnly
  <2>2. \A i \in 1..n : old[i].page \in Nat
    <3>1. \A i \in 1..n : old[i] \in Result
      BY <1>3, <1>7
    <3> QED BY <3>1, DiscoverAssumption DEF Result
  <2> QED BY <2>1, <2>2
<1>10. \A i, j \in 1..n : old[i].id = old[j].id => i = j
  BY <1>1, <1>7 DEF ListedOnce
<1>11. \A i \in 1..n : old[i].id \in IdsOf(o)
  BY <1>7 DEF IdsOf
<1>14. r.page \in Nat /\ r.page = s.loaded /\ r.page = o.loaded + 1
  BY <1>1, <1>6, DiscoverAssumption
<1> HIDE DEF o, old, n
<1>12. ASSUME NEW i \in DOMAIN s.results
       PROVE  /\ s.results[i].query = query /\ s.results[i].token = token
              /\ s.results[i].page <= s.loaded
              /\ \A j \in 1..(i - 1) : s.results[j].page <= s.results[i].page
  <2>1. CASE i <= n
    <3>1. s.results[i] = old[i] /\ i \in 1..n
      BY <2>1, <1>7
    <3>2. \A j \in 1..(i - 1) : s.results[j] = old[j]
      BY <2>1, <3>1, <1>7
    <3>3. old[i].page <= s.loaded
      BY <3>1, <1>3, <1>9, <1>14
    <3> QED BY <3>1, <3>2, <3>3, <1>9
  <2>2. CASE i > n
    <3>1. s.results[i].query = query /\ s.results[i].token = token /\ s.results[i].page = r.page
      BY <2>2, <1>1, <1>7
    <3>2. ASSUME NEW j \in 1..(i - 1) PROVE s.results[j].page <= r.page
      <4>1. CASE j <= n
        <5>1. s.results[j] = old[j] /\ j \in 1..n
          BY <4>1, <1>7
        <5> QED BY <5>1, <1>3, <1>9, <1>14
      <4>2. CASE j > n
        <5>1. j \in DOMAIN s.results
          BY <4>2, <1>7
        <5> QED BY <4>2, <5>1, <1>7, <1>14
      <4> QED BY <4>1, <4>2, <1>7
    <3> QED BY <3>1, <3>2, <1>14
  <2> QED BY <2>1, <2>2, <1>7
<1>13. ASSUME NEW i \in DOMAIN s.results, NEW j \in DOMAIN s.results,
              s.results[i].id = s.results[j].id
       PROVE  i = j
  <2>1. CASE i <= n /\ j <= n
    BY <2>1, <1>7, <1>10, <1>13
  <2>2. CASE i > n /\ j > n
    <3>1. i - n \in DOMAIN new /\ j - n \in DOMAIN new /\ new[i - n] = new[j - n]
      BY <2>2, <1>7, <1>13
    <3>2. i - n = j - n
      BY <3>1, <1>5
    <3> QED BY <3>2, <1>7
  <2>3. CASE i <= n /\ j > n
    BY <2>3, <1>5, <1>7, <1>11, <1>13
  <2>4. CASE i > n /\ j <= n
    BY <2>4, <1>5, <1>7, <1>11, <1>13
  <2> QED BY <2>1, <2>2, <2>3, <2>4, <1>7
<1> QED BY <1>1, <1>6, <1>8, <1>12, <1>13 DEF o

LEMMA AnswerInv ==
  ASSUME SearchInv, NEW r \in requests, Answered(r)
  PROVE  SearchInv'
<1> USE DEF SearchInv
<1>1. /\ requests' = requests \ {r} /\ timers' = timers
      /\ token' = token /\ query' = query /\ generation' = generation /\ waiting' = waiting
  BY DEF Answered
<1>2. CASE ~Current(r) /\ UNCHANGED side
  <2>1. r.generation # generation
    BY <1>2, CurrentAnswer
  <2>2. SearchOK' /\ NotLater' /\ WaitsForSomething'
    <3>1. side' \in [Kinds -> Side]
      BY <1>2 DEF SearchOK
    <3>2. \A k \in Kinds : side'[k] = side[k] \/ (r.generation = generation /\ k = r.kind)
      BY <1>2
    <3> HIDE DEF SearchInv
    <3> QED BY <1>1, <2>1, <3>1, <3>2, TakenOut
  <2>3. PagesInOrder' /\ CurrentSearchOnly' /\ ListedOnce'
    BY <1>1, <1>2 DEF PagesInOrder, CurrentSearchOnly, ListedOnce
  <2> QED BY <2>2, <2>3
<1>3. CASE Current(r) /\ side' = [side EXCEPT ![r.kind] = Failed(r)]
  <2>1. r.generation = generation
    BY <1>3 DEF Current
  <2>2. /\ r.kind \in Kinds /\ r.page = side[r.kind].loaded + 1 /\ r.page \in 1..MaxPage
        /\ ~waiting /\ token # NoToken /\ query # Blank
    BY <2>1, CurrentAnswer
  <2>3. side \in [Kinds -> Side] /\ side[r.kind] \in Side
    BY <2>2 DEF SearchOK
  <2>4. /\ side'[r.kind] \in Side /\ side'[r.kind].pending = 0 /\ side'[r.kind].failed
        /\ side'[r.kind].loaded = side[r.kind].loaded
        /\ side'[r.kind].results = side[r.kind].results
    <3>1. side'[r.kind] = [side[r.kind] EXCEPT !.pending = 0, !.failed = TRUE]
      BY <1>3, <2>2, <2>3 DEF Failed
    <3>2. 0 \in 0..MaxPage /\ TRUE \in BOOLEAN
      BY DiscoverAssumption
    <3> QED BY <2>3, <3>1, <3>2 DEF Side
  <2>5. \A k \in Kinds : k # r.kind => side'[k] = side[k]
    BY <1>3, <2>3
  <2>6. side' \in [Kinds -> Side]
    BY <1>3, <2>3, <2>4
  <2>7. SearchOK' /\ NotLater' /\ WaitsForSomething'
    <3>1. \A k \in Kinds : side'[k] = side[k] \/ (r.generation = generation /\ k = r.kind)
      BY <2>1, <2>5
    <3>2. r.generation = generation => side'[r.kind].pending = 0
      BY <2>4
    <3> HIDE DEF SearchInv
    <3> QED BY <1>1, <2>6, <3>1, <3>2, TakenOut
  <2>8. side[r.kind].loaded < MaxPage
    BY <2>2, <2>3, DiscoverAssumption DEF Side
  <2>9. PagesInOrder'
    BY <1>1, <2>2, <2>4, <2>5, <2>8 DEF PagesInOrder
  <2>10. CurrentSearchOnly' /\ ListedOnce'
    BY <1>1, <2>4, <2>5 DEF CurrentSearchOnly, ListedOnce
  <2> QED BY <2>7, <2>9, <2>10
<1>4. ASSUME Current(r), NEW answer \in Answers, NEW new \in Fresh(answer.ids, side[r.kind]),
             side' = [side EXCEPT ![r.kind] = Loaded(r, answer, new)]
      PROVE  SearchInv'
  <2>1. r.generation = generation
    BY <1>4 DEF Current
  <2>2. /\ r.kind \in Kinds /\ r.page \in 1..MaxPage
        /\ ~waiting /\ token # NoToken /\ query # Blank
    BY <2>1, CurrentAnswer
  <2>3. side \in [Kinds -> Side] /\ side[r.kind] \in Side
    BY <2>2 DEF SearchOK
  <2> DEFINE s == side'[r.kind]
  <2>4. s = Loaded(r, answer, new)
    BY <1>4, <2>2, <2>3
  <2>5. /\ s \in Side /\ s.pending = 0 /\ ~s.failed /\ s.loaded = side[r.kind].loaded + 1
        /\ \A i \in DOMAIN s.results :
             /\ s.results[i].query = query /\ s.results[i].token = token
             /\ s.results[i].page <= s.loaded
             /\ \A j \in 1..(i - 1) : s.results[j].page <= s.results[i].page
        /\ \A i, j \in DOMAIN s.results : s.results[i].id = s.results[j].id => i = j
    <3> HIDE DEF s
    <3> QED BY <2>1, <2>4, LoadedSide
  <2>6. \A k \in Kinds : k # r.kind => side'[k] = side[k]
    BY <1>4, <2>3
  <2>7. side' \in [Kinds -> Side]
    BY <1>4, <2>3, <2>5
  <2>8. SearchOK' /\ NotLater' /\ WaitsForSomething'
    <3>1. \A k \in Kinds : side'[k] = side[k] \/ (r.generation = generation /\ k = r.kind)
      BY <2>1, <2>6
    <3>2. r.generation = generation => side'[r.kind].pending = 0
      BY <2>5
    <3> HIDE DEF SearchInv
    <3> QED BY <1>1, <2>7, <3>1, <3>2, TakenOut
  <2>9. side[r.kind].loaded \in Nat
    BY <2>3, DiscoverAssumption DEF Side
  <2>10. PagesInOrder'
    BY <1>1, <2>2, <2>5, <2>6, <2>9 DEF PagesInOrder
  <2>11. CurrentSearchOnly'
    BY <1>1, <2>5, <2>6 DEF CurrentSearchOnly
  <2>12. ListedOnce'
    BY <2>5, <2>6 DEF ListedOnce
  <2> QED BY <2>8, <2>10, <2>11, <2>12
<1> QED BY <1>2, <1>3, <1>4 DEF Answered
-----------------------------------------------------------------------------
\* What every handler's rendering makes of the page: equal lists list the same
\* titles, so that memberships need no second look.
LEMMA ShownListed ==
  ASSUME NEW a \in [Kinds -> Side], NEW b \in [Kinds -> Side], Shown(a) = Shown(b)
  PROVE  Listed(a) = Listed(b)
<1>1. ASSUME NEW k \in Kinds PROVE IdsOf(a[k]) = IdsOf(b[k])
  <2>1. [i \in DOMAIN a[k].results |-> a[k].results[i].id] =
        [i \in DOMAIN b[k].results |-> b[k].results[i].id]
    BY DEF Shown
  <2>2. /\ DOMAIN a[k].results = DOMAIN b[k].results
        /\ \A i \in DOMAIN a[k].results : a[k].results[i].id = b[k].results[i].id
    BY <2>1
  <2> QED BY <2>2 DEF IdsOf
<1> QED BY <1>1 DEF Listed, Title

LEMMA TopListed ==
  ASSUME NEW ss \in [Kinds -> Side], Top(ss) # None
  PROVE  Top(ss) \in Listed(ss)
<1>1. ASSUME NEW k \in Kinds, ss[k].results # <<>>
      PROVE  <<k, ss[k].results[1].id>> \in Listed(ss)
  <2>1. ss[k].results \in Seq(Result)
    BY DEF Side
  <2>2. 1 \in DOMAIN ss[k].results /\ ss[k].results[1] \in Result
    BY <1>1, <2>1
  <2>3. ss[k].results[1].id \in IdsOf(ss[k]) /\ ss[k].results[1].id \in Ids
    BY <2>2 DEF IdsOf, Result
  <2> QED BY <2>3 DEF Listed, Title
<1> QED BY <1>1 DEF Top, Kinds

LEMMA RenderInv ==
  ASSUME SearchOK, SearchOK', ViewOK, BadgesAreTrue, NEW changed \in BOOLEAN,
         NEW chosen, NEW byUser, Render(changed, chosen, byUser),
         library' \subseteq Title, library' # library => changed
  PROVE  /\ ViewOK' /\ BadgesAreTrue'
         /\ selected' # None => selected' \in Listed(side')
         /\ byUser /\ chosen \in Listed(side') => selected' = chosen
<1>1. Listed(side') \subseteq Title
  BY DEF Listed
<1>2. side \in [Kinds -> Side] /\ side' \in [Kinds -> Side]
  BY DEF SearchOK
<1>4. selected' # None => selected' \in Listed(side')
  BY <1>2, TopListed DEF Render
<1>5. byUser /\ chosen \in Listed(side') => selected' = chosen
  BY DEF Render
<1>6. BadgesAreTrue'
  <2>1. CASE changed \/ Shown(side') # Shown(side)
    BY <2>1 DEF Render, BadgesAreTrue
  <2>2. CASE ~(changed \/ Shown(side') # Shown(side))
    BY <2>2, <1>2, ShownListed DEF Render, BadgesAreTrue
  <2> QED BY <2>1, <2>2
<1>7. ViewOK'
  <2>1. picked' \in BOOLEAN
    BY DEF Render
  <2>2. inLibrary' \subseteq Title
    BY <1>1, <1>6 DEF BadgesAreTrue
  <2> QED BY <1>1, <1>4, <2>1, <2>2 DEF ViewOK
<1> QED BY <1>4, <1>5, <1>6, <1>7
-----------------------------------------------------------------------------
\* What ChoiceStays says of a step.
ChoiceStep ==
  /\ selected' # None => selected' \in Listed(side')
  /\ picked /\ selected' # selected
       => selected \notin Listed(side') \/ \E t \in Title : Select(t)

LEMMA EditStep ==
  ASSUME DiscoverInv, NEW text \in Queries \cup {Blank}, Edit(text)
  PROVE  DiscoverInv' /\ ChoiceStep
<1> USE DEF DiscoverInv
<1>1. SearchInv'
  BY RestartInv DEF Edit, SearchInv, SearchOK
<1>2. SearchOK /\ SearchOK'
  BY <1>1 DEF SearchInv
<1>3. Render(FALSE, selected, picked) /\ library' = library /\ library \subseteq Title
  BY DEF Edit, ViewOK
<1>4. ViewOK' /\ BadgesAreTrue' /\ ChoiceStep
  BY <1>2, <1>3, RenderInv DEF ChoiceStep
<1> QED BY <1>1, <1>4

LEMMA SetTokenStep ==
  ASSUME DiscoverInv, NEW t \in Tokens \cup {NoToken}, SetToken(t)
  PROVE  DiscoverInv' /\ ChoiceStep
<1> USE DEF DiscoverInv
<1>1. SearchInv'
  BY RestartInv DEF SetToken, SearchInv, SearchOK
<1>2. SearchOK /\ SearchOK'
  BY <1>1 DEF SearchInv
<1>3. /\ Render(FALSE, IF t = NoToken THEN None ELSE selected, picked)
      /\ library' = library /\ library \subseteq Title
  BY DEF SetToken, ViewOK
<1>4. ViewOK' /\ BadgesAreTrue' /\ (selected' # None => selected' \in Listed(side'))
  BY <1>2, <1>3, RenderInv
<1>5. Listed(side') = {}
  <2>1. \A k \in Kinds : side'[k] = Empty
    BY DEF SetToken, Restart
  <2> QED BY <2>1 DEF Listed, Title, IdsOf, Empty
<1> QED BY <1>1, <1>4, <1>5 DEF ChoiceStep

LEMMA TimerStep ==
  ASSUME DiscoverInv, NEW g \in timers, TimerFires(g)
  PROVE  DiscoverInv' /\ ChoiceStep
<1> USE DEF DiscoverInv
<1>1. SearchInv'
  <2>1. CASE waiting /\ g = generation
    <3> DEFINE first == [k \in Kinds |-> 1]
    <3>1. waiting' = FALSE /\ Pend(first) /\ Send(first)
      BY <2>1 DEF TimerFires
    <3>2. first \in [Kinds -> 0..MaxPage]
      BY DiscoverAssumption
    <3>3. token # NoToken /\ query # Blank /\ \A k \in Kinds : side[k] = Empty
      BY <2>1 DEF SearchInv, PagesInOrder
    <3>4. \A k \in Kinds : /\ first[k] > 0 => side[k].pending = 0 /\ first[k] = side[k].loaded + 1
                           /\ first[k] # 0
      BY <3>3 DEF Empty
    <3>5. UNCHANGED <<token, query, generation>> /\ timers' \subseteq timers
      BY DEF TimerFires
    <3> HIDE DEF first
    <3> QED BY <3>1, <3>2, <3>3, <3>4, <3>5, SendInv
  <2>2. CASE ~(waiting /\ g = generation)
    <3>1. /\ UNCHANGED <<token, query, generation, waiting, side, requests>>
          /\ timers' = timers \ {g}
      BY <2>2 DEF TimerFires
    <3>2. SearchOK' /\ NotLater' /\ PagesInOrder'
      BY <3>1 DEF SearchInv, SearchOK, NotLater, PagesInOrder
    <3>3. WaitsForSomething'
      BY <3>1, <2>2 DEF SearchInv, WaitsForSomething
    <3>4. CurrentSearchOnly' /\ ListedOnce'
      BY <3>1 DEF SearchInv, CurrentSearchOnly, ListedOnce
    <3> QED BY <3>2, <3>3, <3>4 DEF SearchInv
  <2> QED BY <2>1, <2>2
<1>2. SearchOK /\ SearchOK'
  BY <1>1 DEF SearchInv
<1>3. Render(FALSE, selected, picked) /\ library' = library /\ library \subseteq Title
  BY DEF TimerFires, ViewOK
<1>4. ViewOK' /\ BadgesAreTrue' /\ ChoiceStep
  BY <1>2, <1>3, RenderInv DEF ChoiceStep
<1> QED BY <1>1, <1>4

LEMMA LoadMoreStep ==
  ASSUME DiscoverInv, LoadMore
  PROVE  DiscoverInv' /\ ChoiceStep
<1> USE DEF DiscoverInv
<1> DEFINE next == [k \in Kinds |-> NextPage(side[k])]
<1>1. /\ token # NoToken /\ query # Blank /\ ~waiting /\ Pend(next) /\ Send(next)
      /\ \A k \in Kinds : ~(side[k].pending > 0)
      /\ UNCHANGED <<token, query, generation, waiting, timers, library>>
  BY DEF LoadMore, SearchView, CanLoadMore, Status, AnyPending
<1>2. ASSUME NEW k \in Kinds
      PROVE  /\ side[k] \in Side /\ side[k].pending = 0
             /\ next[k] \in 0..MaxPage
             /\ next[k] > 0 => side[k].pending = 0 /\ next[k] = side[k].loaded + 1
             /\ next[k] = 0 => side[k].loaded > 0
  <2>1. side[k] \in Side /\ side[k].failed => side[k].loaded < MaxPage
    BY DEF SearchInv, PagesInOrder
  <2>2. side[k] \in Side
    BY DEF SearchInv, SearchOK
  <2>3. side[k].pending = 0
    BY <1>1, <2>2, DiscoverAssumption DEF Side
  <2> QED BY <2>1, <2>2, <2>3, NextPageOK
<1>3. next \in [Kinds -> 0..MaxPage]
  BY <1>2
<1>4. SearchInv'
  <2>1. waiting \in BOOLEAN
    BY DEF SearchInv, SearchOK
  <2>2. waiting' = FALSE /\ timers' \subseteq timers /\ UNCHANGED <<token, query, generation>>
    BY <1>1, <2>1
  <2>3. \A k \in Kinds :
          /\ next[k] > 0 => side[k].pending = 0 /\ next[k] = side[k].loaded + 1
          /\ next[k] = 0 => side[k].pending > 0 \/ side[k].loaded > 0 \/ side[k].failed
    BY <1>2
  <2> HIDE DEF next
  <2> QED BY <1>1, <1>3, <2>2, <2>3, SendInv
<1>5. SearchOK /\ SearchOK'
  BY <1>4 DEF SearchInv
<1>6. Render(FALSE, selected, picked) /\ library' = library /\ library \subseteq Title
  BY DEF LoadMore, ViewOK
<1>7. ViewOK' /\ BadgesAreTrue' /\ ChoiceStep
  BY <1>5, <1>6, RenderInv DEF ChoiceStep
<1> QED BY <1>4, <1>7

LEMMA AnsweredStep ==
  ASSUME DiscoverInv, NEW r \in requests, Answered(r)
  PROVE  DiscoverInv' /\ ChoiceStep
<1> USE DEF DiscoverInv
<1>1. SearchInv'
  BY AnswerInv
<1>2. SearchOK /\ SearchOK'
  BY <1>1 DEF SearchInv
<1>3. Render(FALSE, selected, picked) /\ library' = library /\ library \subseteq Title
  BY DEF Answered, ViewOK
<1>4. ViewOK' /\ BadgesAreTrue' /\ ChoiceStep
  BY <1>2, <1>3, RenderInv DEF ChoiceStep
<1> QED BY <1>1, <1>4

\* Selecting and the Library leave the search alone.
LEMMA SearchKept ==
  ASSUME SearchInv, UNCHANGED <<token, controller, timers, requests>>
  PROVE  SearchInv'
<1> USE DEF SearchInv, controller
<1>1. SearchOK' /\ NotLater' /\ PagesInOrder'
  BY DEF SearchOK, NotLater, PagesInOrder
<1>2. WaitsForSomething' /\ CurrentSearchOnly' /\ ListedOnce'
  BY DEF WaitsForSomething, CurrentSearchOnly, ListedOnce
<1> QED BY <1>1, <1>2

LEMMA LibraryStep ==
  ASSUME DiscoverInv,
         \/ \E t \in Title : Select(t)
         \/ AddToLibrary
         \/ \E t \in Title : RemoveFromLibrary(t)
  PROVE  DiscoverInv' /\ ChoiceStep
<1> USE DEF DiscoverInv
<1>1. SearchInv'
  BY SearchKept DEF Select, AddToLibrary, RemoveFromLibrary
<1>2. SearchOK /\ SearchOK' /\ library \subseteq Title
  BY <1>1 DEF SearchInv, ViewOK
<1>3. ASSUME NEW t \in Title, Select(t) PROVE ViewOK' /\ BadgesAreTrue' /\ ChoiceStep
  <2>1. Render(FALSE, t, TRUE) /\ library' = library
    BY <1>3 DEF Select
  <2> QED BY <1>2, <1>3, <2>1, RenderInv DEF ChoiceStep
<1>4. CASE AddToLibrary
  <2>1. Render(TRUE, selected, picked) /\ library' \subseteq Title
    BY <1>2, <1>4 DEF AddToLibrary, ViewOK
  <2> QED BY <1>1, <1>2, <2>1, RenderInv DEF ChoiceStep
<1>5. ASSUME NEW t \in Title, RemoveFromLibrary(t) PROVE ViewOK' /\ BadgesAreTrue' /\ ChoiceStep
  <2>1. Render(TRUE, selected, picked) /\ library' \subseteq Title
    BY <1>2, <1>5 DEF RemoveFromLibrary
  <2> QED BY <1>2, <2>1, RenderInv DEF ChoiceStep
<1> QED BY <1>1, <1>3, <1>4, <1>5

LEMMA NextStep == DiscoverInv /\ Next => DiscoverInv' /\ ChoiceStep
BY EditStep, SetTokenStep, TimerStep, LoadMoreStep, AnsweredStep, LibraryStep DEF Next

LEMMA StutterStep ==
  ASSUME DiscoverInv, UNCHANGED vars
  PROVE  DiscoverInv'
<1> USE DEF DiscoverInv, vars
<1>1. SearchInv'
  BY SearchKept DEF controller
<1>2. ViewOK' /\ BadgesAreTrue'
  BY DEF ViewOK, BadgesAreTrue, controller
<1> QED BY <1>1, <1>2
-----------------------------------------------------------------------------
\* The search, the selection and the badges hold together in every reachable
\* state, whatever order edits, timers and answers come in.
THEOREM DiscoverInductive == Spec => []DiscoverInv
<1>1. DiscoverInv /\ [Next]_vars => DiscoverInv'
  BY NextStep, StutterStep
<1> QED BY InitInv, <1>1, PTL DEF Spec

\* No page beyond TMDB's limit, no request without a query or a token.
THEOREM DiscoverTypes == Spec => []TypeOK
<1>1. DiscoverInv => TypeOK
  BY DEF DiscoverInv, SearchInv, TypeOK
<1> QED BY DiscoverInductive, <1>1, PTL

\* Nothing from an earlier query or token is ever listed.
THEOREM NoStaleResults == Spec => []CurrentSearchOnly
<1>1. DiscoverInv => CurrentSearchOnly
  BY DEF DiscoverInv, SearchInv
<1> QED BY DiscoverInductive, <1>1, PTL

\* No title is listed twice, however TMDB moves it between pages.
THEOREM NoDuplicates == Spec => []ListedOnce
<1>1. DiscoverInv => ListedOnce
  BY DEF DiscoverInv, SearchInv
<1> QED BY DiscoverInductive, <1>1, PTL

\* What the search waits for is in flight exactly once.
THEOREM SpinnerIsTrue == Spec => []WaitsForSomething
<1>1. DiscoverInv => WaitsForSomething
  BY DEF DiscoverInv, SearchInv
<1> QED BY DiscoverInductive, <1>1, PTL

\* "No results" is never said before TMDB has, and nothing that is missing at
\* rest is out of the user's reach.
THEOREM EmptyIsTrue == Spec => []NoResultsIsTrue
<1>1. DiscoverInv => NoResultsIsTrue
  <2> SUFFICES ASSUME DiscoverInv PROVE NoResultsIsTrue
    OBVIOUS
  <2>1. ASSUME NEW k \in Kinds, ~AnyPending
        PROVE  side[k] \in Side /\ side[k].pending = 0
    <3>1. side[k] \in Side
      BY DEF DiscoverInv, SearchInv, SearchOK
    <3> QED BY <2>1, <3>1, DiscoverAssumption DEF Side, AnyPending
  <2>2. ASSUME Status = "no results", NEW k \in Kinds
        PROVE  side[k].loaded > 0 /\ ~side[k].failed
    <3>1. token # NoToken /\ query # Blank /\ ~waiting /\ ~AnyPending /\ ~side[k].failed
      BY <2>2 DEF Status
    <3>2. side[k].pending > 0 \/ side[k].loaded > 0 \/ side[k].failed
      BY <3>1 DEF DiscoverInv, SearchInv, PagesInOrder
    <3> QED BY <2>1, <3>1, <3>2
  <2>3. ASSUME Status = "results", ~AnyPending,
               NEW k \in Kinds, side[k].failed \/ side[k].loaded = 0
        PROVE  CanLoadMore
    <3>1. side[k] \in Side /\ side[k].pending = 0
      BY <2>1, <2>3
    <3>2. NextPage(side[k]) = side[k].loaded + 1
      BY <2>3, <3>1 DEF NextPage
    <3>3. side[k].loaded \in Nat
      BY <3>1, DiscoverAssumption DEF Side
    <3>4. NextPage(side[k]) > 0
      BY <3>2, <3>3
    <3> QED BY <2>3, <3>4 DEF CanLoadMore
  <2>4. SearchView.shows = Status /\ SearchView.loadMore = CanLoadMore
        /\ SearchView.tryAgain = (Status = "failed")
        /\ (SearchView.shows = "results" /\ ~SearchView.spinner => ~AnyPending)
    BY DEF SearchView
  <2>5. Status = "no results" => \A k \in Kinds : side[k].loaded > 0
    BY <2>2
  <2>6. ASSUME SearchView.shows \in {"results", "failed", "no results"}, ~SearchView.spinner,
               NEW k \in Kinds, side[k].failed \/ side[k].loaded = 0
        PROVE  SearchView.loadMore \/ SearchView.tryAgain
    <3>1. CASE Status = "results"
      BY <2>3, <2>4, <2>6, <3>1
    <3>2. CASE Status = "failed"
      BY <2>4, <3>2
    <3>3. CASE Status = "no results"
      <4>1. side[k].loaded > 0 /\ ~side[k].failed
        BY <2>2, <3>3
      <4>2. ~(side[k].loaded = 0)
        BY <4>1
      <4> QED BY <2>6, <4>1, <4>2
    <3> QED BY <2>4, <2>6, <3>1, <3>2, <3>3
  <2> QED BY <2>4, <2>5, <2>6 DEF NoResultsIsTrue
<1> QED BY DiscoverInductive, <1>1, PTL

\* Membership looked up only when something changed is never out of date.
THEOREM BadgesStayTrue == Spec => []BadgesAreTrue
<1>1. DiscoverInv => BadgesAreTrue
  BY DEF DiscoverInv
<1> QED BY DiscoverInductive, <1>1, PTL

\* The preview shows a listed title, and a picked one stays while listed.
THEOREM ChoiceIsKept == Spec => ChoiceStays
<1>1. DiscoverInv /\ Next => ChoiceStep
  BY NextStep
<1>2. DiscoverInv /\ [Next]_vars
        => [/\ selected' # None => selected' \in Listed(side')
            /\ picked /\ selected' # selected
                 => selected \notin Listed(side') \/ \E t \in Title : Select(t)]_vars
  BY <1>1 DEF ChoiceStep
<1> QED BY DiscoverInductive, <1>2, PTL DEF Spec, ChoiceStays
=============================================================================
