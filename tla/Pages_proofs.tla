---------------------------- MODULE Pages_proofs ----------------------------
(***************************************************************************)
(* Proofs about Tracking and Pages, for any number of titles, episodes,    *)
(* events, limits and ranges and a clock that may be set back: history is  *)
(* a log, statistics agree with it, the pane is about what is chosen, and  *)
(* what is on screen is what the tables say.                               *)
(***************************************************************************)
EXTENDS Pages, FiniteSetTheorems, NaturalsInduction, WellFoundedInduction, TLAPS

\* What is known of the history: ids were given out once, up to lastId.
LogInv ==
  /\ watchedAt \in [Targets -> Nat \cup {None}] /\ lastId \in Nat /\ now \in Nat
  /\ \A e \in events : e.id \in 1..lastId
  /\ \A e, f \in events : e.id = f.id => e = f

\* A step of the window as the history sees it.
TrackingStep ==
  \/ \E x \in Targets, again \in BOOLEAN : Watch(x, again)
  \/ \E x \in Targets : Unwatch(x)
  \/ \E s \in Series : WatchSeason(s) \/ UnwatchSeason(s)
  \/ \E id : Delete(id)
  \/ \E x \in Targets : \E row : Refresh(x, row)
  \/ Clock
  \/ UNCHANGED tracking

\* What HistoryStays says of a step.
Logged ==
  LET new == events' \ events
      lost == events \ events'
  IN  /\ lost # {} => Cardinality(lost) = 1 /\ new = {} /\ UNCHANGED <<watchedAt, runtime>>
      /\ \A e \in new : e.id > lastId /\ watchedAt'[e.target] = e.at
      /\ \A x \in Targets : watchedAt'[x] \notin {watchedAt[x], None} =>
           Cardinality({e \in new : e.target = x}) = 1
-----------------------------------------------------------------------------
\* Every handler of the window is a step of the tracking tables, or none.
LEMMA WindowTracks == ASSUME Next PROVE TrackingStep
<1>1. CASE Navigate
  BY <1>1 DEF Navigate, OpenPage, Search, SelectRow, OpenFromHome, OpenFromDiscover,
       OpenFromHistory, OpenFromUpdates, ShiftMonth, SelectDay, OpenFromCalendar, OpenMedia,
       TrackingStep
<1>2. CASE Change
  <2>1. CASE (\E t \in Titles : AddTitle(t)) \/ RemoveTitle \/ MarkAllRead
    BY <2>1 DEF AddTitle, RemoveTitle, MarkAllRead, TrackingStep
  <2>2. CASE \E x \in Targets : Toggle(x)
    BY <2>2 DEF Toggle, TrackingStep
  <2>3. CASE \E m \in Movies : WatchAgain(m)
    BY <2>3 DEF WatchAgain, TrackingStep, Targets
  <2>4. CASE \E s \in Series, watched \in BOOLEAN : ToggleSeason(s, watched)
    BY <2>4 DEF ToggleSeason, TrackingStep
  <2>5. CASE \E e \in events : DeleteEntry(e)
    BY <2>5 DEF DeleteEntry, TrackingStep
  <2> QED
    BY <1>2, <2>1, <2>2, <2>3, <2>4, <2>5 DEF Change
<1>3. CASE AnswerArrives
  BY <1>3 DEF AnswerArrives, Answer, TrackingStep
<1>4. CASE TimePasses
  BY <1>4 DEF TimePasses, TrackingStep
<1> QED
  BY <1>1, <1>2, <1>3, <1>4 DEF Next
-----------------------------------------------------------------------------
\* What a set of targets recorded together needs: places of their own.
Placed(xs) ==
  /\ IsFiniteSet(xs) /\ xs \subseteq Targets
  /\ \A x \in xs : Place(x, xs) \in 1..Cardinality(xs)
  /\ \A x, y \in xs : Place(x, xs) = Place(y, xs) => x = y

LEMMA OnePlaced == ASSUME NEW x \in Targets PROVE Placed({x})
<1>1. IsFiniteSet({x}) /\ Cardinality({x}) = 1
  BY FS_Singleton
<1>2. Place(x, {x}) = 1
  <2>1. CASE x \in Movies
    BY <2>1 DEF Place
  <2>2. CASE x \notin Movies
    <3>1. x[2] \in Nat
      BY <2>2, TrackingAssumption DEF Targets
    <3>2. {y \in {x} : y[2] <= x[2]} = {x}
      BY <3>1
    <3> QED
      BY <1>1, <2>2, <3>2 DEF Place
  <2> QED
    BY <2>1, <2>2
<1> QED
  BY <1>1, <1>2 DEF Placed

\* Episodes of one series take their places in episode order.
LEMMA SeasonPlaced ==
  ASSUME NEW s, NEW xs \in SUBSET Episodes, \A x \in xs : x[1] = s
  PROVE  Placed(xs)
<1> DEFINE upTo(x) == {y \in xs : y[2] <= x[2]}
<1>1. IsFiniteSet(xs)
  BY TrackingAssumption, FS_Subset
<1>2. \A x \in xs : x = <<s, x[2]>> /\ x[2] \in Nat /\ x \notin Movies
  BY TrackingAssumption
<1>3. \A x \in xs : Place(x, xs) = Cardinality(upTo(x))
  BY <1>2 DEF Place
<1>4. \A x \in xs : IsFiniteSet(upTo(x)) /\ Cardinality(upTo(x)) \in Nat /\ upTo(x) \subseteq xs
  BY <1>1, FS_Subset, FS_CardinalityType
<1>5. \A x \in xs : Cardinality(upTo(x)) \in 1..Cardinality(xs)
  <2> TAKE x \in xs
  <2>1. x \in upTo(x)
    BY <1>2
  <2>2. Cardinality(upTo(x)) # 0
    BY <1>4, <2>1, FS_EmptySet
  <2>3. Cardinality(upTo(x)) <= Cardinality(xs) /\ Cardinality(xs) \in Nat
    BY <1>1, <1>4, FS_Subset, FS_CardinalityType
  <2> QED
    BY <1>4, <2>2, <2>3
<1>6. ASSUME NEW x \in xs, NEW y \in xs, x[2] < y[2]
      PROVE  Cardinality(upTo(x)) # Cardinality(upTo(y))
  <2>1. upTo(x) \subseteq upTo(y)
    BY <1>2, <1>6
  <2>2. y \in upTo(y) /\ y \notin upTo(x)
    BY <1>2, <1>6
  <2>3. upTo(x) # upTo(y)
    BY <2>2
  <2> QED
    BY <1>4, <2>1, <2>3, FS_Subset
<1>7. ASSUME NEW x \in xs, NEW y \in xs, Cardinality(upTo(x)) = Cardinality(upTo(y))
      PROVE  x = y
  <2>1. ~(x[2] < y[2]) /\ ~(y[2] < x[2])
    BY <1>6, <1>7
  <2>2. x[2] = y[2]
    BY <1>2, <2>1
  <2> QED
    BY <1>2, <2>2
<1> HIDE DEF upTo
<1> QED
  BY <1>1, <1>3, <1>5, <1>7 DEF Placed, Targets
-----------------------------------------------------------------------------
EntryOf(x, xs) == [id |-> lastId + Place(x, xs), target |-> x, at |-> now, minutes |-> runtime[x]]

\* Recording adds one entry for each target, with an id of its own above all
\* ids given out before.
LEMMA RecordGrows ==
  ASSUME LogInv, NEW xs, Placed(xs), Record(xs)
  PROVE  /\ lastId' \in Nat /\ \A e \in events' : e.id \in 1..lastId'
         /\ \A e, f \in events' : e.id = f.id => e = f
         /\ events \subseteq events'
         /\ events' \ events = {EntryOf(x, xs) : x \in xs}
         /\ \A x \in xs : EntryOf(x, xs).id > lastId
<1>1. lastId \in Nat /\ lastId' = lastId + Cardinality(xs) /\ Cardinality(xs) \in Nat
  BY FS_CardinalityType DEF LogInv, Placed, Record
<1>2. events' = events \cup {EntryOf(x, xs) : x \in xs}
  BY DEF Record, EntryOf
<1>3. \A x \in xs : EntryOf(x, xs).id = lastId + Place(x, xs) /\ Place(x, xs) \in 1..Cardinality(xs)
  BY DEF EntryOf, Placed
<1>4. \A x \in xs : EntryOf(x, xs).id \in 1..lastId' /\ EntryOf(x, xs).id > lastId
  BY <1>1, <1>3
<1>5. \A e \in events : e.id \in 1..lastId' /\ ~(e.id > lastId)
  BY <1>1 DEF LogInv
<1>6. \A x, y \in xs : EntryOf(x, xs).id = EntryOf(y, xs).id => x = y
  <2> TAKE x, y \in xs
  <2> HAVE EntryOf(x, xs).id = EntryOf(y, xs).id
  <2>1. Place(x, xs) = Place(y, xs)
    BY <1>1, <1>3
  <2> QED
    BY <2>1 DEF Placed
<1> HIDE DEF EntryOf
<1>7. \A e, f \in events' : e.id = f.id => e = f
  BY <1>2, <1>4, <1>5, <1>6 DEF LogInv
<1>8. events' \ events = {EntryOf(x, xs) : x \in xs}
  BY <1>2, <1>4, <1>5
<1> QED
  BY <1>1, <1>2, <1>4, <1>5, <1>7, <1>8

\* Recording what is marked is as the log wants it.
LEMMA RecordLogs ==
  ASSUME LogInv, NEW xs, Placed(xs), Record(xs),
         \A x \in xs : watchedAt'[x] = now,
         \A x \in Targets \ xs : watchedAt'[x] \in {watchedAt[x], None}
  PROVE  Logged
<1>1. /\ events \subseteq events' /\ events' \ events = {EntryOf(x, xs) : x \in xs}
      /\ \A x \in xs : EntryOf(x, xs).id > lastId
  BY RecordGrows
<1>2. \A x \in xs : EntryOf(x, xs).target = x /\ EntryOf(x, xs).at = now
  BY DEF EntryOf
<1> HIDE DEF EntryOf
<1>3. events \ events' = {}
  BY <1>1
<1>4. \A e \in events' \ events : e.id > lastId /\ watchedAt'[e.target] = e.at
  BY <1>1, <1>2
<1>5. ASSUME NEW x \in Targets, watchedAt'[x] \notin {watchedAt[x], None}
      PROVE  Cardinality({e \in events' \ events : e.target = x}) = 1
  <2>1. x \in xs
    BY <1>5
  <2>2. {e \in events' \ events : e.target = x} = {EntryOf(x, xs)}
    BY <1>1, <1>2, <2>1
  <2> QED
    BY <2>2, FS_Singleton
<1> QED
  BY <1>3, <1>4, <1>5 DEF Logged

\* Steps that record nothing and mark nothing.
LEMMA QuietLogs ==
  ASSUME events' = events, \A x \in Targets : watchedAt'[x] \in {watchedAt[x], None}
  PROVE  Logged
  BY DEF Logged

\* One step keeps the log's invariant and is as the log wants it.
LEMMA StepLogs ==
  ASSUME LogInv, TrackingStep
  PROVE  LogInv' /\ Logged
<1> USE DEF LogInv
<1>1. ASSUME NEW x \in Targets, NEW again \in BOOLEAN, Watch(x, again) PROVE LogInv' /\ Logged
  <2>1. Placed({x}) /\ Record({x})
    BY <1>1, OnePlaced DEF Watch
  <2>2. watchedAt' = [watchedAt EXCEPT ![x] = now] /\ now' = now
    BY <1>1 DEF Watch
  <2>3. LogInv'
    BY <2>1, <2>2, RecordGrows
  <2>4. Logged
    BY <2>1, <2>2, RecordLogs
  <2> QED
    BY <2>3, <2>4
<1>2. ASSUME NEW s \in Series, WatchSeason(s) PROVE LogInv' /\ Logged
  <2> DEFINE new == Season(s) \ Watched
  <2>1. Placed(new)
    BY SeasonPlaced DEF Season
  <2>2. Record(new) /\ now' = now
    BY <1>2 DEF WatchSeason
  <2>3. watchedAt' = [x \in Targets |-> IF x \in new THEN now ELSE watchedAt[x]]
    BY <1>2 DEF WatchSeason
  <2>4. new \subseteq Targets
    BY <2>1 DEF Placed
  <2> HIDE DEF new
  <2>5. LogInv'
    BY <2>1, <2>2, <2>3, RecordGrows
  <2>6. Logged
    BY <2>1, <2>2, <2>3, <2>4, RecordLogs
  <2> QED
    BY <2>5, <2>6
<1>3. ASSUME NEW id, Delete(id) PROVE LogInv' /\ Logged
  <2>1. events' = {e \in events : e.id # id} /\ UNCHANGED <<watchedAt, runtime, lastId, now>>
    BY <1>3 DEF Delete
  <2>2. LogInv'
    BY <2>1
  <2>3. events' \ events = {}
    BY <2>1
  <2>4. ASSUME NEW e \in events \ events' PROVE events \ events' = {e}
    BY <2>1, <2>4
  <2>5. events \ events' # {} => Cardinality(events \ events') = 1
    BY <2>4, FS_Singleton
  <2> QED
    BY <2>1, <2>2, <2>3, <2>5 DEF Logged
<1>4. ASSUME NEW x \in Targets, Unwatch(x) PROVE LogInv' /\ Logged
  <2>1. watchedAt' = [watchedAt EXCEPT ![x] = None] /\ UNCHANGED <<events, lastId, now>>
    BY <1>4 DEF Unwatch
  <2>2. \A y \in Targets : watchedAt'[y] \in {watchedAt[y], None}
    BY <2>1
  <2> QED
    BY <2>1, <2>2, QuietLogs
<1>5. ASSUME NEW s \in Series, UnwatchSeason(s) PROVE LogInv' /\ Logged
  <2>1. /\ watchedAt' = [x \in Targets |-> IF x \in Season(s) THEN None ELSE watchedAt[x]]
        /\ UNCHANGED <<events, lastId, now>>
    BY <1>5 DEF UnwatchSeason
  <2> HIDE DEF Season
  <2>2. \A y \in Targets : watchedAt'[y] \in {watchedAt[y], None}
    BY <2>1
  <2> QED
    BY <2>1, <2>2, QuietLogs
<1>6. CASE (\E x \in Targets : \E row : Refresh(x, row)) \/ Clock \/ UNCHANGED tracking
  <2>1. UNCHANGED <<watchedAt, events, lastId>> /\ now' \in Nat
    BY <1>6, TrackingAssumption DEF Refresh, Clock, Time, tracking
  <2> QED
    BY <2>1, QuietLogs
<1> QED
  BY <1>1, <1>2, <1>3, <1>4, <1>5, <1>6 DEF TrackingStep
-----------------------------------------------------------------------------
LEMMA LogStarts == Init => LogInv
  BY TrackingAssumption DEF Init, TrackingInit, LogInv

LEMMA LogStays == LogInv /\ [Next]_vars => LogInv' /\ [Logged]_tracking
  BY WindowTracks, StepLogs DEF vars, TrackingStep

\* Marking unwatched and refreshing metadata never erase or rewrite history,
\* ids are given once, every mark gets exactly one entry, and only the user
\* removes one at a time, over any number of titles, episodes and events.
THEOREM HistoryIsALog == Spec => HistoryStays
<1>1. LogInv /\ [Next]_vars =>
        [ LET new == events' \ events
              lost == events \ events'
          IN  /\ lost # {} => Cardinality(lost) = 1 /\ new = {} /\ UNCHANGED <<watchedAt, runtime>>
              /\ \A e \in new : e.id > lastId /\ watchedAt'[e.target] = e.at
              /\ \A x \in Targets : watchedAt'[x] \notin {watchedAt[x], None} =>
                   Cardinality({e \in new : e.target = x}) = 1 ]_tracking
  BY LogStays DEF Logged
<1>2. LogInv /\ [Next]_vars => LogInv'
  BY LogStays
<1> QED
  BY <1>1, <1>2, LogStarts, PTL DEF Spec, HistoryStays
-----------------------------------------------------------------------------
(* Statistics. *)

\* The least of a set of naturals, from well-founded induction.
LessThan == {ss \in Nat \X Nat : ss[1] < ss[2]}

LEMMA LeastOfNaturals ==
  ASSUME NEW S, S \subseteq Nat, S # {}
  PROVE  \E m \in S : \A n \in S : m <= n
<1>1. IsWellFoundedOn(LessThan, Nat)
  BY NatLessThanWellFounded, Zenon DEF OpToRel, LessThan
<1>2. PICK m \in S : \A n \in S : ~ (<<n, m>> \in LessThan)
  BY <1>1, WFMin, Zenon
<1>3. ASSUME NEW n \in S
      PROVE  m <= n
  <2>1. n < m => <<n, m>> \in LessThan
    BY DEF LessThan
  <2> QED
    BY <1>2, <2>1
<1> QED
  BY <1>3

LEMMA MinOfNaturals ==
  ASSUME NEW S, S \subseteq Nat, S # {}
  PROVE  /\ Min(S) \in S
         /\ \A n \in S : Min(S) <= n
BY LeastOfNaturals DEF Min
-----------------------------------------------------------------------------
\* Sums. A sum of sizes is the size of the union, where no two of the sets have
\* a member in common: every figure of Statistics counts something.

\* The members of s have finite sets, of the sizes op gives.
Sizes(op(_), S, of) == \A x \in S : IsFiniteSet(of[x]) /\ Cardinality(of[x]) = op(x)
Apart(S, of) == \A x, y \in S : x # y => of[x] \cap of[y] = {}
Together(s, of) == UNION {of[x] : x \in s}

LEMMA DisjointSizes ==
  ASSUME NEW S, NEW T, IsFiniteSet(S), IsFiniteSet(T), S \cap T = {}
  PROVE  /\ IsFiniteSet(S \cup T)
         /\ Cardinality(S \cup T) = Cardinality(S) + Cardinality(T)
<1>1. Cardinality(S) \in Nat /\ Cardinality(T) \in Nat
  BY FS_CardinalityType
<1>2. Cardinality(S \cap T) = 0
  BY FS_EmptySet
<1>3. /\ IsFiniteSet(S \cup T)
      /\ Cardinality(S \cup T) = Cardinality(S) + Cardinality(T) - Cardinality(S \cap T)
  BY FS_Union
<1> QED
  BY <1>1, <1>2, <1>3

LEMMA TogetherFinite ==
  ASSUME NEW S, IsFiniteSet(S), NEW of, \A x \in S : IsFiniteSet(of[x])
  PROVE  IsFiniteSet(Together(S, of))
<1> DEFINE f == [x \in S |-> of[x]]
           T == {of[x] : x \in S}
<1>1. f \in Surjection(S, T)
  BY DEF Surjection
<1>2. IsFiniteSet(T)
  <2> HIDE DEF f, T
  <2> QED
    BY <1>1, FS_Surjection
<1> QED
  BY <1>2, FS_UNION DEF Together

\* One set more, apart from the others.
LEMMA TogetherMore ==
  ASSUME NEW S, IsFiniteSet(S), NEW of, \A x \in S : IsFiniteSet(of[x]), Apart(S, of),
         NEW c \in S
  PROVE  Cardinality(Together(S, of))
           = Cardinality(of[c]) + Cardinality(Together(S \ {c}, of))
<1> DEFINE rest == Together(S \ {c}, of)
<1>1. IsFiniteSet(S \ {c})
  BY FS_RemoveElement
<1>2. IsFiniteSet(rest) /\ IsFiniteSet(of[c])
  BY <1>1, TogetherFinite
<1>3. of[c] \cap rest = {} /\ of[c] \cup rest = Together(S, of)
  BY DEF Apart, Together
<1> HIDE DEF rest
<1>4. Cardinality(of[c] \cup rest) = Cardinality(of[c]) + Cardinality(rest)
  BY <1>2, <1>3, DisjointSizes
<1> QED
  BY <1>3, <1>4 DEF rest

\* The recursion that the sum is computed by, over any function of the subsets.
Chosen(s) == CHOOSE x \in s : TRUE
Summed(op(_), S, it) ==
  [s \in SUBSET S |-> IF s = {} THEN 0 ELSE op(Chosen(s)) + it[s \ {Chosen(s)}]]

LEMMA SumOfSizes ==
  ASSUME NEW op(_), NEW S, IsFiniteSet(S), NEW of, Sizes(op, S, of), Apart(S, of)
  PROVE  MapThenSumSet(op, S) = Cardinality(Together(S, of))
<1> DEFINE G == [s \in SUBSET S |-> Cardinality(Together(s, of))]
           it == CHOOSE f : f = Summed(op, S, f)
<1>1. ASSUME NEW s \in SUBSET S, s # {}
      PROVE  /\ Chosen(s) \in s /\ s \ {Chosen(s)} \in SUBSET S
             /\ op(Chosen(s)) \in Nat
             /\ G[s] = op(Chosen(s)) + G[s \ {Chosen(s)}]
  <2> DEFINE c == Chosen(s)
  <2>1. c \in s
    BY <1>1 DEF Chosen
  <2>2. IsFiniteSet(s) /\ Apart(s, of) /\ \A x \in s : IsFiniteSet(of[x])
    BY FS_Subset DEF Sizes, Apart
  <2>3. Cardinality(of[c]) = op(c) /\ Cardinality(of[c]) \in Nat
    BY <2>1, FS_CardinalityType DEF Sizes
  <2> HIDE DEF c
  <2>4. Cardinality(Together(s, of)) = op(c) + Cardinality(Together(s \ {c}, of))
    BY <2>1, <2>2, <2>3, TogetherMore
  <2> QED
    BY <2>1, <2>3, <2>4 DEF c
<1>2. G[{}] = 0
  BY FS_EmptySet DEF Together
<1>3. G = Summed(op, S, G)
  <2>1. \A s \in SUBSET S : G[s] = IF s = {} THEN 0 ELSE op(Chosen(s)) + G[s \ {Chosen(s)}]
    BY <1>1, <1>2
  <2> QED
    BY <2>1 DEF Summed
<1>4. it = Summed(op, S, it)
  <2> HIDE DEF G
  <2> QED
    BY <1>3
<1>5. MapThenSumSet(op, S) = it[S]
  BY DEF MapThenSumSet, MapThenFoldSet, Summed, Chosen
<1>6. it[S] = G[S]
  <2> HIDE DEF it
  <2>1. \A s \in SUBSET S : it[s] = IF s = {} THEN 0 ELSE op(Chosen(s)) + it[s \ {Chosen(s)}]
    BY <1>4 DEF Summed
  <2> DEFINE wrong == {s \in SUBSET S : it[s] # G[s]}
             sizes == {Cardinality(s) : s \in wrong}
  <2> SUFFICES ASSUME wrong # {} PROVE FALSE
    OBVIOUS
  <2>2. \A s \in wrong : IsFiniteSet(s) /\ Cardinality(s) \in Nat
    BY FS_Subset, FS_CardinalityType
  <2>3. PICK s \in wrong : \A t \in wrong : Cardinality(s) <= Cardinality(t)
    <3>1. sizes \subseteq Nat /\ sizes # {}
      BY <2>2
    <3>2. PICK n \in sizes : \A m \in sizes : n <= m
      <4> HIDE DEF sizes
      <4> QED
        BY <3>1, LeastOfNaturals
    <3> HIDE DEF wrong
    <3>3. PICK s \in wrong : Cardinality(s) = n
      BY <3>2
    <3> QED
      BY <3>2, <3>3
  <2>4. s # {}
    BY <1>2, <2>1
  <2> DEFINE c == Chosen(s)
  <2>5. c \in s /\ s \ {c} \in SUBSET S
    BY <1>1, <2>4
  <2>6. /\ IsFiniteSet(s \ {c}) /\ Cardinality(s \ {c}) \in Nat
        /\ Cardinality(s \ {c}) < Cardinality(s)
    <3> HIDE DEF c, wrong, G
    <3>1. IsFiniteSet(s) /\ Cardinality(s) \in Nat
      BY <2>2
    <3>2. IsFiniteSet(s \ {c}) /\ Cardinality(s \ {c}) = Cardinality(s) - 1
      BY <2>5, <3>1, FS_RemoveElement
    <3> QED
      BY <3>1, <3>2, FS_CardinalityType
  <2>7. it[s \ {c}] = G[s \ {c}]
    <3>1. s \ {c} \in wrong => Cardinality(s) <= Cardinality(s \ {c})
      BY <2>3
    <3>2. Cardinality(s) \in Nat
      BY <2>2
    <3>3. s \ {c} \notin wrong
      <4> HIDE DEF wrong, c, G
      <4> QED
        BY <2>6, <3>1, <3>2
    <3> QED
      BY <2>5, <3>3
  <2>8. it[s] = op(c) + it[s \ {c}]
    BY <2>1, <2>4
  <2>9. G[s] = op(c) + G[s \ {c}]
    BY <1>1, <2>4
  <2> QED
    BY <2>7, <2>8, <2>9
<1> QED
  BY <1>5, <1>6

\* Two sums over sets that share nothing are the sum over both.
LEMMA SumOfBoth ==
  ASSUME NEW op(_), NEW S, NEW T, IsFiniteSet(S), IsFiniteSet(T), S \cap T = {},
         NEW of, Sizes(op, S \cup T, of), Apart(S \cup T, of)
  PROVE  MapThenSumSet(op, S \cup T) = MapThenSumSet(op, S) + MapThenSumSet(op, T)
<1>1. IsFiniteSet(S \cup T)
  BY FS_Union
<1>2. Sizes(op, S, of) /\ Sizes(op, T, of) /\ Apart(S, of) /\ Apart(T, of)
  BY DEF Sizes, Apart
<1>3. /\ MapThenSumSet(op, S \cup T) = Cardinality(Together(S \cup T, of))
      /\ MapThenSumSet(op, S) = Cardinality(Together(S, of))
      /\ MapThenSumSet(op, T) = Cardinality(Together(T, of))
  BY <1>1, <1>2, SumOfSizes
<1>4. IsFiniteSet(Together(S, of)) /\ IsFiniteSet(Together(T, of))
  BY <1>2, TogetherFinite DEF Sizes
<1>5. /\ Together(S \cup T, of) = Together(S, of) \cup Together(T, of)
      /\ Together(S, of) \cap Together(T, of) = {}
  BY DEF Together, Apart
<1>6. Cardinality(Together(S, of) \cup Together(T, of))
        = Cardinality(Together(S, of)) + Cardinality(Together(T, of))
  BY <1>4, <1>5, DisjointSizes
<1> QED
  BY <1>3, <1>5, <1>6
-----------------------------------------------------------------------------
\* Arithmetic of the buckets.

LEMMA Times ==
  ASSUME NEW x \in Int, NEW y \in Int, x <= y, NEW u \in Nat
  PROVE  x * u <= y * u
OBVIOUS

LEMMA Division ==
  ASSUME NEW a \in Nat, NEW u \in Nat \ {0}
  PROVE  /\ a \div u \in Nat
         /\ (a \div u) * u <= a
         /\ a < (a \div u + 1) * u
OBVIOUS

\* A number lies in the bucket of its quotient, and in no earlier one.
LEMMA DivisionBounds ==
  ASSUME NEW a \in Nat, NEW u \in Nat \ {0}, NEW k \in Int
  PROVE  k * u <= a <=> k <= a \div u
<1>1. /\ a \div u \in Nat /\ (a \div u) * u <= a /\ a < (a \div u + 1) * u
  BY Division
<1> DEFINE q == a \div u
<1>2. k <= q => k * u <= q * u
  BY <1>1, Times
<1>3. q + 1 <= k => (q + 1) * u <= k * u
  BY <1>1, Times
<1>4. k * u \in Int /\ q * u \in Int /\ (q + 1) * u \in Int
  BY <1>1
<1> QED
  BY <1>1, <1>2, <1>3, <1>4

LEMMA Larger ==
  ASSUME NEW x \in Int, NEW y \in Int
  PROVE  /\ Max({x, y}) \in {x, y} /\ Max({x, y}) >= x /\ Max({x, y}) >= y
         /\ Min({x, y}) \in {x, y} /\ Min({x, y}) <= x /\ Min({x, y}) <= y
<1>1. CASE x <= y
  BY <1>1 DEF Max, Min
<1>2. CASE y < x
  BY <1>2 DEF Max, Min
<1> QED
  BY <1>1, <1>2

\* The tables that Statistics reads: finitely many events of known targets, at
\* times that are no longer than the clock ever showed, each with an id of its own.
StatInv ==
  /\ IsFiniteSet(events) /\ now \in Nat
  /\ \A e \in events :
       e.id \in Nat /\ e.target \in Targets /\ e.at \in Nat /\ e.minutes \in Nat \cup {None}
  /\ \A e, f \in events : e.id = f.id => e = f
  /\ \A x \in Targets : runtime[x] \in Nat \cup {None, Gone}

CountedIn(r) == {e \in events : e.at >= RangeStart(r)}
Bucket(r, i) ==
  {e \in events : e.at >= First(r.unit, i) /\ (i > 0 => e.at < First(r.unit, i - 1))}

\* How old the bucket of an event is: zero too, when it lies ahead of the clock.
Age(r, e) == LET back == now \div r.unit - e.at \div r.unit IN IF back > 0 THEN back ELSE 0

\* An event is in the bucket of its age, and in no other.
LEMMA OneBucket ==
  ASSUME StatInv, NEW r \in Ranges, NEW e \in events, NEW i \in Nat
  PROVE  e \in Bucket(r, i) <=> i = Age(r, e)
<1> DEFINE u == r.unit
           n == now \div u
           q == e.at \div u
<1>1. u \in Nat \ {0} /\ e.at \in Nat /\ now \in Nat
  BY TrackingAssumption DEF StatInv
<1>2. n \in Nat /\ q \in Nat
  BY <1>1, Division
<1>3. \A k \in Int : (n - k) * u <= e.at <=> n - k <= q
  BY <1>1, <1>2, DivisionBounds
<1>4. \A k \in Int : First(u, k) = (n - k) * u /\ First(u, k) \in Int
  BY <1>1, <1>2 DEF First
<1>5. e.at >= First(u, i) <=> n - q <= i
  BY <1>1, <1>2, <1>3, <1>4
<1>6. i > 0 => (e.at < First(u, i - 1) <=> n - q > i - 1)
  BY <1>1, <1>2, <1>3, <1>4
<1>7. e \in Bucket(r, i) <=> (n - q <= i /\ (i > 0 => n - q > i - 1))
  BY <1>5, <1>6 DEF Bucket
<1>8. Age(r, e) = IF n - q > 0 THEN n - q ELSE 0
  BY DEF Age
<1> HIDE DEF n, q
<1> QED
  BY <1>2, <1>7, <1>8

LEMMA UncutBars ==
  ASSUME NEW size \in Int, NEW most \in Nat \ {0}, Max({1, Min({size, most})}) < most
  PROVE  Max({1, Min({size, most})}) = IF size >= 1 THEN size ELSE 1
<1> DEFINE least == Min({size, most})
<1>1. least \in {size, most} /\ least <= size /\ least <= most /\ least \in Int
  <2>1. most \in Int
    OBVIOUS
  <2>2. /\ Min({size, most}) \in {size, most}
        /\ Min({size, most}) <= size /\ Min({size, most}) <= most
    BY <2>1, Larger
  <2> QED
    BY <2>1, <2>2
<1>2. Max({1, least}) \in {1, least} /\ Max({1, least}) >= 1 /\ Max({1, least}) >= least
  BY <1>1, Larger
<1>3. Max({1, least}) < most
  OBVIOUS
<1> HIDE DEF least
<1> QED
  BY <1>1, <1>2, <1>3 DEF least

\* How many buckets the range has, or all time reaches back.
Reach(r) ==
  IF r.buckets > 0 THEN r.buckets
  ELSE IF events = {} THEN 1
  ELSE (now \div r.unit) - (Min({e.at : e \in events}) \div r.unit) + 1

LEMMA BarsUncut ==
  ASSUME StatInv, NEW r \in Ranges, Bars(r) < MaxBars
  PROVE  Reach(r) \in Int /\ Bars(r) \in Nat /\ Bars(r) = IF Reach(r) >= 1 THEN Reach(r) ELSE 1
<1>1. r.unit \in Nat \ {0} /\ r.buckets \in Nat /\ now \in Nat /\ MaxBars \in Nat \ {0}
  BY TrackingAssumption DEF StatInv
<1>2. Reach(r) \in Int
  <2> DEFINE times == {e.at : e \in events}
             m == Min(times)
  <2>1. CASE r.buckets > 0
    BY <1>1, <2>1 DEF Reach
  <2>2. CASE ~ (r.buckets > 0) /\ events # {}
    <3>1. times \subseteq Nat /\ times # {}
      BY <2>2 DEF StatInv
    <3>2. m \in Nat
      <4> HIDE DEF times
      <4> QED
        BY <3>1, MinOfNaturals
    <3>3. Reach(r) = (now \div r.unit) - (m \div r.unit) + 1
      BY <2>2 DEF Reach
    <3> HIDE DEF m
    <3>4. now \div r.unit \in Nat /\ m \div r.unit \in Nat
      BY <1>1, <3>2, Division
    <3> QED
      BY <3>3, <3>4
  <2>3. CASE ~ (r.buckets > 0) /\ events = {}
    BY <2>3 DEF Reach
  <2> QED
    BY <2>1, <2>2, <2>3
<1>3. Bars(r) = Max({1, Min({Reach(r), MaxBars})})
  BY DEF Bars, Reach
<1>4. Bars(r) = IF Reach(r) >= 1 THEN Reach(r) ELSE 1
  BY <1>1, <1>2, <1>3, UncutBars
<1> QED
  BY <1>2, <1>4

\* The bars reach as far as the range, unless the yearly bars are cut.
LEMMA BarsReach ==
  ASSUME StatInv, NEW r \in Ranges, Bars(r) < MaxBars, NEW e \in events
  PROVE  e \in CountedIn(r) <=> Age(r, e) \in 0..Bars(r) - 1
<1> DEFINE u == r.unit
           n == now \div u
           q == e.at \div u
<1>1. u \in Nat \ {0} /\ r.buckets \in Nat /\ e.at \in Nat /\ now \in Nat
  BY TrackingAssumption DEF StatInv
<1>2. n \in Nat /\ q \in Nat
  BY <1>1, Division
<1>3. Age(r, e) = IF n - q > 0 THEN n - q ELSE 0
  BY DEF Age
<1>4. Reach(r) \in Int /\ Bars(r) = IF Reach(r) >= 1 THEN Reach(r) ELSE 1
  BY BarsUncut
<1>5. CASE r.buckets > 0
  <2>1. Bars(r) = r.buckets
    BY <1>1, <1>4, <1>5 DEF Reach
  <2>2. RangeStart(r) = (n - (r.buckets - 1)) * u
    BY <1>1, <1>5 DEF RangeStart, First
  <2>3. e \in CountedIn(r) <=> (n - (r.buckets - 1)) * u <= e.at
    <3>1. (n - (r.buckets - 1)) * u \in Int
      BY <1>1, <1>2
    <3> HIDE DEF n
    <3> QED
      BY <1>1, <2>2, <3>1 DEF CountedIn
  <2>4. (n - (r.buckets - 1)) * u <= e.at <=> n - (r.buckets - 1) <= q
    BY <1>1, <1>2, DivisionBounds
  <2> HIDE DEF n, q, u
  <2> QED
    BY <1>1, <1>2, <1>3, <1>5, <2>1, <2>3, <2>4
<1>6. CASE r.buckets = 0
  <2> DEFINE times == {f.at : f \in events}
             m == Min(times)
             k == m \div u
  <2>1. times \subseteq Nat /\ e.at \in times
    BY DEF StatInv
  <2>2. m \in Nat /\ m <= e.at
    <3> HIDE DEF times
    <3> QED
      BY <2>1, MinOfNaturals
  <2>3. Reach(r) = n - k + 1
    <3>1. ~ (r.buckets > 0) /\ events # {}
      BY <1>1, <1>6
    <3> QED
      BY <3>1 DEF Reach
  <2> HIDE DEF m
  <2>4. k \in Nat /\ k <= q
    <3>1. k \in Nat /\ k * u <= m
      BY <1>1, <2>2, Division
    <3> HIDE DEF k
    <3>2. k * u <= e.at
      BY <1>1, <2>2, <3>1
    <3> QED
      BY <1>1, <3>1, <3>2, DivisionBounds
  <2>5. e \in CountedIn(r)
    BY <1>1, <1>6 DEF CountedIn, RangeStart
  <2> HIDE DEF k, n, q
  <2> QED
    BY <1>2, <1>3, <1>4, <2>3, <2>4, <2>5
<1> QED
  BY <1>1, <1>5, <1>6

\* The bars add up to the watches of the range.
LEMMA BarsAddUp ==
  ASSUME StatInv, NEW r \in Ranges, Bars(r) < MaxBars
  PROVE  MapThenSumSet(LAMBDA i : StatisticsView(r).bars[i], DOMAIN StatisticsView(r).bars)
           = Cardinality(CountedIn(r))
<1> DEFINE S == 0..Bars(r) - 1
           of == [i \in S |-> Bucket(r, i)]
<1>1. StatisticsView(r).bars = [i \in S |-> Cardinality(Bucket(r, i))]
  BY DEF StatisticsView, Statistics, Activity, Bucket
<1>2. IsFiniteSet(S) /\ S \subseteq Nat
  BY BarsUncut, FS_Interval
<1>3. Sizes(LAMBDA i : StatisticsView(r).bars[i], S, of)
  <2>1. \A i \in S : IsFiniteSet(Bucket(r, i))
    BY FS_Subset DEF StatInv, Bucket
  <2> QED
    BY <1>1, <2>1 DEF Sizes
<1>4. Apart(S, of)
  BY <1>2, OneBucket DEF Apart, Bucket
<1>5. Together(S, of) = CountedIn(r)
  <2>1. \A i \in S : Bucket(r, i) \subseteq events
    BY DEF Bucket
  <2>2. \A e \in events : e \in CountedIn(r) <=> \E i \in S : e \in Bucket(r, i)
    BY <1>2, OneBucket, BarsReach
  <2> QED
    BY <2>1, <2>2 DEF Together, CountedIn
<1>6. DOMAIN StatisticsView(r).bars = S
  BY <1>1
<1> HIDE DEF S, of
<1>7. MapThenSumSet(LAMBDA i : StatisticsView(r).bars[i], S) = Cardinality(Together(S, of))
  BY <1>2, <1>3, <1>4, SumOfSizes
<1> QED
  BY <1>5, <1>6, <1>7
-----------------------------------------------------------------------------
\* The groups of `Viewing`.
Since(x, start) == {e \in {e \in events : e.target = x} : e.at >= start}
Seen(targets, start) == {x \in targets : Since(x, start) # {}}
Counted(targets, start) == {e \in events : e.target \in targets /\ e.at >= start}
Timed(targets, start) == {e \in Counted(targets, start) : MinutesOf(e) # None}
Again(e) == \E f \in events : f.target = e.target /\ Newer(e, f)
FirstIn(x, start) == IF Min({e.at : e \in {e \in events : e.target = x}}) >= start THEN 1 ELSE 0

LEMMA ImageFinite ==
  ASSUME NEW S, IsFiniteSet(S), NEW f
  PROVE  IsFiniteSet({f[x] : x \in S})
<1> DEFINE g == [x \in S |-> f[x]]
           T == {f[x] : x \in S}
<1>1. g \in Surjection(S, T)
  BY DEF Surjection
<1> HIDE DEF g, T
<1>2. IsFiniteSet(T)
  BY <1>1, FS_Surjection
<1> QED
  BY <1>2 DEF T

LEMMA SeenFinite ==
  ASSUME StatInv, NEW targets, NEW start
  PROVE  /\ IsFiniteSet(Seen(targets, start)) /\ IsFiniteSet(Counted(targets, start))
         /\ UNION {Since(x, start) : x \in Seen(targets, start)} = Counted(targets, start)
         /\ \A x : IsFiniteSet(Since(x, start))
<1> DEFINE f == [e \in events |-> e.target]
           T == {f[e] : e \in events}
<1>1. IsFiniteSet(T)
  <2> HIDE DEF f
  <2> QED
    BY ImageFinite DEF StatInv
<1>2. Seen(targets, start) \subseteq T
  BY DEF Seen, Since
<1>3. IsFiniteSet(Seen(targets, start))
  <2> HIDE DEF T
  <2> QED
    BY <1>1, <1>2, FS_Subset
<1>4. IsFiniteSet(Counted(targets, start)) /\ \A x : IsFiniteSet(Since(x, start))
  BY FS_Subset DEF StatInv, Counted, Since
<1>5. UNION {Since(x, start) : x \in Seen(targets, start)} = Counted(targets, start)
  BY DEF Seen, Since, Counted
<1> QED
  BY <1>3, <1>4, <1>5

\* What `Viewing` gives, by these names.
LEMMA ViewingIs ==
  ASSUME NEW targets, NEW start, StatInv
  PROVE  LET v == Viewing(targets, start) IN
         /\ v.watches = MapThenSumSet(LAMBDA x : Cardinality(Since(x, start)),
                                      Seen(targets, start))
         /\ v.rewatches =
              MapThenSumSet(LAMBDA x : Cardinality(Since(x, start)) - FirstIn(x, start),
                            Seen(targets, start))
         /\ v.minutes = MapThenSumSet(MinutesOf, Timed(targets, start))
         /\ v.unknown = Cardinality(Counted(targets, start) \ Timed(targets, start))
<1>1. UNION {Since(x, start) : x \in Seen(targets, start)} = Counted(targets, start)
  BY SeenFinite
<1> DEFINE K(c) == {e \in c : MinutesOf(e) # None}
           c == UNION {Since(x, start) : x \in Seen(targets, start)}
<1>2. Viewing(targets, start).watches
        = MapThenSumSet(LAMBDA x : Cardinality(Since(x, start)), Seen(targets, start))
  BY DEF Viewing, Since, Seen
<1>3. Viewing(targets, start).rewatches
        = MapThenSumSet(LAMBDA x : Cardinality(Since(x, start)) - FirstIn(x, start),
                        Seen(targets, start))
  BY DEF Viewing, Since, Seen, FirstIn
<1>4. Viewing(targets, start).minutes = MapThenSumSet(MinutesOf, K(c))
  BY DEF Viewing, Since, Seen
<1>5. Viewing(targets, start).unknown = Cardinality(c \ K(c))
  BY DEF Viewing, Since, Seen
<1>6. K(c) = Timed(targets, start)
  BY <1>1 DEF Timed
<1> HIDE DEF K
<1> QED
  BY <1>1, <1>2, <1>3, <1>4, <1>5, <1>6

\* A class of targets: its watches are those of the range.
LEMMA WatchesOf ==
  ASSUME StatInv, NEW targets, NEW start
  PROVE  Viewing(targets, start).watches = Cardinality(Counted(targets, start))
<1> DEFINE S == Seen(targets, start)
           of == [x \in S |-> Since(x, start)]
<1>1. Sizes(LAMBDA x : Cardinality(Since(x, start)), S, of)
  BY SeenFinite DEF Sizes
<1>2. Apart(S, of) /\ Together(S, of) = Counted(targets, start)
  BY SeenFinite DEF Apart, Together, Since
<1>3. IsFiniteSet(S)
  BY SeenFinite
<1> HIDE DEF of
<1>4. MapThenSumSet(LAMBDA x : Cardinality(Since(x, start)), S) = Cardinality(Together(S, of))
  BY <1>1, <1>2, <1>3, SumOfSizes
<1> QED
  BY <1>2, <1>4, ViewingIs

\* Of a target with any events one is the oldest, and all others came again.
LEMMA OldestOf ==
  ASSUME StatInv, NEW x, {e \in events : e.target = x} # {}
  PROVE  \E o \in events :
           /\ o.target = x /\ o.at = Min({e.at : e \in {e \in events : e.target = x}})
           /\ \A e \in events : e.target = x => (Again(e) <=> e # o)
<1> DEFINE X == {e \in events : e.target = x}
           times == {e.at : e \in X}
           t == Min(times)
           ids == {e.id : e \in {f \in X : f.at = t}}
<1>1. \A e \in X : e \in events /\ e.target = x /\ e.at \in Nat /\ e.id \in Nat
  BY DEF StatInv
<1>2. times \subseteq Nat /\ times # {}
  BY <1>1
<1>3. t \in times /\ \A n \in times : t <= n
  <2> HIDE DEF times
  <2> QED
    BY <1>2, MinOfNaturals
<1>4. ids \subseteq Nat /\ ids # {}
  <2> HIDE DEF t
  <2> QED
    BY <1>1, <1>3
<1>5. PICK i \in ids : \A n \in ids : i <= n
  <2> HIDE DEF ids
  <2> QED
    BY <1>4, LeastOfNaturals
<1>6. PICK o \in X : o.at = t /\ o.id = i
  <2> HIDE DEF t, X
  <2> QED
    BY <1>5
<1> HIDE DEF t, X
<1>7. \A e \in X : e.at >= t /\ (e.at = t => e.id >= i)
  BY <1>1, <1>3, <1>5, <1>4
<1>8. \A e \in X : e # o => Newer(e, o)
  <2> TAKE e \in X
  <2>1. e # o => e.id # o.id
    BY <1>1, <1>6 DEF StatInv
  <2> QED
    BY <1>1, <1>6, <1>7, <2>1 DEF Newer
<1>9. \A e \in X : ~ Newer(o, e)
  BY <1>1, <1>6, <1>7 DEF Newer
<1>10. \A e \in events : e.target = x => (Again(e) <=> e # o)
  <2>1. \A e \in events : e \in X <=> e.target = x
    BY DEF X
  <2> QED
    BY <1>1, <1>6, <1>8, <1>9, <2>1 DEF Again
<1> QED
  BY <1>1, <1>6, <1>10 DEF t, X

\* So the watches that came again are all but the first, if it is in the range.
LEMMA RewatchesOf ==
  ASSUME StatInv, NEW targets, NEW start \in Int
  PROVE  Viewing(targets, start).rewatches
           = Cardinality({e \in Counted(targets, start) : Again(e)})
<1> DEFINE S == Seen(targets, start)
           of == [x \in S |-> {e \in Since(x, start) : Again(e)}]
<1>1. ASSUME NEW x \in S
      PROVE  /\ IsFiniteSet(of[x])
             /\ Cardinality(of[x]) = Cardinality(Since(x, start)) - FirstIn(x, start)
  <2>1. Since(x, start) # {} /\ IsFiniteSet(Since(x, start))
    BY SeenFinite DEF Seen
  <2>2. {e \in events : e.target = x} # {}
    BY <2>1 DEF Since
  <2>3. PICK o \in events :
          /\ o.target = x /\ o.at = Min({e.at : e \in {e \in events : e.target = x}})
          /\ \A e \in events : e.target = x => (Again(e) <=> e # o)
    BY <2>2, OldestOf
  <2>4. of[x] = Since(x, start) \ {o}
    BY <2>3 DEF Since
  <2>5. FirstIn(x, start) = IF o \in Since(x, start) THEN 1 ELSE 0
    BY <2>3 DEF FirstIn, Since
  <2>6. Cardinality(Since(x, start)) \in Nat
    BY <2>1, FS_CardinalityType
  <2>7. /\ IsFiniteSet(Since(x, start) \ {o})
        /\ Cardinality(Since(x, start) \ {o})
             = IF o \in Since(x, start) THEN Cardinality(Since(x, start)) - 1
               ELSE Cardinality(Since(x, start))
    BY <2>1, FS_RemoveElement
  <2> HIDE DEF of, S
  <2> QED
    BY <2>4, <2>5, <2>6, <2>7
<1>2. Sizes(LAMBDA x : Cardinality(Since(x, start)) - FirstIn(x, start), S, of)
  <2> HIDE DEF S, of
  <2> QED
    BY <1>1 DEF Sizes
<1>3. Apart(S, of) /\ Together(S, of) = {e \in Counted(targets, start) : Again(e)}
  <2>1. Apart(S, of)
    BY DEF Apart, Since
  <2>2. Together(S, of) \subseteq {e \in Counted(targets, start) : Again(e)}
    BY DEF Together, Since, Seen, Counted
  <2>3. ASSUME NEW e \in Counted(targets, start), Again(e)
        PROVE  e \in Together(S, of)
    <3>1. e.target \in S /\ e \in of[e.target]
      BY <2>3 DEF Since, Seen, Counted
    <3> QED
      BY <3>1 DEF Together
  <2> QED
    BY <2>1, <2>2, <2>3
<1>4. IsFiniteSet(S)
  BY SeenFinite
<1> HIDE DEF of
<1>5. MapThenSumSet(LAMBDA x : Cardinality(Since(x, start)) - FirstIn(x, start), S)
        = Cardinality(Together(S, of))
  BY <1>2, <1>3, <1>4, SumOfSizes
<1> QED
  BY <1>3, <1>5, ViewingIs

\* Pairing the members of a set with one more thing keeps their number.
LEMMA SizeOfProduct ==
  ASSUME NEW S, IsFiniteSet(S), NEW x
  PROVE  /\ IsFiniteSet(S \X {x}) /\ Cardinality(S \X {x}) = Cardinality(S)
         /\ IsFiniteSet({x} \X S) /\ Cardinality({x} \X S) = Cardinality(S)
<1> DEFINE X == {x}
<1>1. IsFiniteSet(X) /\ Cardinality(X) = 1 /\ Cardinality(S) \in Nat
  BY FS_Singleton, FS_CardinalityType
<1> HIDE DEF X
<1>2. IsFiniteSet(S \X X) /\ Cardinality(S \X X) = Cardinality(S) * Cardinality(X)
  BY <1>1, FS_Product
<1>3. IsFiniteSet(X \X S) /\ Cardinality(X \X S) = Cardinality(X) * Cardinality(S)
  BY <1>1, FS_Product
<1>4. Cardinality(S) * 1 = Cardinality(S) /\ 1 * Cardinality(S) = Cardinality(S)
  BY <1>1
<1> QED
  BY <1>1, <1>2, <1>3, <1>4 DEF X

\* Watch time: a minute is a member of a set, the event it belongs to with it.
Units == [e \in events |-> {e} \X (1..MinutesOf(e))]

LEMMA UnitsAreMinutes ==
  ASSUME StatInv, NEW K, K \subseteq {e \in events : MinutesOf(e) # None}
  PROVE  IsFiniteSet(K) /\ Sizes(MinutesOf, K, Units) /\ Apart(K, Units)
<1>1. IsFiniteSet(K)
  BY FS_Subset DEF StatInv
<1>2. ASSUME NEW e \in K
      PROVE  IsFiniteSet(Units[e]) /\ Cardinality(Units[e]) = MinutesOf(e)
  <2>1. e \in events /\ MinutesOf(e) # None
    OBVIOUS
  <2>2. MinutesOf(e) \in Nat
    BY <2>1 DEF MinutesOf, StatInv
  <2> DEFINE B == 1..MinutesOf(e)
  <2>3. IsFiniteSet(B) /\ Cardinality(B) = MinutesOf(e)
    BY <2>2, FS_Interval
  <2>4. Units[e] = {e} \X B
    BY <2>1 DEF Units
  <2> HIDE DEF B
  <2>5. IsFiniteSet({e} \X B) /\ Cardinality({e} \X B) = Cardinality(B)
    BY <2>3, SizeOfProduct
  <2> QED
    BY <2>3, <2>4, <2>5
<1>3. Apart(K, Units)
  <2>1. \A e \in K : Units[e] = {e} \X (1..MinutesOf(e))
    BY DEF Units
  <2>2. \A e \in K : \A u \in Units[e] : u[1] = e
    BY <2>1
  <2> QED
    BY <2>2 DEF Apart
<1> QED
  BY <1>1, <1>2, <1>3 DEF Sizes

LEMMA MinutesOfBoth ==
  ASSUME StatInv, NEW start
  PROVE  MapThenSumSet(MinutesOf, Timed(Movies, start)) + MapThenSumSet(MinutesOf, Timed(Episodes, start))
           = MapThenSumSet(MinutesOf, Timed(Targets, start))
<1> DEFINE S == Timed(Movies, start)
           T == Timed(Episodes, start)
<1>1. S \cap T = {} /\ S \cup T = Timed(Targets, start)
  BY TrackingAssumption DEF Timed, Counted, Targets
<1>2. S \cup T \subseteq {e \in events : MinutesOf(e) # None}
  BY DEF Timed, Counted
<1> HIDE DEF S, T
<1>3. IsFiniteSet(S \cup T) /\ Sizes(MinutesOf, S \cup T, Units) /\ Apart(S \cup T, Units)
  BY <1>2, UnitsAreMinutes
<1>4. IsFiniteSet(S) /\ IsFiniteSet(T)
  BY <1>3, FS_Subset
<1>5. MapThenSumSet(MinutesOf, S \cup T) = MapThenSumSet(MinutesOf, S) + MapThenSumSet(MinutesOf, T)
  BY <1>1, <1>3, <1>4, SumOfBoth
<1> QED
  BY <1>1, <1>5 DEF S, T
-----------------------------------------------------------------------------
\* Genres: a pair of an event and a name its title goes by.
Names(t) == IF Genres[t] = {} THEN {None} ELSE Genres[t]
OfTitle(t, start) == {e \in events : TitleOf(e.target) = t /\ e.at >= start}
SeenTitles(start) == {t \in Titles : Cardinality(OfTitle(t, start)) > 0}
Called(g, start) == {e \in Counted(Targets, start) : g \in Names(TitleOf(e.target))}

LEMMA TitleKnown ==
  ASSUME StatInv, NEW e \in events
  PROVE  /\ TitleOf(e.target) \in Titles
         /\ \A start : e \in Counted(Targets, start) => TitleOf(e.target) \in SeenTitles(start)
<1>1. TitleOf(e.target) \in Titles
  BY TrackingAssumption DEF StatInv, TitleOf, Titles, Targets
<1>2. ASSUME NEW start, e \in Counted(Targets, start)
      PROVE  TitleOf(e.target) \in SeenTitles(start)
  <2> DEFINE own == OfTitle(TitleOf(e.target), start)
  <2>1. IsFiniteSet(own) /\ e \in own
    BY <1>2, FS_Subset DEF StatInv, OfTitle, Counted
  <2>2. Cardinality(own) \in Nat /\ Cardinality(own) # 0
    BY <2>1, FS_CardinalityType, FS_EmptySet
  <2> QED
    BY <1>1, <2>2 DEF SeenTitles
<1> QED
  BY <1>1, <1>2

LEMMA GenreIs ==
  ASSUME StatInv, NEW start
  PROVE  GenreWatches(start) =
           [g \in UNION {Names(t) : t \in SeenTitles(start)} |->
              MapThenSumSet(LAMBDA t : Cardinality(OfTitle(t, start)),
                            {t \in SeenTitles(start) : g \in Names(t)})]
BY DEF GenreWatches, SeenTitles, OfTitle, Names

LEMMA GenreOf ==
  ASSUME StatInv, NEW start, NEW g \in DOMAIN GenreWatches(start)
  PROVE  GenreWatches(start)[g] = Cardinality(Called(g, start))
<1> DEFINE S == {t \in SeenTitles(start) : g \in Names(t)}
           of == [t \in S |-> OfTitle(t, start)]
<1>1. GenreWatches(start)[g] = MapThenSumSet(LAMBDA t : Cardinality(OfTitle(t, start)), S)
  BY GenreIs
<1>2. IsFiniteSet(S)
  <2> DEFINE f == [e \in events |-> TitleOf(e.target)]
             T == {f[e] : e \in events}
  <2>1. IsFiniteSet(T)
    <3> HIDE DEF f
    <3> QED
      BY ImageFinite DEF StatInv
  <2>2. ASSUME NEW t \in S
        PROVE  t \in T
    <3>1. OfTitle(t, start) # {}
      BY FS_EmptySet DEF SeenTitles
    <3> QED
      BY <3>1 DEF OfTitle
  <2> HIDE DEF S, T
  <2> QED
    BY <2>1, <2>2, FS_Subset
<1>3. Sizes(LAMBDA t : Cardinality(OfTitle(t, start)), S, of)
  <2>1. \A t : IsFiniteSet(OfTitle(t, start))
    BY FS_Subset DEF StatInv, OfTitle
  <2> QED
    BY <2>1 DEF Sizes
<1>4. Apart(S, of)
  BY DEF Apart, OfTitle
<1>5. Together(S, of) = Called(g, start)
  <2>1. Together(S, of) \subseteq Called(g, start)
    BY DEF Together, OfTitle, Called, Counted, StatInv
  <2>2. ASSUME NEW e \in Called(g, start)
        PROVE  e \in Together(S, of)
    <3>1. e \in events /\ e \in Counted(Targets, start) /\ g \in Names(TitleOf(e.target))
      BY DEF Called, Counted
    <3>2. TitleOf(e.target) \in S /\ e \in OfTitle(TitleOf(e.target), start)
      BY <3>1, TitleKnown DEF OfTitle, Counted
    <3> QED
      BY <3>2 DEF Together
  <2> QED
    BY <2>1, <2>2
<1> HIDE DEF S, of
<1>6. MapThenSumSet(LAMBDA t : Cardinality(OfTitle(t, start)), S) = Cardinality(Together(S, of))
  BY <1>2, <1>3, <1>4, SumOfSizes
<1> QED
  BY <1>1, <1>5, <1>6

\* A title goes by its genres, or by one name if it has none.
LEMMA NamesAre ==
  ASSUME NEW t \in Titles
  PROVE  /\ IsFiniteSet(Names(t))
         /\ Cardinality(Names(t)) = Max({1, Cardinality(Genres[t])})
<1>1. IsFiniteSet(Genres[t]) /\ Cardinality(Genres[t]) \in Nat
  BY TrackingAssumption, FS_CardinalityType
<1>2. CASE Genres[t] = {}
  <2>1. Cardinality(Genres[t]) = 0 /\ Cardinality({None}) = 1 /\ IsFiniteSet({None})
    BY <1>2, FS_EmptySet, FS_Singleton
  <2>2. Max({1, 0}) = 1
    BY Larger
  <2> QED
    BY <1>2, <2>1, <2>2 DEF Names
<1>3. CASE Genres[t] # {}
  <2>1. Cardinality(Genres[t]) >= 1
    BY <1>1, <1>3, FS_EmptySet
  <2> DEFINE n == Cardinality(Genres[t])
  <2>2. n \in Nat /\ n >= 1
    BY <1>1, <2>1
  <2> HIDE DEF n
  <2>3. Max({1, n}) = n
    BY <2>2, Larger
  <2> QED
    BY <1>1, <1>3, <2>3 DEF Names, n
<1> QED
  BY <1>2, <1>3

\* Counted by name or by event, the pairs are the same.
LEMMA GenresAddUp ==
  ASSUME StatInv, NEW r \in Ranges
  PROVE  MapThenSumSet(LAMBDA g : StatisticsView(r).genres[g], DOMAIN StatisticsView(r).genres)
           = MapThenSumSet(LAMBDA e : Max({1, Cardinality(Genres[TitleOf(e.target)])}),
                           CountedIn(r))
<1> DEFINE start == RangeStart(r)
           C == Counted(Targets, start)
           D == UNION {Names(t) : t \in SeenTitles(start)}
           byName == [g \in D |-> Called(g, start) \X {g}]
           byEvent == [e \in C |-> {e} \X Names(TitleOf(e.target))]
<1>1. StatisticsView(r).genres = GenreWatches(start) /\ DOMAIN GenreWatches(start) = D
  <2>1. StatisticsView(r).genres = GenreWatches(start)
    BY DEF StatisticsView, Statistics
  <2>2. DOMAIN GenreWatches(start) = D
    BY GenreIs
  <2> QED
    BY <2>1, <2>2
<1>2. C = CountedIn(r) /\ IsFiniteSet(C) /\ C \subseteq events
  BY SeenFinite DEF Counted, CountedIn, StatInv
<1>3. \A e \in C : TitleOf(e.target) \in Titles /\ TitleOf(e.target) \in SeenTitles(start)
  BY <1>2, TitleKnown
<1>4. Sizes(LAMBDA g : StatisticsView(r).genres[g], D, byName)
  <2>1. ASSUME NEW g \in D
        PROVE  /\ IsFiniteSet(byName[g])
               /\ Cardinality(byName[g]) = StatisticsView(r).genres[g]
    <3>1. IsFiniteSet(Called(g, start))
      BY <1>2, FS_Subset DEF Called
    <3>2. StatisticsView(r).genres[g] = Cardinality(Called(g, start))
      BY <1>1, GenreOf
    <3>3. /\ IsFiniteSet(Called(g, start) \X {g})
          /\ Cardinality(Called(g, start) \X {g}) = Cardinality(Called(g, start))
      BY <3>1, SizeOfProduct
    <3> QED
      BY <3>2, <3>3
  <2> HIDE DEF byName, D
  <2> QED
    BY <2>1 DEF Sizes
<1>5. Sizes(LAMBDA e : Max({1, Cardinality(Genres[TitleOf(e.target)])}), C, byEvent)
  <2>1. ASSUME NEW e \in C
        PROVE  /\ IsFiniteSet(byEvent[e])
               /\ Cardinality(byEvent[e]) = Max({1, Cardinality(Genres[TitleOf(e.target)])})
    <3> DEFINE t == TitleOf(e.target)
    <3>1. t \in Titles
      BY <1>3
    <3> HIDE DEF t
    <3>2. IsFiniteSet(Names(t)) /\ Cardinality(Names(t)) = Max({1, Cardinality(Genres[t])})
      BY <3>1, NamesAre
    <3>3. IsFiniteSet({e} \X Names(t)) /\ Cardinality({e} \X Names(t)) = Cardinality(Names(t))
      BY <3>2, SizeOfProduct
    <3> QED
      BY <3>2, <3>3 DEF t
  <2> HIDE DEF byEvent, C
  <2> QED
    BY <2>1 DEF Sizes
<1>6. Apart(D, byName) /\ Apart(C, byEvent)
  <2>1. \A g \in D : \A p \in byName[g] : p[2] = g
    OBVIOUS
  <2>2. \A e \in C : \A p \in byEvent[e] : p[1] = e
    OBVIOUS
  <2> QED
    BY <2>1, <2>2 DEF Apart
<1>7. Together(D, byName) = Together(C, byEvent)
  <2>1. ASSUME NEW p \in Together(D, byName) PROVE p \in Together(C, byEvent)
    <3>1. PICK g \in D : p \in Called(g, start) \X {g}
      BY DEF Together
    <3>2. p = <<p[1], p[2]>> /\ p[1] \in Called(p[2], start)
      BY <3>1
    <3>3. p[1] \in C /\ p[2] \in Names(TitleOf(p[1].target))
      BY <3>2 DEF Called
    <3>4. p \in byEvent[p[1]]
      BY <3>2, <3>3
    <3> HIDE DEF C, byEvent
    <3> QED
      BY <3>3, <3>4 DEF Together
  <2>2. ASSUME NEW p \in Together(C, byEvent) PROVE p \in Together(D, byName)
    <3>1. PICK e \in C : p \in {e} \X Names(TitleOf(e.target))
      BY DEF Together
    <3>2. p = <<e, p[2]>> /\ p[2] \in Names(TitleOf(e.target))
      BY <3>1
    <3>3. p[2] \in D /\ e \in Called(p[2], start)
      BY <1>3, <3>2 DEF Called
    <3>4. p \in byName[p[2]]
      BY <3>2, <3>3
    <3> HIDE DEF D, byName
    <3> QED
      BY <3>3, <3>4 DEF Together
  <2> HIDE DEF D, C, byName, byEvent
  <2> QED
    BY <2>1, <2>2
<1>8. IsFiniteSet(D)
  <2> DEFINE f == [e \in C |-> Names(TitleOf(e.target))]
             T == {f[e] : e \in C}
  <2>1. IsFiniteSet(T)
    <3> HIDE DEF f, C
    <3> QED
      BY <1>2, ImageFinite
  <2>2. \A names \in T : IsFiniteSet(names)
    <3> HIDE DEF C
    <3> QED
      BY <1>3, NamesAre
  <2>3. IsFiniteSet(UNION T)
    <3> HIDE DEF T
    <3> QED
      BY <2>1, <2>2, FS_UNION
  <2>4. ASSUME NEW t \in SeenTitles(start)
        PROVE  Names(t) \in T
    <3>1. OfTitle(t, start) # {}
      BY FS_EmptySet DEF SeenTitles
    <3>2. PICK e \in events : TitleOf(e.target) = t /\ e.at >= start
      BY <3>1 DEF OfTitle
    <3>3. e \in C
      BY <3>2 DEF StatInv, Counted
    <3> QED
      BY <3>2, <3>3
  <2>5. D \subseteq UNION T
    <3> HIDE DEF T
    <3> QED
      BY <2>4
  <2> HIDE DEF D, T
  <2> QED
    BY <2>3, <2>5, FS_Subset
<1> HIDE DEF D, C, byName, byEvent
<1>9. MapThenSumSet(LAMBDA g : StatisticsView(r).genres[g], D) = Cardinality(Together(D, byName))
  BY <1>4, <1>6, <1>8, SumOfSizes
<1>10. MapThenSumSet(LAMBDA e : Max({1, Cardinality(Genres[TitleOf(e.target)])}), C)
         = Cardinality(Together(C, byEvent))
  BY <1>2, <1>5, <1>6, SumOfSizes
<1> QED
  BY <1>1, <1>2, <1>7, <1>9, <1>10
-----------------------------------------------------------------------------
LEMMA StartIsInt ==
  ASSUME StatInv, NEW r \in Ranges
  PROVE  RangeStart(r) \in Int
<1> DEFINE n == now \div r.unit
<1>1. r.unit \in Nat \ {0} /\ r.buckets \in Nat /\ now \in Nat
  BY TrackingAssumption DEF StatInv
<1>2. n \in Nat
  BY <1>1, Division
<1>3. RangeStart(r) = IF r.buckets = 0 THEN -1 ELSE (n - (r.buckets - 1)) * r.unit
  BY DEF RangeStart, First
<1> HIDE DEF n
<1> QED
  BY <1>1, <1>2, <1>3

\* What Statistics shows agrees, of any such tables.
LEMMA StatisticsAddUp == ASSUME StatInv PROVE StatisticsAgree
<1> SUFFICES ASSUME NEW r \in Ranges
             PROVE
    LET counted == {e \in events : e.at >= RangeStart(r)}
        timed == {e \in counted : MinutesOf(e) # None}
        again(e) == \E f \in events : f.target = e.target /\ Newer(e, f)
        view == StatisticsView(r)
        genresOf(e) == Max({1, Cardinality(Genres[TitleOf(e.target)])})
    IN  /\ view.watches = Cardinality(counted)
        /\ view.rewatches = Cardinality({e \in counted : again(e)})
        /\ Bars(r) < MaxBars =>
             MapThenSumSet(LAMBDA i : view.bars[i], DOMAIN view.bars) = view.watches
        /\ view.uncounted = Cardinality(counted \ timed)
        /\ view.minutes = MapThenSumSet(MinutesOf, timed)
        /\ view.movies = MapThenSumSet(MinutesOf, {e \in timed : e.target \in Movies})
        /\ MapThenSumSet(LAMBDA g : view.genres[g], DOMAIN view.genres)
             = MapThenSumSet(genresOf, counted)
  BY DEF StatisticsAgree
<1> DEFINE start == RangeStart(r)
           M == Viewing(Movies, start)
           P == Viewing(Episodes, start)
           counted == {e \in events : e.at >= RangeStart(r)}
           timed == {e \in counted : MinutesOf(e) # None}
           view == StatisticsView(r)
<1>1. /\ view.watches = M.watches + P.watches /\ view.rewatches = M.rewatches + P.rewatches
      /\ view.minutes = M.minutes + P.minutes /\ view.uncounted = M.unknown + P.unknown
      /\ view.movies = M.minutes
  BY DEF StatisticsView, Statistics, Plus, Viewing
<1>2. start \in Int
  BY StartIsInt
<1> DEFINE CM == Counted(Movies, start)
           CE == Counted(Episodes, start)
           again == {e \in counted : Again(e)}
<1>3. /\ CM \cup CE = counted /\ CM \cap CE = {} /\ IsFiniteSet(CM) /\ IsFiniteSet(CE)
      /\ Counted(Targets, start) = counted
  <2>1. IsFiniteSet(CM) /\ IsFiniteSet(CE)
    BY SeenFinite
  <2>2. CM \cap CE = {}
    BY TrackingAssumption DEF Counted
  <2>3. CM \cup CE = counted /\ Counted(Targets, start) = counted
    BY DEF Counted, StatInv, Targets
  <2> QED
    BY <2>1, <2>2, <2>3
<1>4. Timed(Movies, start) \subseteq CM /\ Timed(Episodes, start) \subseteq CE
  BY DEF Timed
<1>5. view.watches = Cardinality(counted)
  <2>1. M.watches = Cardinality(CM) /\ P.watches = Cardinality(CE)
    BY WatchesOf
  <2> HIDE DEF CM, CE, counted, view, M, P
  <2>2. Cardinality(CM \cup CE) = Cardinality(CM) + Cardinality(CE)
    BY <1>3, DisjointSizes
  <2> QED
    BY <1>1, <1>3, <2>1, <2>2
<1>6. view.rewatches = Cardinality(again)
  <2> DEFINE AM == {e \in CM : Again(e)}
             AE == {e \in CE : Again(e)}
  <2>1. M.rewatches = Cardinality(AM) /\ P.rewatches = Cardinality(AE)
    BY <1>2, RewatchesOf
  <2>2. AM \cup AE = again /\ AM \cap AE = {}
    <3> HIDE DEF CM, CE, counted
    <3> QED
      BY <1>3
  <2>3. IsFiniteSet(AM) /\ IsFiniteSet(AE)
    <3> HIDE DEF CM, CE
    <3> QED
      BY <1>3, FS_Subset
  <2> HIDE DEF AM, AE, again, view, M, P
  <2>4. Cardinality(AM \cup AE) = Cardinality(AM) + Cardinality(AE)
    BY <2>2, <2>3, DisjointSizes
  <2> QED
    BY <1>1, <2>1, <2>2, <2>4
<1>7. Bars(r) < MaxBars =>
        MapThenSumSet(LAMBDA i : view.bars[i], DOMAIN view.bars) = view.watches
  BY <1>5, BarsAddUp DEF CountedIn
<1>8. view.uncounted = Cardinality(counted \ timed)
  <2> DEFINE UM == CM \ Timed(Movies, start)
             UE == CE \ Timed(Episodes, start)
  <2>1. M.unknown = Cardinality(UM) /\ P.unknown = Cardinality(UE)
    BY ViewingIs
  <2>2. UM \cup UE = counted \ timed /\ UM \cap UE = {}
    BY <1>3 DEF Timed
  <2>3. IsFiniteSet(UM) /\ IsFiniteSet(UE)
    <3> HIDE DEF CM, CE
    <3> QED
      BY <1>3, FS_Subset
  <2> HIDE DEF UM, UE, counted, timed, view, M, P
  <2>4. Cardinality(UM \cup UE) = Cardinality(UM) + Cardinality(UE)
    BY <2>2, <2>3, DisjointSizes
  <2> QED
    BY <1>1, <2>1, <2>2, <2>4
<1>9. view.minutes = MapThenSumSet(MinutesOf, timed)
  <2>1. /\ M.minutes = MapThenSumSet(MinutesOf, Timed(Movies, start))
        /\ P.minutes = MapThenSumSet(MinutesOf, Timed(Episodes, start))
    BY ViewingIs
  <2>2. Timed(Targets, start) = timed
    BY <1>3 DEF Timed
  <2> HIDE DEF timed, view, M, P, start
  <2> QED
    BY <1>1, <2>1, <2>2, MinutesOfBoth
<1>10. view.movies = MapThenSumSet(MinutesOf, {e \in timed : e.target \in Movies})
  <2>1. M.minutes = MapThenSumSet(MinutesOf, Timed(Movies, start))
    BY ViewingIs
  <2>2. Timed(Movies, start) = {e \in timed : e.target \in Movies}
    BY DEF Timed, Counted
  <2> HIDE DEF timed, view, M
  <2> QED
    BY <1>1, <2>1, <2>2
<1>11. MapThenSumSet(LAMBDA g : view.genres[g], DOMAIN view.genres)
        = MapThenSumSet(LAMBDA e : Max({1, Cardinality(Genres[TitleOf(e.target)])}), counted)
  BY GenresAddUp DEF CountedIn
<1>12. again = {e \in counted : \E f \in events : f.target = e.target /\ Newer(e, f)}
  BY DEF Again
<1> HIDE DEF again
<1> QED
  BY <1>5, <1>6, <1>7, <1>8, <1>9, <1>10, <1>11, <1>12
-----------------------------------------------------------------------------
\* Every step keeps the tables that Statistics reads as they should be.

LEMMA RecordCounts ==
  ASSUME LogInv, StatInv, NEW xs, Placed(xs), Record(xs), \A x \in xs : Stored(x),
         UNCHANGED <<runtime, now>>
  PROVE  StatInv'
<1> DEFINE f == [x \in xs |-> EntryOf(x, xs)]
           T == {f[x] : x \in xs}
<1>1. IsFiniteSet(T)
  <2> HIDE DEF f
  <2> QED
    BY ImageFinite DEF Placed
<1>2. events' = events \cup T
  BY DEF Record, EntryOf
<1>3. IsFiniteSet(events')
  <2> HIDE DEF T
  <2> QED
    BY <1>1, <1>2, FS_Union DEF StatInv
<1>4. \A e, g \in events' : e.id = g.id => e = g
  BY RecordGrows
<1>5. ASSUME NEW x \in xs
      PROVE  LET e == EntryOf(x, xs) IN
               e.id \in Nat /\ e.target \in Targets /\ e.at \in Nat /\ e.minutes \in Nat \cup {None}
  <2>1. x \in Targets /\ Place(x, xs) \in Nat /\ lastId \in Nat /\ now \in Nat
    BY DEF Placed, LogInv
  <2>2. runtime[x] \in Nat \cup {None}
    BY <2>1 DEF Stored, StatInv
  <2> QED
    BY <2>1, <2>2 DEF EntryOf
<1>6. \A e \in events' :
        e.id \in Nat /\ e.target \in Targets /\ e.at \in Nat /\ e.minutes \in Nat \cup {None}
  <2>1. \A e \in T : \E x \in xs : e = EntryOf(x, xs)
    OBVIOUS
  <2> HIDE DEF T
  <2> QED
    BY <1>2, <1>5, <2>1 DEF StatInv
<1> QED
  BY <1>3, <1>4, <1>6 DEF StatInv

LEMMA StepCounts ==
  ASSUME LogInv, StatInv, TrackingStep
  PROVE  StatInv'
<1>1. ASSUME NEW x \in Targets, NEW again \in BOOLEAN, Watch(x, again) PROVE StatInv'
  <2>1. Placed({x}) /\ Record({x}) /\ Stored(x) /\ UNCHANGED <<runtime, now>>
    BY <1>1, OnePlaced DEF Watch
  <2> QED
    BY <2>1, RecordCounts
<1>2. ASSUME NEW s \in Series, WatchSeason(s) PROVE StatInv'
  <2> DEFINE new == Season(s) \ Watched
  <2>1. Placed(new)
    BY SeasonPlaced DEF Season
  <2>2. Record(new) /\ UNCHANGED <<runtime, now>>
    BY <1>2 DEF WatchSeason
  <2>3. \A x \in new : Stored(x)
    BY DEF Season
  <2> HIDE DEF new
  <2> QED
    BY <2>1, <2>2, <2>3, RecordCounts
<1>3. ASSUME NEW id, Delete(id) PROVE StatInv'
  <2>1. events' \subseteq events /\ UNCHANGED <<runtime, now>>
    BY <1>3 DEF Delete
  <2>2. IsFiniteSet(events')
    BY <2>1, FS_Subset DEF StatInv
  <2> QED
    BY <2>1, <2>2 DEF StatInv
<1>4. ASSUME NEW x \in Targets, NEW row, Refresh(x, row) PROVE StatInv'
  <2>1. row.minutes \in Nat \cup {None, Gone} /\ runtime' = [runtime EXCEPT ![x] = row.minutes]
    BY <1>4, TrackingAssumption DEF Refresh, Column
  <2>2. \A y \in Targets : runtime'[y] \in Nat \cup {None, Gone}
    BY <2>1 DEF StatInv
  <2>3. UNCHANGED <<events, now>>
    BY <1>4 DEF Refresh
  <2> QED
    BY <2>2, <2>3 DEF StatInv
<1>5. CASE \/ \E x \in Targets : Unwatch(x)
           \/ \E s \in Series : UnwatchSeason(s)
           \/ Clock \/ UNCHANGED tracking
  <2>1. UNCHANGED <<events, runtime>> /\ now' \in Nat
    BY <1>5, TrackingAssumption
       DEF Unwatch, UnwatchSeason, Clock, Time, tracking, StatInv
  <2> QED
    BY <2>1 DEF StatInv
<1> QED
  BY <1>1, <1>2, <1>3, <1>4, <1>5 DEF TrackingStep

LEMMA StatStarts == Init => StatInv
<1> SUFFICES ASSUME Init PROVE StatInv
  OBVIOUS
<1>1. IsFiniteSet(events)
  BY FS_EmptySet DEF Init, TrackingInit
<1> QED
  BY <1>1, TrackingAssumption DEF Init, TrackingInit, StatInv

\* Statistics of one history agrees, for every range and genre, any number of
\* titles, episodes, watches and minutes, and after any clock change.
THEOREM StatisticsAlwaysAgree == Spec => []StatisticsAgree
<1> DEFINE Inv == LogInv /\ StatInv
<1>1. Init => Inv
  BY LogStarts, StatStarts
<1>2. Inv /\ [Next]_vars => Inv'
  <2> SUFFICES ASSUME LogInv, StatInv, [Next]_vars PROVE StatInv'
    BY LogStays
  <2>1. TrackingStep
    BY WindowTracks DEF vars, TrackingStep
  <2> QED
    BY <2>1, StepCounts
<1>3. Inv => StatisticsAgree
  BY StatisticsAddUp
<1> QED
  BY <1>1, <1>2, <1>3, PTL DEF Spec
-----------------------------------------------------------------------------
(* What is on screen. *)

IsPane(p) == p = [title |-> p.title, watched |-> p.watched, episodes |-> p.episodes]

\* List, rows and pane belong together and to the data.
ChoiceInv ==
  /\ member \subseteq Titles /\ IsPane(pane)
  /\ list = member \cap filter /\ marked = Watched
  /\ PaneIsChosen

\* `reload` makes them so again, from a pane that is.
LEMMA ReloadChooses ==
  ASSUME NEW titles \in SUBSET Titles, NEW found, NEW old, NEW watched, NEW stored,
         IsPane(old), old.watched = Ticks(old.title, watched), watched = Watched',
         Reload(titles, found, old, watched, stored)
  PROVE  list' = titles \cap found /\ marked' = Watched' /\ IsPane(pane)' /\ PaneIsChosen'
<1>1. /\ list' = titles \cap found /\ marked' = Watched' /\ selectedId' = selected'
      /\ pane' = Follow(selected', old, watched, stored)
  BY DEF Reload, Show, Matching
<1>2. pane'.title = selected' /\ pane'.watched = Ticks(selected', watched) /\ IsPane(pane)'
  BY <1>1 DEF Follow, Read, IsPane
<1>3. None \notin list'
  BY <1>1, PagesAssumption
<1> QED
  BY <1>1, <1>2, <1>3 DEF PaneIsChosen

\* A title that is opened from another page is shown, listed or not.
LEMMA OpenChooses ==
  ASSUME ChoiceInv, NEW t, OpenMedia(t)
  PROVE  ChoiceInv'
<1>1. /\ list' = member /\ filter' = Titles /\ marked' = Watched /\ selectedId' = t
      /\ selected' = IF t \in member THEN t ELSE None
      /\ pane' = Follow(t, pane, Watched, StoredTargets)
      /\ UNCHANGED <<tracking, member>>
  BY DEF OpenMedia, Show
<1>2. Watched' = Watched
  BY <1>1 DEF Watched, tracking
<1>3. pane'.title = t /\ pane'.watched = Ticks(t, Watched) /\ IsPane(pane)'
  BY <1>1 DEF Follow, Read, IsPane, ChoiceInv, PaneIsChosen
<1>4. None \notin member
  BY PagesAssumption DEF ChoiceInv
<1>5. PaneIsChosen'
  BY <1>1, <1>2, <1>3, <1>4 DEF PaneIsChosen
<1> QED
  BY <1>1, <1>2, <1>3, <1>5 DEF ChoiceInv

\* So does every announcement, whoever makes it.
LEMMA AnnounceChooses ==
  ASSUME ChoiceInv, NEW old, IsPane(old), UNCHANGED member,
         old.watched = Ticks(old.title, Watched'), NEW stored,
         Announce(member, old, Watched', stored)
  PROVE  ChoiceInv'
  BY ReloadChooses DEF Announce, ChoiceInv

LEMMA ChoiceStays == ASSUME ChoiceInv, [Next]_vars PROVE ChoiceInv'
<1>0. member \subseteq Titles /\ IsPane(pane) /\ pane.watched = Ticks(pane.title, Watched)
  BY DEF ChoiceInv, PaneIsChosen
<1>1. ASSUME UNCHANGED <<watchedAt, member, rows>> PROVE ChoiceInv'
  BY <1>1 DEF ChoiceInv, PaneIsChosen, IsPane, Watched, rows
<1>2. ASSUME UNCHANGED tracking PROVE Watched' = Watched
  BY <1>2 DEF Watched, tracking
<1>3. CASE (\E p \in PageNames : OpenPage(p)) \/ (\E amount \in {-1, 1} : ShiftMonth(amount))
            \/ (\E day \in Days : SelectDay(day)) \/ MarkAllRead \/ TimePasses \/ UNCHANGED vars
  BY <1>1, <1>3 DEF OpenPage, ShiftMonth, SelectDay, MarkAllRead, TimePasses, Clock, tracking,
       window, vars
<1>4. CASE \E e \in events : DeleteEntry(e)
  BY <1>1, <1>4 DEF DeleteEntry, Delete
<1>5. CASE \E found \in Searches : Search(found)
  <2>1. PICK found \in Searches :
          /\ Reload(member, found, pane, Watched, StoredTargets)
          /\ filter' = found /\ UNCHANGED <<tracking, member>>
    BY <1>5 DEF Search
  <2>2. list' = member \cap found /\ marked' = Watched' /\ IsPane(pane)' /\ PaneIsChosen'
    BY <1>0, <1>2, <2>1, ReloadChooses
  <2> QED
    BY <1>0, <2>1, <2>2 DEF ChoiceInv
<1>6. CASE \E t \in Titles : SelectRow(t)
  <2>1. PICK t \in Titles :
          /\ t \in list /\ selected' = t /\ selectedId' = t
          /\ pane' = Follow(t, pane, Watched, StoredTargets)
          /\ UNCHANGED <<tracking, member, filter, list, marked>>
    BY <1>6 DEF SelectRow, Show
  <2>2. pane'.title = t /\ pane'.watched = Ticks(t, Watched) /\ IsPane(pane)'
    BY <1>0, <2>1 DEF Follow, Read, IsPane
  <2>3. PaneIsChosen'
    BY <1>2, <2>1, <2>2, PagesAssumption DEF PaneIsChosen
  <2> QED
    BY <1>2, <2>1, <2>2, <2>3 DEF ChoiceInv
<1>7. CASE (\E t \in Titles : OpenFromHome(t) \/ OpenFromDiscover(t))
            \/ (\E e \in events : OpenFromHistory(e)) \/ (\E s \in Series : OpenFromUpdates(s))
            \/ (\E x \in Episodes : OpenFromCalendar(x))
  BY <1>7, OpenChooses DEF OpenFromHome, OpenFromDiscover, OpenFromHistory, OpenFromUpdates,
       OpenFromCalendar
<1>8. CASE (\E t \in Titles : AddTitle(t)) \/ RemoveTitle
  <2>1. /\ Reload(member', filter, pane, Watched, StoredTargets)
        /\ member' \subseteq Titles /\ UNCHANGED <<tracking, filter>>
    BY <1>0, <1>8 DEF AddTitle, RemoveTitle
  <2>2. list' = member' \cap filter /\ marked' = Watched' /\ IsPane(pane)' /\ PaneIsChosen'
    BY <1>0, <1>2, <2>1, ReloadChooses
  <2> QED
    BY <2>1, <2>2 DEF ChoiceInv
<1>9. CASE Tracked
  <2> DEFINE reread == [pane EXCEPT !.watched = Ticks(pane.title, Watched')]
  <2>1. Announce(member, reread, Watched', StoredTargets') /\ UNCHANGED member
    BY <1>9 DEF Tracked
  <2>2. reread = [title |-> pane.title, watched |-> Ticks(pane.title, Watched'), episodes |-> pane.episodes]
    BY <1>0 DEF IsPane
  <2>3. IsPane(reread) /\ reread.watched = Ticks(reread.title, Watched')
    BY <2>2 DEF IsPane
  <2> HIDE DEF reread
  <2> QED
    BY <2>1, <2>3, AnnounceChooses
<1>10. CASE AnswerArrives
  <2>1. PICK x \in Targets, own \in BOOLEAN :
          /\ Announce(member, IF own /\ TitleOf(x) = pane.title
                              THEN Read(TitleOf(x), Watched, StoredTargets') ELSE pane,
                      Watched, StoredTargets')
          /\ UNCHANGED <<watchedAt, member>>
    BY <1>10 DEF AnswerArrives, Answer, Refresh
  <2>2. Watched' = Watched
    BY <2>1 DEF Watched
  <2>3. CASE own /\ TitleOf(x) = pane.title
    <3> DEFINE reread == Read(TitleOf(x), Watched, StoredTargets')
    <3>1. IsPane(reread) /\ reread.watched = Ticks(reread.title, Watched)
      BY DEF Read, IsPane
    <3>2. Announce(member, reread, Watched', StoredTargets')
      BY <2>1, <2>2, <2>3
    <3> HIDE DEF reread
    <3> QED
      BY <2>1, <2>2, <3>1, <3>2, AnnounceChooses
  <2>4. CASE ~(own /\ TitleOf(x) = pane.title)
    <3>1. Announce(member, pane, Watched', StoredTargets')
      BY <2>1, <2>2, <2>4
    <3> QED
      BY <1>0, <2>1, <2>2, <3>1, AnnounceChooses
  <2> QED
    BY <2>3, <2>4
<1>11. (\E x \in Targets : Toggle(x)) \/ (\E m \in Movies : WatchAgain(m))
         \/ (\E s \in Series, watched \in BOOLEAN : ToggleSeason(s, watched)) => Tracked
  BY DEF Toggle, WatchAgain, ToggleSeason
<1> QED
  BY <1>3, <1>4, <1>5, <1>6, <1>7, <1>8, <1>9, <1>10, <1>11 DEF Next, Navigate, Change

LEMMA ChoiceStarts == Init => ChoiceInv
<1> SUFFICES ASSUME Init PROVE ChoiceInv
  OBVIOUS
<1>1. member \subseteq Titles /\ list = member /\ filter = Titles /\ marked = {} /\ Watched = {}
  BY DEF Init, TrackingInit, Watched
<1>2. /\ selectedId = selected /\ pane.title = selected /\ pane.watched = Ticks(selected, {})
      /\ IsPane(pane)
  BY DEF Init, Read, IsPane
<1> QED
  BY <1>1, <1>2, PagesAssumption DEF ChoiceInv, PaneIsChosen

\* The pane, its ticks and its Remove button are about the one title chosen,
\* however it was chosen and whatever happened to it since.
THEOREM PaneStaysChosen == Spec => []PaneIsChosen
<1>1. ChoiceInv => PaneIsChosen
  BY DEF ChoiceInv
<1> QED
  BY <1>1, ChoiceStarts, ChoiceStays, PTL DEF Spec
-----------------------------------------------------------------------------
(* What the page on screen shows. *)

IsCalendar(c) == c = [first |-> c.first, day |-> c.day] /\ c.first \in Nat \cup {None}

CalendarInv == IsCalendar(calendar) /\ (page = "calendar" => calendar.first # None)

Shown == IF page = "home" THEN shown.today ELSE now
Fresh ==
  IF page = "history" THEN Lists(shown.entries, Newest(events, HistoryLimit))
  ELSE shown = Content(page, Shown)

LEMMA MonthIsNat == ASSUME NEW day \in Nat PROVE MonthOf(day) \in Nat
  BY PagesAssumption DEF MonthOf

LEMMA LoadedMonth ==
  ASSUME CalendarInv, now \in Nat, LoadMonth
  PROVE  IsCalendar(calendar)' /\ calendar'.first # None
<1>1. PICK m : m \in Nat /\ ShowMonth(m)
  BY MonthIsNat DEF LoadMonth, CalendarInv, IsCalendar
<1>2. PICK day : calendar' = [first |-> m, day |-> day]
  BY <1>1 DEF ShowMonth
<1> QED
  BY <1>1, <1>2, TrackingAssumption DEF IsCalendar

LEMMA CalendarStays ==
  ASSUME CalendarInv, now \in Nat, [Next]_vars
  PROVE  CalendarInv'
<1>1. CASE UNCHANGED <<calendar, page>>
  BY <1>1 DEF CalendarInv, IsCalendar
<1>2. CASE calendar' = calendar /\ page' # "calendar"
  BY <1>2 DEF CalendarInv, IsCalendar
<1>3. CASE page' = "calendar" /\ LoadMonth
  BY <1>3, LoadedMonth DEF CalendarInv
<1>4. CASE \E amount \in {-1, 1} : ShiftMonth(amount)
  <2>1. PICK m : m \in Months /\ ShowMonth(m)
    BY <1>4 DEF ShiftMonth
  <2>2. PICK day : calendar' = [first |-> m, day |-> day]
    BY <2>1 DEF ShowMonth
  <2> QED
    BY <2>1, <2>2, PagesAssumption, TrackingAssumption DEF CalendarInv, IsCalendar
<1>5. CASE \E day \in Days : SelectDay(day)
  <2>1. PICK day : calendar' = [calendar EXCEPT !.day = day] /\ page' = page
    BY <1>5 DEF SelectDay
  <2>2. calendar' = [first |-> calendar.first, day |-> day]
    BY <2>1 DEF CalendarInv, IsCalendar
  <2> QED
    BY <2>1, <2>2 DEF CalendarInv, IsCalendar
<1>6. CASE \E p \in PageNames : OpenPage(p)
  <2>1. PICK p \in PageNames : page' = p /\ IF p = "calendar" THEN LoadMonth ELSE calendar' = calendar
    BY <1>6 DEF OpenPage
  <2> QED
    BY <1>2, <1>3, <2>1
<1>7. ASSUME NEW t, OpenMedia(t) PROVE CalendarInv'
  BY <1>2, <1>7 DEF OpenMedia
<1>8. CASE (\E t \in Titles : OpenFromHome(t) \/ OpenFromDiscover(t))
            \/ (\E e \in events : OpenFromHistory(e)) \/ (\E s \in Series : OpenFromUpdates(s))
            \/ (\E x \in Episodes : OpenFromCalendar(x))
  BY <1>7, <1>8 DEF OpenFromHome, OpenFromDiscover, OpenFromHistory, OpenFromUpdates,
       OpenFromCalendar
<1>9. CASE (\E found \in Searches : Search(found)) \/ (\E t \in Titles : SelectRow(t) \/ AddTitle(t))
            \/ RemoveTitle \/ (\E e \in events : DeleteEntry(e)) \/ MarkAllRead \/ TimePasses
            \/ UNCHANGED vars
  BY <1>1, <1>9 DEF Search, SelectRow, AddTitle, RemoveTitle, DeleteEntry, MarkAllRead, TimePasses,
       window, vars
<1>10. ASSUME NEW titles, NEW old, NEW watched, NEW stored, Announce(titles, old, watched, stored)
       PROVE  CalendarInv'
  <2>1. page' = page /\ IF page = "calendar" THEN LoadMonth ELSE calendar' = calendar
    BY <1>10 DEF Announce
  <2> QED
    BY <1>1, <1>3, <2>1
<1>11. CASE Change \/ AnswerArrives
  BY <1>9, <1>10, <1>11 DEF Change, Toggle, WatchAgain, ToggleSeason, Tracked,
       AnswerArrives, Answer
<1> QED
  BY <1>4, <1>5, <1>6, <1>8, <1>9, <1>11 DEF Next, Navigate
-----------------------------------------------------------------------------
\* A page reads nothing but the tables, and the month kept for it.
LEMMA SameContent ==
  ASSUME UNCHANGED <<member, news, watchedAt, runtime, called, events>>, NEW p, NEW day,
         p = "calendar" => calendar'.first = calendar.first
  PROVE  Content(p, day)' = Content(p, day)
<1>1. /\ Watched' = Watched /\ \A s : Season(s)' = Season(s)
      /\ \A from, end : Airing(from, end)' = Airing(from, end)
  BY DEF Watched, Season, Airing, Stored
<1>2. HomeContent(day)' = HomeContent(day)
  <2>1. Continue' = Continue
    BY <1>1 DEF Continue
  <2>2. \A s : NextKnown(Season(s) \ Watched)' = NextKnown(Season(s) \ Watched)
    BY <1>1
  <2>3. ComingSoon(day)' = ComingSoon(day)
    BY <1>1 DEF ComingSoon
  <2> HIDE DEF Continue, Season, Watched, ComingSoon
  <2> QED
    BY <1>1, <2>1, <2>2, <2>3 DEF HomeContent, RecentHistory
<1>3. p = "calendar" => CalendarContent(calendar.first)' = CalendarContent(calendar.first)
  BY <1>1 DEF CalendarContent
<1>4. HistoryContent' = HistoryContent
  BY DEF HistoryContent, RecentHistory
<1>5. UpdatesContent' = UpdatesContent
  BY DEF UpdatesContent
<1> QED
  BY <1>2, <1>3, <1>4, <1>5 DEF Content, Nothing

\* History, once read, lists the newest events.
LEMMA HistoryListsThen ==
  ASSUME (shown = [entries |-> HistoryContent])'
  PROVE  Lists(shown.entries, Newest(events, HistoryLimit))'
<1> DEFINE log == Newest(events', HistoryLimit)
<1>1. shown'.entries = [i \in DOMAIN log |-> [event |-> log[i], name |-> called'[log[i].target]]]
  BY DEF HistoryContent, RecentHistory
<1> HIDE DEF log
<1>2. Lists(shown'.entries, log)
  BY <1>1 DEF Lists
<1> QED
  BY <1>2 DEF log

\* A page that is read is current, one whose tables stay as they are stays so,
\* and Discover and the list read nothing.
LEMMA ReadIsFresh ==
  ASSUME NEW p, page' = p, shown' = Content(p, now)'
  PROVE  Fresh'
<1>1. CASE p = "home"
  <2>1. shown' = HomeContent(now)'
    BY <1>1 DEF Content
  <2>2. shown'.today = now'
    BY <2>1 DEF HomeContent
  <2> QED
    BY <1>1, <2>2 DEF Fresh, Shown
<1>2. CASE p = "history"
  <2>1. (shown = [entries |-> HistoryContent])'
    BY <1>2 DEF Content
  <2>2. Lists(shown.entries, Newest(events, HistoryLimit))'
    BY <2>1, HistoryListsThen
  <2> QED
    BY <1>2, <2>2 DEF Fresh
<1>3. CASE p \notin {"home", "history"}
  BY <1>3 DEF Fresh, Shown
<1> QED
  BY <1>1, <1>2, <1>3

LEMMA ContentOfDay ==
  ASSUME NEW p, NEW day, NEW other, p # "home"
  PROVE  Content(p, day) = Content(p, other)
  BY DEF Content

LEMMA UnmovedIsFresh ==
  ASSUME Fresh, UNCHANGED <<page, shown, member, news, watchedAt, runtime, called, events>>,
         page = "calendar" => calendar'.first = calendar.first
  PROVE  Fresh'
<1>2. CASE page = "home"
  <2>1. shown = Content("home", shown.today)
    BY <1>2 DEF Fresh, Shown
  <2>2. Content("home", shown.today)' = Content("home", shown.today)
    BY SameContent
  <2> QED
    BY <1>2, <2>1, <2>2 DEF Fresh, Shown
<1>4. CASE page = "history"
  BY <1>4 DEF Fresh
<1>3. CASE page \notin {"home", "history"}
  <2>1. shown = Content(page, now)
    BY <1>3 DEF Fresh, Shown
  <2>2. Content(page, now)' = Content(page, now)
    BY <1>3, SameContent, ContentOfDay
  <2> QED
    BY <1>3, <2>1, <2>2 DEF Fresh, Shown
<1> QED
  BY <1>2, <1>3, <1>4

LEMMA NothingIsFresh ==
  ASSUME page' \in {"library", "discover"}, shown' = Nothing
  PROVE  Fresh'
  BY DEF Fresh, Shown, Content, Nothing

LEMMA QuietPage ==
  ASSUME Fresh, page \in {"library", "discover"}
  PROVE  shown = Nothing
  BY DEF Fresh, Shown, Content, Nothing

\* An announcement reads again what it may have changed: History is on screen
\* only when the history stays as it is.
LEMMA AnnounceIsFresh ==
  ASSUME Fresh, page \in PageNames, NEW titles, NEW old, NEW watched, NEW stored,
         Announce(titles, old, watched, stored),
         page = "history" => events' = events
  PROVE  Fresh'
<1>1. page' = page
  BY DEF Announce
<1>2. CASE page \in {"home", "calendar", "updates"}
  <2>1. shown' = Content(page, now)'
    BY <1>2 DEF Announce
  <2> QED
    BY <1>1, <2>1, ReadIsFresh
<1>3. CASE page = "history"
  <2>1. shown' = shown /\ events' = events
    BY <1>3 DEF Announce
  <2> QED
    BY <1>1, <1>3, <2>1 DEF Fresh
<1>4. CASE page \in {"library", "discover"}
  BY <1>1, <1>4, QuietPage, NothingIsFresh DEF Announce
<1> QED
  BY <1>2, <1>3, <1>4 DEF PageNames
-----------------------------------------------------------------------------
PageInv == page \in PageNames /\ CalendarInv /\ Fresh

LEMMA PageStays ==
  ASSUME PageInv, now \in Nat, [Next]_vars
  PROVE  PageInv'
<1>0. page \in PageNames /\ CalendarInv /\ Fresh /\ CalendarInv'
  BY CalendarStays DEF PageInv
<1>1. page' \in PageNames
  <2>1. CASE Navigate
    BY <1>0, <2>1 DEF Navigate, OpenPage, Search, SelectRow, OpenFromHome, OpenFromDiscover,
         OpenFromHistory, OpenFromUpdates, ShiftMonth, SelectDay, OpenFromCalendar, OpenMedia, PageNames
  <2>2. CASE Change
    BY <1>0, <2>2 DEF Change, AddTitle, RemoveTitle, Toggle, WatchAgain, ToggleSeason, DeleteEntry,
         MarkAllRead, Tracked, Announce
  <2>3. CASE AnswerArrives \/ TimePasses
    BY <1>0, <2>3 DEF AnswerArrives, Answer, Announce, TimePasses, window
  <2> QED
    BY <1>0, <2>1, <2>2, <2>3 DEF Next, vars, window
<1> SUFFICES Fresh'
  BY <1>0, <1>1 DEF PageInv
<1>2. CASE (\E p \in PageNames : OpenPage(p)) \/ (\E amount \in {-1, 1} : ShiftMonth(amount))
            \/ (\E e \in events : DeleteEntry(e)) \/ MarkAllRead
  <2>1. CASE \E p \in PageNames : OpenPage(p)
    <3>1. PICK p \in PageNames : page' = p /\ shown' = Content(p, now)'
      BY <2>1 DEF OpenPage
    <3> QED
      BY <3>1, ReadIsFresh
  <2>2. CASE \E amount \in {-1, 1} : ShiftMonth(amount)
    <3>1. page' = "calendar" /\ shown' = Content("calendar", now)'
      BY <2>2 DEF ShiftMonth
    <3> QED
      BY <3>1, ReadIsFresh
  <2>3. CASE \E e \in events : DeleteEntry(e)
    <3>1. page' = "history" /\ shown' = Content("history", now)'
      BY <2>3 DEF DeleteEntry
    <3> QED
      BY <3>1, ReadIsFresh
  <2>4. CASE MarkAllRead
    BY <2>4 DEF MarkAllRead, Fresh, Shown, Content
  <2> QED
    BY <1>2, <2>1, <2>2, <2>3, <2>4
<1>3. CASE (\E day \in Days : SelectDay(day)) \/ (\E found \in Searches : Search(found))
            \/ (\E t \in Titles : SelectRow(t)) \/ TimePasses \/ UNCHANGED vars
  <2>1. UNCHANGED <<page, shown, member, news, watchedAt, runtime, called, events>>
    BY <1>3 DEF SelectDay, Search, SelectRow, TimePasses, Clock, vars, window, tracking
  <2>2. calendar'.first = calendar.first
    BY <1>0, <1>3 DEF SelectDay, Search, SelectRow, TimePasses, vars, window, CalendarInv, IsCalendar
  <2> QED
    BY <1>0, <2>1, <2>2, UnmovedIsFresh
<1>4. ASSUME NEW t, OpenMedia(t) PROVE Fresh'
  BY <1>4, NothingIsFresh DEF OpenMedia
<1>5. CASE (\E t \in Titles : OpenFromHome(t) \/ OpenFromDiscover(t))
            \/ (\E e \in events : OpenFromHistory(e)) \/ (\E s \in Series : OpenFromUpdates(s))
            \/ (\E x \in Episodes : OpenFromCalendar(x))
  BY <1>4, <1>5 DEF OpenFromHome, OpenFromDiscover, OpenFromHistory, OpenFromUpdates,
       OpenFromCalendar
<1>6. CASE (\E t \in Titles : AddTitle(t)) \/ RemoveTitle
  <2>1. page \in {"library", "discover"} /\ page' = page /\ shown' = shown
    BY <1>6 DEF AddTitle, RemoveTitle
  <2> QED
    BY <1>0, <2>1, QuietPage, NothingIsFresh
<1>7. CASE (\E x \in Targets : Toggle(x)) \/ (\E m \in Movies : WatchAgain(m))
            \/ (\E s \in Series, watched \in BOOLEAN : ToggleSeason(s, watched))
  <2>1. page = "library" /\ Tracked
    BY <1>7 DEF Toggle, WatchAgain, ToggleSeason
  <2> QED
    BY <1>0, <2>1, AnnounceIsFresh DEF Tracked
<1>8. CASE AnswerArrives
  <2>1. events' = events
    BY <1>8 DEF AnswerArrives, Answer, Refresh
  <2> QED
    BY <1>0, <1>8, <2>1, AnnounceIsFresh DEF AnswerArrives, Answer
<1> QED
  BY <1>0, <1>1, <1>2, <1>3, <1>4, <1>5, <1>6, <1>7, <1>8 DEF Next, Navigate, Change

LEMMA PageStarts == Init => PageInv
<1> SUFFICES ASSUME Init PROVE PageInv
  OBVIOUS
<1>1. page = "library" /\ shown = Nothing /\ calendar = [first |-> None, day |-> 0]
  BY DEF Init
<1> QED
  BY <1>1 DEF PageInv, PageNames, CalendarInv, IsCalendar, Fresh, Shown, Content, Nothing

\* `start_of_month` and the start of the next one hold exactly the month's days.
LEMMA DaysOfMonth ==
  ASSUME NEW m \in Nat, NEW day \in m * MonthDays..(m + 1) * MonthDays - 1
  PROVE  MonthOf(day) = m
<1>1. day - m * MonthDays \in 0..MonthDays - 1
  BY PagesAssumption, SMT
<1> QED
  BY <1>1, PagesAssumption, SMT DEF MonthOf

\* What the calendar lists airs in the month it names.
LEMMA MonthIsNamed ==
  ASSUME PageInv, page = "calendar"
  PROVE  \A x \in shown.events : MonthOf(Aired[x]) = calendar.first
<1>1. shown.events = Airing(calendar.first * MonthDays, (calendar.first + 1) * MonthDays)
  BY DEF PageInv, Fresh, Shown, Content, CalendarContent
<1>2. calendar.first \in Nat
  BY DEF PageInv, CalendarInv, IsCalendar
<1> QED
  BY <1>1, <1>2, DaysOfMonth DEF Airing

\* Whatever page a change is made from, by the user or by an answer, what is on
\* screen is what the tables say, but for the names on History: every handler
\* announces enough, and every other page listens to enough, for any number of
\* titles, episodes, days and months.
THEOREM PagesStayCurrent == Spec => []PagesAreCurrent
<1> DEFINE WindowInv == LogInv /\ ChoiceInv /\ PageInv
<1>1. Init => WindowInv
  BY LogStarts, ChoiceStarts, PageStarts
<1>2. WindowInv /\ [Next]_vars => WindowInv'
  BY LogStays, ChoiceStays, PageStays DEF LogInv
<1>3. WindowInv => PagesAreCurrent
  BY MonthIsNamed DEF PageInv, ChoiceInv, Fresh, Shown, PagesAreCurrent
<1> QED
  BY <1>1, <1>2, <1>3, PTL DEF Spec
-----------------------------------------------------------------------------
(* Types. *)

LEMMA RecordTypes ==
  ASSUME LogInv, TrackingTypeOK, NEW xs, Placed(xs), Record(xs), \A x \in xs : Stored(x)
  PROVE  /\ \A e \in events' : e \in Event
         /\ lastId' \in 0..MaxEvents
<1>1. Cardinality(xs) \in Nat /\ xs \subseteq Targets
  BY FS_CardinalityType DEF Placed
<1>2. lastId \in 0..MaxEvents /\ lastId' = lastId + Cardinality(xs) /\ lastId' <= MaxEvents
  BY DEF Record, TrackingTypeOK
<1>3. lastId' \in 0..MaxEvents
  BY <1>1, <1>2, TrackingAssumption
<1>4. ASSUME NEW x \in xs
      PROVE  EntryOf(x, xs) \in Event
  <2>1. lastId + Place(x, xs) \in 1..MaxEvents
    <3>1. Place(x, xs) \in 1..Cardinality(xs)
      BY DEF Placed
    <3> QED
      BY <1>1, <1>2, <3>1, TrackingAssumption
  <2>2. runtime[x] \in Nat \cup {None}
    BY <1>1 DEF Stored, TrackingTypeOK
  <2>3. now \in Time /\ x \in Targets
    BY <1>1 DEF TrackingTypeOK
  <2> QED
    BY <2>1, <2>2, <2>3 DEF EntryOf, Event
<1>5. events' = events \cup {EntryOf(x, xs) : x \in xs}
  BY DEF Record, EntryOf
<1> HIDE DEF EntryOf
<1>6. \A e \in events' : e \in Event
  BY <1>4, <1>5 DEF TrackingTypeOK
<1> QED
  BY <1>3, <1>6

LEMMA TrackingTypes ==
  ASSUME LogInv, TrackingTypeOK, TrackingStep
  PROVE  TrackingTypeOK'
<1>0. /\ watchedAt \in [Targets -> Time \cup {None}]
      /\ runtime \in [Targets -> Nat \cup {None, Gone}]
      /\ \A e \in events : e \in Event
      /\ lastId \in 0..MaxEvents /\ now \in Time
  BY DEF TrackingTypeOK
<1>1. ASSUME NEW xs, Placed(xs), Record(xs), \A x \in xs : Stored(x), UNCHANGED <<runtime, called, now>>,
             watchedAt' \in [Targets -> Time \cup {None}]
      PROVE  TrackingTypeOK'
  <2>1. (\A e \in events' : e \in Event) /\ lastId' \in 0..MaxEvents
    BY <1>1, RecordTypes
  <2> QED
    BY <1>0, <1>1, <2>1 DEF TrackingTypeOK
<1>2. ASSUME NEW x \in Targets, NEW again \in BOOLEAN, Watch(x, again) PROVE TrackingTypeOK'
  <2>1. /\ Placed({x}) /\ Record({x}) /\ Stored(x) /\ UNCHANGED <<runtime, called, now>>
        /\ watchedAt' = [watchedAt EXCEPT ![x] = now]
    BY <1>2, OnePlaced DEF Watch
  <2>2. watchedAt' \in [Targets -> Time \cup {None}]
    BY <1>0, <2>1
  <2> QED
    BY <1>1, <2>1, <2>2
<1>3. ASSUME NEW s \in Series, WatchSeason(s) PROVE TrackingTypeOK'
  <2> DEFINE new == Season(s) \ Watched
  <2>1. Placed(new)
    BY SeasonPlaced DEF Season
  <2>2. /\ Record(new) /\ UNCHANGED <<runtime, called, now>>
        /\ watchedAt' = [x \in Targets |-> IF x \in new THEN now ELSE watchedAt[x]]
    BY <1>3 DEF WatchSeason
  <2>3. \A x \in new : Stored(x)
    BY DEF Season
  <2> HIDE DEF new
  <2>4. watchedAt' \in [Targets -> Time \cup {None}]
    BY <1>0, <2>2
  <2> QED
    BY <1>1, <2>1, <2>2, <2>3, <2>4
<1>4. CASE \E x \in Targets : Unwatch(x)
  BY <1>0, <1>4 DEF Unwatch, TrackingTypeOK
<1>5. ASSUME NEW s \in Series, UnwatchSeason(s) PROVE TrackingTypeOK'
  <2>1. watchedAt' = [x \in Targets |-> IF x \in Season(s) THEN None ELSE watchedAt[x]]
    BY <1>5 DEF UnwatchSeason
  <2> HIDE DEF Season
  <2>2. watchedAt' \in [Targets -> Time \cup {None}]
    BY <1>0, <2>1
  <2> QED
    BY <1>0, <1>5, <2>2 DEF UnwatchSeason, TrackingTypeOK
<1>6. CASE \E id : Delete(id)
  BY <1>0, <1>6 DEF Delete, TrackingTypeOK
<1>7. ASSUME NEW x \in Targets, NEW row, Refresh(x, row) PROVE TrackingTypeOK'
  <2>1. /\ row.minutes \in Nat \cup {None, Gone} /\ runtime' = [runtime EXCEPT ![x] = row.minutes]
        /\ row.name \in Texts \cup {None} /\ called' = [called EXCEPT ![x] = row.name]
    BY <1>7, TrackingAssumption DEF Refresh, Column
  <2> QED
    BY <1>0, <1>7, <2>1 DEF Refresh, TrackingTypeOK
<1>8. CASE Clock \/ UNCHANGED tracking
  <2>1. UNCHANGED <<watchedAt, runtime, called, events, lastId>> /\ now' \in Time
    BY <1>0, <1>8 DEF Clock, tracking
  <2> QED
    BY <1>0, <2>1 DEF TrackingTypeOK
<1> QED
  BY <1>2, <1>3, <1>4, <1>5, <1>6, <1>7, <1>8 DEF TrackingStep
-----------------------------------------------------------------------------
\* `reselect` falls back on a listed title, or on none.
LEMMA Reselected ==
  ASSUME NEW titles \in SUBSET Titles, NEW chosen
  PROVE  Reselect(titles, chosen) \in Titles \cup {None}
<1>1. CASE chosen \in titles \/ titles = {}
  BY <1>1 DEF Reselect
<1>2. CASE chosen \notin titles /\ titles # {}
  <2> DEFINE at == {i \in DOMAIN Order : Order[i] \in titles}
  <2>1. at \subseteq Nat /\ DOMAIN Order \subseteq Nat
    BY PagesAssumption
  <2>2. at # {}
    <3>1. PICK t \in titles : TRUE
      BY <1>2
    <3>2. t \in Range(Order)
      BY PagesAssumption
    <3> QED
      BY <3>1, <3>2 DEF Range
  <2>3. Min(at) \in at
    <3> HIDE DEF at
    <3> QED
      BY <2>1, <2>2, MinOfNaturals
  <2>4. Reselect(titles, chosen) = Order[Min(at)]
    BY <1>2 DEF Reselect
  <2> QED
    BY <2>3, <2>4
<1> QED
  BY <1>1, <1>2

\* What ChoiceInv and PageInv do not say of the window's types.
NewsTypes == news \in [Series -> {"none", "unread", "read"}]
Picked ==
  /\ selected \in Titles \cup {None} /\ selectedId \in Titles \cup {None}
  /\ filter \in Searches /\ pane.episodes \subseteq Episodes
CalendarDay == calendar.first # None => calendar.day \in Grid(calendar.first)

LEMMA Followed ==
  ASSUME NEW t, NEW old, NEW watched, NEW stored, old.episodes \subseteq Episodes
  PROVE  Follow(t, old, watched, stored).episodes \subseteq Episodes
  BY DEF Follow, Read

LEMMA Reloaded ==
  ASSUME NEW titles \in SUBSET Titles, NEW found, NEW old, NEW watched, NEW stored,
         old.episodes \subseteq Episodes, Reload(titles, found, old, watched, stored),
         filter' \in Searches
  PROVE  Picked'
<1>1. selected' \in Titles \cup {None}
  BY Reselected DEF Reload, Matching
<1>2. selectedId' = selected' /\ pane' = Follow(selected', old, watched, stored)
  BY DEF Reload, Show
<1> QED
  BY <1>1, <1>2, Followed DEF Picked

LEMMA Opened ==
  ASSUME pane.episodes \subseteq Episodes, NEW t \in Titles, OpenMedia(t)
  PROVE  Picked'
<1>1. /\ selectedId' = t /\ selected' \in {t, None} /\ filter' = Titles
      /\ pane' = Follow(t, pane, Watched, StoredTargets)
  BY DEF OpenMedia, Show
<1> QED
  BY <1>1, Followed, PagesAssumption DEF Picked

\* The day shown is a day of the month, or beside it.
LEMMA MonthShown ==
  ASSUME NEW m \in Nat, ShowMonth(m)
  PROVE  calendar'.first = m /\ calendar'.day \in Grid(m)
<1>1. m * MonthDays \in Nat /\ (m + 1) * MonthDays = m * MonthDays + MonthDays
  BY PagesAssumption
<1>2. m * MonthDays \in InMonth(m)
  BY <1>1, PagesAssumption DEF InMonth
<1>3. PICK day \in InMonth(m) : calendar' = [first |-> m, day |-> day]
  BY <1>2 DEF ShowMonth
<1> QED
  BY <1>3 DEF Grid

LEMMA NewsStay == ASSUME NewsTypes, [Next]_vars PROVE NewsTypes'
<1> USE DEF NewsTypes
<1>1. CASE news' = news
  BY <1>1
<1>2. CASE \E s \in Series : news' = [news EXCEPT ![s] = "read"]
  BY <1>2
<1>3. CASE MarkAllRead
  BY <1>3 DEF MarkAllRead
<1>4. CASE AnswerArrives
  <2>1. PICK x \in Targets : news' \in {news, [news EXCEPT ![TitleOf(x)] = "unread"]}
    BY <1>4 DEF AnswerArrives, Answer
  <2> QED
    BY <2>1
<1>5. CASE Navigate
  BY <1>1, <1>2, <1>5 DEF Navigate, OpenPage, Search, SelectRow, OpenFromHome, OpenFromDiscover,
       OpenFromHistory, OpenFromUpdates, ShiftMonth, SelectDay, OpenFromCalendar
<1>6. CASE Change
  BY <1>1, <1>3, <1>6 DEF Change, AddTitle, RemoveTitle, Toggle, WatchAgain, ToggleSeason, Tracked,
       DeleteEntry
<1> QED
  BY <1>1, <1>4, <1>5, <1>6 DEF Next, TimePasses, vars

LEMMA ChoicesStay == ASSUME ChoiceInv, Picked, StatInv, [Next]_vars PROVE Picked'
<1>0. member \subseteq Titles /\ IsPane(pane) /\ list \subseteq Titles
      /\ filter \in Searches /\ pane.episodes \subseteq Episodes
  BY DEF ChoiceInv, Picked
<1>1. CASE UNCHANGED rows
  BY <1>1 DEF rows, Picked
<1>2. CASE \E found \in Searches : Search(found)
  BY <1>0, <1>2, Reloaded DEF Search
<1>3. CASE \E t \in Titles : SelectRow(t)
  <2>1. PICK t \in Titles : /\ selected' = t /\ selectedId' = t /\ filter' = filter
                            /\ pane' = Follow(t, pane, Watched, StoredTargets)
    BY <1>3 DEF SelectRow, Show
  <2> QED
    BY <1>0, <2>1, Followed DEF Picked
<1>4. CASE \E t \in Titles : OpenMedia(t)
  BY <1>0, <1>4, Opened
<1>5. CASE (\E t \in Titles : AddTitle(t)) \/ RemoveTitle
  <2>1. /\ Reload(member', filter, pane, Watched, StoredTargets)
        /\ member' \subseteq Titles /\ filter' = filter
    BY <1>0, <1>5 DEF AddTitle, RemoveTitle
  <2> QED
    BY <1>0, <2>1, Reloaded
<1>6. ASSUME NEW old, old.episodes \subseteq Episodes, NEW watched, NEW stored,
             Announce(member, old, watched, stored)
      PROVE  Picked'
  BY <1>0, <1>6, Reloaded DEF Announce
<1>7. CASE Tracked
  <2> DEFINE reread == [pane EXCEPT !.watched = Ticks(pane.title, Watched')]
  <2>1. Announce(member, reread, Watched', StoredTargets')
    BY <1>7 DEF Tracked
  <2>2. reread.episodes \subseteq Episodes
    BY <1>0 DEF IsPane
  <2> HIDE DEF reread
  <2> QED
    BY <1>6, <2>1, <2>2
<1>8. CASE AnswerArrives
  <2>1. PICK x \in Targets, own \in BOOLEAN :
          Announce(member, IF own /\ TitleOf(x) = pane.title
                           THEN Read(TitleOf(x), Watched, StoredTargets') ELSE pane,
                   Watched, StoredTargets')
    BY <1>8 DEF AnswerArrives, Answer
  <2>2. Read(TitleOf(x), Watched, StoredTargets').episodes \subseteq Episodes
    BY DEF Read
  <2> QED
    BY <1>0, <1>6, <2>1, <2>2
<1>9. CASE Navigate
  <2>1. \A x \in Targets : TitleOf(x) \in Titles
    BY TrackingAssumption DEF TitleOf, Targets, Titles
  <2>2. ASSUME NEW e \in events, OpenFromHistory(e) PROVE \E t \in Titles : OpenMedia(t)
    BY <2>1, <2>2 DEF OpenFromHistory, StatInv
  <2>3. ASSUME NEW x \in Episodes, OpenFromCalendar(x) PROVE \E t \in Titles : OpenMedia(t)
    BY <2>1, <2>3 DEF OpenFromCalendar, Targets
  <2>4. ASSUME NEW s \in Series, OpenFromUpdates(s) PROVE \E t \in Titles : OpenMedia(t)
    BY <2>4 DEF OpenFromUpdates, Titles
  <2>5. ASSUME NEW t \in Titles, OpenFromHome(t) \/ OpenFromDiscover(t)
        PROVE  OpenMedia(t)
    BY <2>5 DEF OpenFromHome, OpenFromDiscover
  <2>6. CASE \/ \E p \in PageNames : OpenPage(p)
             \/ \E amount \in {-1, 1} : ShiftMonth(amount)
             \/ \E day \in Days : SelectDay(day)
    BY <1>1, <2>6 DEF OpenPage, ShiftMonth, SelectDay
  <2> QED
    BY <1>2, <1>3, <1>4, <1>9, <2>2, <2>3, <2>4, <2>5, <2>6 DEF Navigate
<1>10. CASE (\E e \in events : DeleteEntry(e)) \/ MarkAllRead \/ TimePasses \/ UNCHANGED vars
  BY <1>1, <1>10 DEF DeleteEntry, MarkAllRead, TimePasses, vars, window
<1>11. (\E x \in Targets : Toggle(x)) \/ (\E m \in Movies : WatchAgain(m))
         \/ (\E s \in Series, watched \in BOOLEAN : ToggleSeason(s, watched)) => Tracked
  BY DEF Toggle, WatchAgain, ToggleSeason
<1> QED
  BY <1>5, <1>7, <1>8, <1>9, <1>10, <1>11 DEF Next, Change

LEMMA DayStays == ASSUME CalendarInv, CalendarDay, now \in Nat, [Next]_vars PROVE CalendarDay'
<1>1. CASE calendar' = calendar
  BY <1>1 DEF CalendarDay, Grid, InMonth
<1>2. ASSUME NEW m \in Nat, ShowMonth(m) PROVE CalendarDay'
  BY <1>2, MonthShown DEF CalendarDay, Grid, InMonth
<1>3. CASE LoadMonth
  <2>1. PICK m \in Nat : ShowMonth(m)
    BY <1>3, MonthIsNat DEF LoadMonth, CalendarInv, IsCalendar
  <2> QED
    BY <1>2, <2>1
<1>4. CASE \E amount \in {-1, 1} : ShiftMonth(amount)
  BY <1>2, <1>4, PagesAssumption DEF ShiftMonth
<1>5. CASE \E day \in Days : SelectDay(day)
  <2>1. PICK day : calendar' = [calendar EXCEPT !.day = day] /\ day \in Grid(calendar.first)
    BY <1>5 DEF SelectDay
  <2>2. calendar' = [first |-> calendar.first, day |-> day]
    BY <2>1 DEF CalendarInv, IsCalendar
  <2> QED
    BY <2>1, <2>2 DEF CalendarDay, Grid, InMonth
<1>6. CASE Navigate
  BY <1>1, <1>3, <1>4, <1>5, <1>6 DEF Navigate, OpenPage, Search, SelectRow, OpenFromHome,
       OpenFromDiscover, OpenFromHistory, OpenFromUpdates, OpenFromCalendar, OpenMedia
<1>7. ASSUME NEW titles, NEW old, NEW watched, NEW stored, Announce(titles, old, watched, stored)
      PROVE  CalendarDay'
  BY <1>1, <1>3, <1>7 DEF Announce
<1>8. CASE Change
  BY <1>1, <1>7, <1>8 DEF Change, AddTitle, RemoveTitle, Toggle, WatchAgain, ToggleSeason, Tracked,
       DeleteEntry, MarkAllRead
<1>9. CASE AnswerArrives
  BY <1>7, <1>9 DEF AnswerArrives, Answer
<1> QED
  BY <1>1, <1>6, <1>8, <1>9 DEF Next, TimePasses, vars, window

\* Every variable of the window and the data keeps its type: no title but the
\* Library's is chosen, ids and times stay within what was given out, and the
\* day selected in the calendar is one of the cells shown.
THEOREM WindowIsTyped == Spec => []TypeOK
<1> DEFINE Inv ==
      /\ LogInv /\ StatInv /\ ChoiceInv /\ PageInv
      /\ TrackingTypeOK /\ NewsTypes /\ Picked /\ CalendarDay
<1>1. Init => Inv
  <2> SUFFICES ASSUME Init PROVE Inv
    OBVIOUS
  <2>1. LogInv /\ StatInv /\ ChoiceInv /\ PageInv
    BY LogStarts, StatStarts, ChoiceStarts, PageStarts
  <2>2. TrackingTypeOK
    BY TrackingAssumption DEF Init, TrackingInit, TrackingTypeOK, Time
  <2>3. selected = Reselect(member, None) /\ member \subseteq Titles /\ selectedId = selected
    BY DEF Init
  <2>4. Picked
    BY <2>3, Reselected, PagesAssumption DEF Init, Read, Picked
  <2>5. NewsTypes /\ CalendarDay
    BY DEF Init, NewsTypes, CalendarDay
  <2> QED
    BY <2>1, <2>2, <2>4, <2>5
<1>2. Inv /\ [Next]_vars => Inv'
  <2> SUFFICES ASSUME Inv, [Next]_vars PROVE Inv'
    OBVIOUS
  <2>1. TrackingStep
    BY WindowTracks DEF vars, TrackingStep
  <2>2. LogInv' /\ StatInv' /\ TrackingTypeOK'
    BY <2>1, LogStays, StepCounts, TrackingTypes
  <2>3. ChoiceInv' /\ PageInv'
    BY ChoiceStays, PageStays DEF LogInv
  <2>4. NewsTypes' /\ Picked' /\ CalendarDay'
    BY NewsStay, ChoicesStay, DayStays DEF LogInv, PageInv
  <2> QED
    BY <2>2, <2>3, <2>4
<1>3. Inv => TypeOK
  <2> SUFFICES ASSUME Inv PROVE TypeOK
    OBVIOUS
  <2>1. /\ member \subseteq Titles /\ list \subseteq Titles /\ marked = Watched
        /\ pane.title = selectedId /\ pane.watched = Ticks(pane.title, Watched)
    BY DEF ChoiceInv, PaneIsChosen
  <2>2. marked \subseteq Targets /\ pane.watched \subseteq Targets
    BY <2>1 DEF Watched, Ticks
  <2>3. page \in PageNames /\ calendar.first \in Nat \cup {None}
    BY DEF PageInv, CalendarInv, IsCalendar
  <2> QED
    BY <2>1, <2>2, <2>3 DEF TypeOK, NewsTypes, Picked, CalendarDay
<1> QED
  BY <1>1, <1>2, <1>3, PTL DEF Spec
=============================================================================
