----------------------- MODULE StoreAndBackup_proofs -----------------------
(***************************************************************************)
(* Proofs about Store, for any titles, seasons, numbers, ids and answers:  *)
(* coverage tells the truth about the rows, what is announced is new,      *)
(* every screen says the same of a series, and nothing personal goes with  *)
(* the metadata.                                                           *)
(*                                                                         *)
(* Proofs about Backup, for libraries and files of any size and contents:  *)
(* what `validate` accepts violates no constraint of the schema but in the *)
(* two columns it does not look at, and what `export` writes is accepted   *)
(* and restores what it was made from. The two lists of checks are         *)
(* compared table by table.                                                *)
(***************************************************************************)
EXTENDS Store, Backup, FiniteSetTheorems, NaturalsInduction, WellFoundedInduction, TLAPS

\* Induction over naturals and over a finite set, with the property as a set.
LessThan == {ss \in Nat \X Nat : ss[1] < ss[2]}

LEMMA LeastOfNaturals ==
  ASSUME NEW S, S \subseteq Nat, S # {}
  PROVE  \E m \in S : \A n \in S : m <= n
<1>1. IsWellFoundedOn(LessThan, Nat)
  BY NatLessThanWellFounded, Zenon DEF OpToRel, LessThan
<1>2. PICK m \in S : \A n \in S : ~ (<<n, m>> \in LessThan)
  BY <1>1, WFMin, Zenon
<1>3. ASSUME NEW n \in S
      PROVE  m <= n
  <2>1. n < m => <<n, m>> \in LessThan
    BY DEF LessThan
  <2> QED
    BY <1>2, <2>1
<1> QED
  BY <1>3

LEMMA MinOfNaturals ==
  ASSUME NEW S, S \subseteq Nat, S # {}
  PROVE  /\ Min(S) \in S
         /\ \A n \in S : Min(S) <= n
BY LeastOfNaturals DEF Min

LEMMA NaturalInduction ==
  ASSUME NEW P, 0 \in P, \A n \in Nat : n \in P => n + 1 \in P
  PROVE  Nat \subseteq P
<1> SUFFICES ASSUME Nat \ P # {}
             PROVE  FALSE
  OBVIOUS
<1>1. PICK m \in Nat \ P : \A n \in Nat \ P : m <= n
  BY LeastOfNaturals
<1>2. m # 0 /\ m - 1 \in Nat
  BY <1>1
<1>3. m - 1 \in P
  BY <1>1, <1>2
<1>4. (m - 1) + 1 \in P
  BY <1>2, <1>3
<1> QED
  BY <1>1, <1>4

LEMMA FiniteInduction ==
  ASSUME NEW S, IsFiniteSet(S), NEW P, {} \in P,
         \A T \in SUBSET S : \A e \in S : T \in P => T \cup {e} \in P
  PROVE  S \in P
<1> SUFFICES ASSUME S \notin P
             PROVE  FALSE
  OBVIOUS
<1> DEFINE Q == (SUBSET S) \ P
<1>1. IsWellFoundedOn(StrictSubsetOrdering(S), SUBSET S)
  BY FS_StrictSubsetOrderingWellFounded, FS_FiniteSubsetsOfFinite
<1>2. PICK T \in Q : \A U \in Q : ~ (<<U, T>> \in StrictSubsetOrdering(S))
  <2>1. Q # {} /\ Q \subseteq SUBSET S
    OBVIOUS
  <2> HIDE DEF Q
  <2> QED
    BY <1>1, <2>1, WFMin
<1>3. PICK e : e \in T
  <2>1. T # {}
    BY <1>2, Zenon
  <2> QED
    BY <2>1, Zenon
<1>4. T \ {e} \in P
  <2>1. <<T \ {e}, T>> \in StrictSubsetOrdering(S)
    BY <1>2, <1>3 DEF StrictSubsetOrdering
  <2> QED
    BY <1>2, <2>1
<1>5. (T \ {e}) \cup {e} = T
  BY <1>3
<1>6. T \ {e} \in SUBSET S /\ e \in S /\ T \notin P
  BY <1>2, <1>3
<1> QED
  BY <1>4, <1>5, <1>6, Zenon

LEMMA MaxOfFinite ==
  ASSUME NEW S, S \subseteq Nat, IsFiniteSet(S), S # {}
  PROVE  /\ Max(S) \in S
         /\ \A n \in S : Max(S) >= n
<1> DEFINE P == {T \in SUBSET S : T = {} \/ \E m \in T : \A n \in T : m >= n}
<1>1. {} \in P
  OBVIOUS
<1>2. ASSUME NEW T \in SUBSET S, NEW e \in S, T \in P
      PROVE  T \cup {e} \in P
  <2>1. CASE T = {}
    <3>1. \A n \in T \cup {e} : e >= n
      BY <2>1
    <3> QED
      BY <3>1
  <2>2. CASE T # {}
    <3>1. PICK m \in T : \A n \in T : m >= n
      BY <1>2, <2>2
    <3>2. CASE m >= e
      BY <3>1, <3>2
    <3>3. CASE e >= m
      <4>1. \A n \in T \cup {e} : e >= n
        BY <3>1, <3>3
      <4> QED
        BY <4>1
    <3> QED
      BY <3>2, <3>3
  <2> QED
    BY <2>1, <2>2
<1>3. S \in P
  <2> HIDE DEF P
  <2> QED
    BY <1>1, <1>2, FiniteInduction
<1> QED
  BY <1>3 DEF Max
-----------------------------------------------------------------------------
\* Answers as the database sees them.
IsRows(f) == f = [k \in DOMAIN f |-> f[k]]

\* An episode list has each number and each provider id once.
EpisodeList(list) ==
  /\ Table(list, Numbers, Ids \cup {NoId})
  /\ IsFiniteSet(DOMAIN list)
  /\ \A m, n \in DOMAIN list : list[m] = list[n] /\ list[n] # NoId => m = n

LEMMA ListedIsAList ==
  ASSUME NEW a \in Seq(Entry)
  PROVE  EpisodeList(Listed(a))
<1> DEFINE at(n) == {i \in DOMAIN a : a[i].number = n}
           first(n) == Min(at(n))
           numbers == {a[i].number : i \in DOMAIN a} \ {Unknown}
           id(n) == a[first(n)].id
           heads == {m \in numbers : id(m) = NoId \/ \A l \in numbers : l < m => id(l) # id(m)}
<1>1. Listed(a) = [n \in heads |-> id(n)]
  BY Zenon DEF Listed
<1>2. DOMAIN a = 1..Len(a) /\ Len(a) \in Nat /\ \A i \in DOMAIN a : a[i] \in Entry
  OBVIOUS
<1>3. numbers \subseteq Numbers /\ numbers \subseteq Nat
  BY <1>2, StoreAssumption DEF Entry
<1>4. ASSUME NEW n \in numbers
      PROVE  id(n) \in Ids \cup {NoId}
  <2>1. at(n) # {} /\ at(n) \subseteq Nat
    BY <1>2
  <2>2. first(n) \in DOMAIN a
    BY <2>1, MinOfNaturals
  <2> QED
    BY <1>2, <2>2 DEF Entry
<1>5. IsFiniteSet(heads)
  <2> DEFINE of == [i \in 1..Len(a) |-> a[i].number]
             all == {a[i].number : i \in DOMAIN a}
  <2>1. IsFiniteSet(1..Len(a))
    BY <1>2, FS_Interval
  <2>2. of \in Surjection(1..Len(a), all)
    BY <1>2 DEF Surjection
  <2>3. IsFiniteSet(all)
    BY <2>1, <2>2, FS_Surjection
  <2>4. heads \in SUBSET all
    OBVIOUS
  <2> QED
    BY <2>3, <2>4, FS_Subset
<1>6. ASSUME NEW m \in heads, NEW n \in heads, id(m) = id(n), id(n) # NoId, m # n
      PROVE  FALSE
  <2>1. m \in Nat /\ n \in Nat /\ m \in numbers /\ n \in numbers
    BY <1>3
  <2>2. ~ (m < n) /\ ~ (n < m)
    BY <1>6, <2>1
  <2> QED
    BY <1>6, <2>1, <2>2
<1> HIDE DEF id
<1> QED
  BY <1>1, <1>3, <1>4, <1>5, <1>6 DEF EpisodeList, Table
-----------------------------------------------------------------------------
\* What the loop of `save_episodes` has done when the numbers below n had their
\* turn.
Written(kept, list, n, r) ==
  /\ IsRows(r.rows)
  /\ \A m \in DOMAIN r.rows : m \in DOMAIN kept \/ (m \in DOMAIN list /\ m < n)
  /\ \A m \in DOMAIN list : m < n => m \in DOMAIN r.rows /\ r.rows[m] = list[m]
  /\ \A m \in DOMAIN r.rows : (m \in DOMAIN list => m >= n) => r.rows[m] = kept[m]
  /\ \A m \in DOMAIN kept : (m \in DOMAIN list => m >= n) /\ m \notin DOMAIN r.rows =>
       kept[m] # NoId /\ \E l \in DOMAIN list : l < n /\ list[l] = kept[m]
  /\ \A m \in r.new : m \in DOMAIN list /\ m < n
  /\ \A m \in r.new : m \in DOMAIN kept =>
       kept[m] # NoId /\ \E l \in DOMAIN list : l < m /\ list[l] = kept[m]

Turn(list, r, n) ==
  [rows |-> Replace(r.rows, n, list[n]), new |-> r.new \cup ({n} \ DOMAIN r.rows)]

\* One turn of the loop.
LEMMA TurnWrites ==
  ASSUME NEW kept, NEW list, IsRows(kept), DOMAIN kept \subseteq Nat,
         DOMAIN list \subseteq Nat,
         \A m, n \in DOMAIN list : list[m] = list[n] /\ list[n] # NoId => m = n,
         NEW r, NEW n \in Nat, Written(kept, list, n, r)
  PROVE  /\ n \in DOMAIN list => Written(kept, list, n + 1, Turn(list, r, n))
         /\ n \notin DOMAIN list => Written(kept, list, n + 1, r)
<1>1. DOMAIN r.rows \subseteq Nat
  BY DEF Written
<1>2. ASSUME n \notin DOMAIN list
      PROVE  Written(kept, list, n + 1, r)
  <2>1. \A m \in Nat : m < n + 1 <=> m < n \/ m = n
    OBVIOUS
  <2>2. \A m \in Nat : m >= n + 1 => m >= n
    OBVIOUS
  <2> QED
    BY <1>1, <1>2, <2>1, <2>2 DEF Written
<1>3. ASSUME n \in DOMAIN list
      PROVE  Written(kept, list, n + 1, Turn(list, r, n))
  <2> DEFINE id == list[n]
             left == {l \in DOMAIN r.rows : id # NoId => r.rows[l] # id}
             rows == Replace(r.rows, n, id)
             new == r.new \cup ({n} \ DOMAIN r.rows)
  <2>1. Turn(list, r, n).rows = rows /\ Turn(list, r, n).new = new
    BY DEF Turn
  <2>2. /\ DOMAIN rows = left \cup {n} /\ rows[n] = id /\ IsRows(rows)
        /\ \A m \in left : m # n => rows[m] = r.rows[m]
    BY DEF Replace, IsRows
  <2>3. \A m \in Nat : (m < n + 1 <=> m < n \/ m = n) /\ (m >= n + 1 <=> m >= n /\ m # n)
    OBVIOUS
  <2> HIDE DEF rows
  <2>4. \A m \in DOMAIN rows : m \in DOMAIN kept \/ (m \in DOMAIN list /\ m < n + 1)
    BY <1>1, <1>3, <2>2, <2>3 DEF Written
  <2>5. ASSUME NEW m \in DOMAIN list, m < n + 1
        PROVE  m \in DOMAIN rows /\ rows[m] = list[m]
    <3>1. CASE m = n
      BY <2>2, <3>1
    <3>2. CASE m # n
      <4>1. m < n /\ m \in DOMAIN r.rows /\ r.rows[m] = list[m]
        BY <2>3, <2>5, <3>2 DEF Written
      <4>2. m \in left
        BY <1>3, <3>2, <4>1
      <4> QED
        BY <2>2, <3>2, <4>1, <4>2
    <3> QED
      BY <3>1, <3>2
  <2>6. \A m \in DOMAIN rows : (m \in DOMAIN list => m >= n + 1) => rows[m] = kept[m]
    BY <1>1, <1>3, <2>2, <2>3 DEF Written
  <2>7. ASSUME NEW m \in DOMAIN kept, m \in DOMAIN list => m >= n + 1, m \notin DOMAIN rows
        PROVE  kept[m] # NoId /\ \E l \in DOMAIN list : l < n + 1 /\ list[l] = kept[m]
    <3>1. /\ m \in DOMAIN list => m >= n
          /\ m # n
          /\ \A l \in DOMAIN list : l < n => l < n + 1
      BY <1>3, <2>3, <2>7
    <3>2. CASE m \notin DOMAIN r.rows
      BY <3>1, <3>2 DEF Written
    <3>3. CASE m \in DOMAIN r.rows
      <4>1. id # NoId /\ r.rows[m] = id
        BY <2>2, <2>7, <3>3
      <4>2. kept[m] = id
        BY <3>1, <3>3, <4>1 DEF Written
      <4> QED
        BY <1>3, <2>3, <4>1, <4>2
    <3> QED
      BY <3>2, <3>3
  <2>8. \A m \in new : m \in DOMAIN list /\ m < n + 1
    BY <1>3, <2>3 DEF Written
  <2>9. ASSUME NEW m \in new, m \in DOMAIN kept
        PROVE  kept[m] # NoId /\ \E l \in DOMAIN list : l < m /\ list[l] = kept[m]
    <3>1. CASE m \in r.new
      BY <2>9, <3>1 DEF Written
    <3>2. CASE m = n /\ m \notin DOMAIN r.rows
      BY <2>9, <3>2 DEF Written
    <3> QED
      BY <3>1, <3>2
  <2> HIDE DEF new
  <2> QED
    BY <2>1, <2>2, <2>4, <2>5, <2>6, <2>7, <2>8, <2>9 DEF Written
<1> QED
  BY <1>2, <1>3

\* The loop as the recursive function it is, over the numbers up to N.
Loop(kept, list, N, f) ==
  f = [n \in 0..N |->
         IF n = 0 THEN [rows |-> kept, new |-> {}]
         ELSE IF n - 1 \notin DOMAIN list THEN f[n - 1]
         ELSE [rows |-> Replace(f[n - 1].rows, n - 1, list[n - 1]),
               new |-> f[n - 1].new \cup ({n - 1} \ DOMAIN f[n - 1].rows)]]

LEMMA LoopExists ==
  ASSUME NEW kept, NEW list, NEW N \in Nat
  PROVE  \E f : Loop(kept, list, N, f)
<1> DEFINE P == {n \in Nat : \E f : Loop(kept, list, n, f)}
           next(n, r) == IF n \notin DOMAIN list THEN r ELSE Turn(list, r, n)
<1>1. 0 \in P
  <2> DEFINE f == [n \in 0..0 |-> [rows |-> kept, new |-> {}]]
  <2>1. Loop(kept, list, 0, f)
    BY DEF Loop
  <2> QED
    BY <2>1
<1>2. ASSUME NEW n \in Nat, n \in P
      PROVE  n + 1 \in P
  <2>1. PICK f : Loop(kept, list, n, f)
    BY <1>2
  <2> DEFINE g == [m \in 0..(n + 1) |-> IF m = n + 1 THEN next(n, f[n]) ELSE f[m]]
  <2>2. Loop(kept, list, n + 1, g)
    <3>1. \A m \in 0..n : g[m] = f[m]
      OBVIOUS
    <3>2. g[n + 1] = next(n, g[n])
      BY <3>1
    <3>3. ASSUME NEW m \in 0..(n + 1)
          PROVE  g[m] = IF m = 0 THEN [rows |-> kept, new |-> {}] ELSE next(m - 1, g[m - 1])
      <4>1. CASE m = n + 1
        BY <3>2, <4>1
      <4>2. CASE m = 0
        BY <2>1, <3>1, <4>2 DEF Loop
      <4>3. CASE m # 0 /\ m # n + 1
        <5>1. m \in 0..n /\ m - 1 \in 0..n
          BY <4>3
        <5>2. f[m] = next(m - 1, f[m - 1])
          BY <2>1, <4>3, <5>1 DEF Loop, Turn
        <5> QED
          BY <3>1, <4>3, <5>1, <5>2
      <4> QED
        BY <4>1, <4>2, <4>3
    <3>4. g = [m \in 0..(n + 1) |-> g[m]]
      OBVIOUS
    <3> HIDE DEF g
    <3> QED
      BY <3>3, <3>4 DEF Loop, Turn
  <2> QED
    BY <2>2
<1>3. N \in P
  <2> HIDE DEF P
  <2> QED
    BY <1>1, <1>2, NaturalInduction
<1> QED
  BY <1>3

LEMMA LoopWrites ==
  ASSUME NEW kept, NEW list, IsRows(kept), DOMAIN kept \subseteq Nat,
         DOMAIN list \subseteq Nat,
         \A m, n \in DOMAIN list : list[m] = list[n] /\ list[n] # NoId => m = n,
         NEW N \in Nat, NEW f, Loop(kept, list, N, f)
  PROVE  Written(kept, list, N, f[N])
<1> DEFINE P == {n \in Nat : n <= N => Written(kept, list, n, f[n])}
<1>1. 0 \in P
  <2>1. f[0] = [rows |-> kept, new |-> {}]
    BY DEF Loop
  <2> QED
    BY <2>1 DEF Written, IsRows
<1>2. ASSUME NEW n \in Nat, n \in P
      PROVE  n + 1 \in P
  <2> SUFFICES ASSUME n + 1 <= N
               PROVE  Written(kept, list, n + 1, f[n + 1])
    OBVIOUS
  <2>1. n <= N /\ n + 1 \in 0..N /\ n + 1 # 0 /\ (n + 1) - 1 = n
    OBVIOUS
  <2>2. Written(kept, list, n, f[n])
    BY <1>2, <2>1
  <2>3. f[n + 1] = IF n \notin DOMAIN list THEN f[n] ELSE Turn(list, f[n], n)
    BY <2>1 DEF Loop, Turn
  <2> QED
    BY <2>2, <2>3, TurnWrites
<1>3. N \in P
  <2> HIDE DEF P
  <2> QED
    BY <1>1, <1>2, NaturalInduction
<1> QED
  BY <1>3

LEMMA UpsertWrites ==
  ASSUME NEW kept, NEW list, IsRows(kept), DOMAIN kept \subseteq Nat, EpisodeList(list)
  PROVE  \E n \in Nat : /\ \A m \in DOMAIN list : m < n
                        /\ Written(kept, list, n, Upsert(kept, list))
<1> DEFINE last == Max(DOMAIN list \cup {0})
<1>1. DOMAIN list \subseteq Nat
  BY StoreAssumption DEF EpisodeList, Table
<1>2. last \in Nat /\ \A m \in DOMAIN list : m < last + 1
  <2>1. IsFiniteSet(DOMAIN list \cup {0})
    BY FS_AddElement DEF EpisodeList
  <2>2. last \in DOMAIN list \cup {0} /\ \A m \in DOMAIN list \cup {0} : last >= m
    BY <1>1, <2>1, MaxOfFinite
  <2> QED
    BY <1>1, <2>2
<1> DEFINE after == CHOOSE f : Loop(kept, list, last + 1, f)
<1>3. Loop(kept, list, last + 1, after)
  <2>1. last + 1 \in Nat
    BY <1>2
  <2> HIDE DEF last
  <2> QED
    BY <2>1, LoopExists
<1>4. Upsert(kept, list) = after[last + 1]
  BY Zenon DEF Upsert, Loop
<1>5. \A m, n \in DOMAIN list : list[m] = list[n] /\ list[n] # NoId => m = n
  BY DEF EpisodeList
<1> HIDE DEF after, last
<1>6. Written(kept, list, last + 1, after[last + 1])
  BY <1>1, <1>2, <1>3, <1>5, LoopWrites
<1> QED
  BY <1>2, <1>4, <1>6

\* What `save_episodes` leaves of a season: the list, or what was there if the
\* list is empty; and a number is new only if it was not there, or its provider
\* id went to a lower number of the list.
LEMMA SavedRows ==
  ASSUME NEW old, IsRows(old), DOMAIN old \subseteq Nat, NEW list, EpisodeList(list)
  PROVE  LET kept == IF DOMAIN list = {} THEN old
                     ELSE [n \in DOMAIN old \cap DOMAIN list |-> old[n]]
             done == Upsert(kept, list)
         IN  /\ DOMAIN list # {} => done.rows = list
             /\ DOMAIN list = {} => done.rows = old
             /\ \A n \in done.new : n \in DOMAIN list /\ (n \in DOMAIN old =>
                  old[n] # NoId /\ \E l \in DOMAIN list : l # n /\ list[l] = old[n])
<1> DEFINE kept == IF DOMAIN list = {} THEN old
                   ELSE [n \in DOMAIN old \cap DOMAIN list |-> old[n]]
           done == Upsert(kept, list)
<1>1. IsRows(kept) /\ DOMAIN kept \subseteq Nat
  BY DEF IsRows
<1>2. DOMAIN list \subseteq Nat /\ IsRows(list)
  BY StoreAssumption DEF EpisodeList, Table, IsRows
<1>3. PICK last \in Nat : /\ \A m \in DOMAIN list : m < last
                          /\ Written(kept, list, last, done)
  <2> HIDE DEF kept
  <2> QED
    BY <1>1, UpsertWrites
<1>4. ASSUME DOMAIN list # {}
      PROVE  done.rows = list
  <2>1. DOMAIN kept \subseteq DOMAIN list
    BY <1>4
  <2> HIDE DEF kept, done
  <2>2. DOMAIN done.rows = DOMAIN list /\ \A m \in DOMAIN list : done.rows[m] = list[m]
    BY <1>3, <2>1 DEF Written
  <2>3. done.rows = [m \in DOMAIN done.rows |-> done.rows[m]]
    BY <1>3 DEF Written, IsRows
  <2> QED
    BY <1>2, <2>2, <2>3 DEF IsRows
<1>5. ASSUME DOMAIN list = {}
      PROVE  done.rows = old
  <2>1. kept = old
    BY <1>5
  <2> HIDE DEF kept, done
  <2>2. DOMAIN done.rows = DOMAIN old /\ \A m \in DOMAIN old : done.rows[m] = old[m]
    BY <1>3, <1>5, <2>1 DEF Written
  <2>3. done.rows = [m \in DOMAIN done.rows |-> done.rows[m]]
    BY <1>3 DEF Written, IsRows
  <2> QED
    BY <2>2, <2>3 DEF IsRows
<1>6. ASSUME NEW n \in done.new
      PROVE  n \in DOMAIN list /\ (n \in DOMAIN old =>
               old[n] # NoId /\ \E l \in DOMAIN list : l # n /\ list[l] = old[n])
  <2>1. n \in DOMAIN list
    <3> HIDE DEF kept, done
    <3> QED
      BY <1>3 DEF Written
  <2>2. n \in DOMAIN old => n \in DOMAIN kept /\ kept[n] = old[n]
    BY <2>1
  <2>3. ASSUME n \in DOMAIN kept
        PROVE  kept[n] # NoId /\ \E l \in DOMAIN list : l < n /\ list[l] = kept[n]
    <3> HIDE DEF kept, done
    <3> QED
      BY <1>3, <2>3 DEF Written
  <2>4. \A l \in DOMAIN list : l < n => l # n
    BY <1>2, <2>1
  <2> HIDE DEF kept
  <2> QED
    BY <2>1, <2>2, <2>3, <2>4
<1> HIDE DEF done
<1>7. /\ DOMAIN list # {} => done.rows = list
      /\ DOMAIN list = {} => done.rows = old
      /\ \A n \in done.new : n \in DOMAIN list /\ (n \in DOMAIN old =>
           old[n] # NoId /\ \E l \in DOMAIN list : l # n /\ list[l] = old[n])
  BY <1>4, <1>5, <1>6
<1> QED
  BY <1>7, Zenon DEF done
-----------------------------------------------------------------------------
\* The invariant of one title: its seasons se and its episodes ep.
EpisodesOf(ep, s) == {k \in DOMAIN ep : k[1] = s}

SeasonSound(ep, s, known) ==
  /\ known \notin {0, Unknown} => Cardinality(EpisodesOf(ep, s)) = known
  /\ \A k, l \in EpisodesOf(ep, s) : k # l /\ ep[k] = ep[l] => ep[k] = NoId

TitleSound(se, ep) ==
  /\ Table(se, Seasons, Row)
  /\ Table(ep, Key, Ids \cup {NoId})
  /\ IsFiniteSet(DOMAIN ep)
  /\ \A k \in DOMAIN ep : k[1] \in DOMAIN se
  /\ \A s \in DOMAIN se : SeasonSound(ep, s, se[s].known)

LEMMA EmptyTitle == TitleSound(Empty, Empty)
<1>1. DOMAIN Empty = {} /\ Empty = [k \in {} |-> FALSE]
  BY DEF Empty
<1>2. IsFiniteSet({})
  BY FS_EmptySet
<1> QED
  BY <1>1, <1>2 DEF TitleSound, Table

\* A season that keeps its episodes and its coverage stays sound.
LEMMA SameEpisodes ==
  ASSUME NEW ep, NEW eq, NEW s, NEW known, SeasonSound(ep, s, known),
         EpisodesOf(eq, s) = EpisodesOf(ep, s),
         \A k \in EpisodesOf(eq, s) : eq[k] = ep[k]
  PROVE  SeasonSound(eq, s, known)
BY DEF SeasonSound

\* What `save` upserts and removes of the seasons, and the cascade.
Stay(se, list) == IF DOMAIN list = {} THEN DOMAIN se ELSE DOMAIN list
Listing(se, list) ==
  [s \in Stay(se, list) |->
     IF s \notin DOMAIN list THEN se[s]
     ELSE [count |-> list[s],
           known |-> IF s \in DOMAIN se THEN se[s].known ELSE Unknown]]
Staying(ep, stay) == [k \in {l \in DOMAIN ep : l[1] \in stay} |-> ep[k]]

LEMMA DetailsKeepTitle ==
  ASSUME NEW se, NEW ep, TitleSound(se, ep), NEW list,
         Table(list, Seasons, Nat \cup {Unknown})
  PROVE  TitleSound(Listing(se, list), Staying(ep, Stay(se, list)))
<1> DEFINE stay == Stay(se, list)
           row(s) == IF s \notin DOMAIN list THEN se[s]
                     ELSE [count |-> list[s],
                           known |-> IF s \in DOMAIN se THEN se[s].known ELSE Unknown]
           sf == [s \in stay |-> row(s)]
           eq == [k \in {l \in DOMAIN ep : l[1] \in stay} |-> ep[k]]
<1>1. stay \subseteq Seasons
  BY DEF TitleSound, Table, Stay
<1>2. ASSUME NEW s \in stay
      PROVE  /\ row(s) \in Row
             /\ s \in DOMAIN se => row(s).known = se[s].known
             /\ s \notin DOMAIN se => row(s).known = Unknown
  <2>1. s \notin DOMAIN list => s \in DOMAIN se
    BY DEF Stay
  <2>2. s \in DOMAIN se => se[s] \in Row
    BY DEF TitleSound, Table
  <2>3. s \in DOMAIN list => list[s] \in Nat \cup {Unknown}
    BY DEF Table
  <2> QED
    BY <2>1, <2>2, <2>3 DEF Row
<1>3. Table(sf, Seasons, Row)
  <2> HIDE DEF row, stay
  <2> QED
    BY <1>1, <1>2 DEF Table
<1>4. Table(eq, Key, Ids \cup {NoId}) /\ IsFiniteSet(DOMAIN eq)
  <2>1. DOMAIN eq \in SUBSET DOMAIN ep
    OBVIOUS
  <2>2. IsFiniteSet(DOMAIN eq)
    BY <2>1, FS_Subset DEF TitleSound
  <2> QED
    BY <2>2 DEF TitleSound, Table
<1>5. \A k \in DOMAIN eq : k[1] \in DOMAIN sf
  OBVIOUS
<1>6. ASSUME NEW s \in DOMAIN sf
      PROVE  SeasonSound(eq, s, sf[s].known)
  <2>1. EpisodesOf(eq, s) = EpisodesOf(ep, s) /\ \A k \in EpisodesOf(eq, s) : eq[k] = ep[k]
    BY DEF EpisodesOf
  <2>2. CASE s \in DOMAIN se
    <3>1. SeasonSound(ep, s, se[s].known)
      BY <2>2 DEF TitleSound
    <3>2. sf[s].known = se[s].known
      BY <1>2, <2>2
    <3> QED
      BY <2>1, <3>1, <3>2, SameEpisodes
  <2>3. CASE s \notin DOMAIN se
    <3>1. EpisodesOf(eq, s) = {}
      BY <2>1, <2>3 DEF EpisodesOf, TitleSound
    <3>2. sf[s].known = Unknown
      BY <1>2, <2>3
    <3> QED
      BY <3>1, <3>2 DEF SeasonSound
  <2> QED
    BY <2>2, <2>3
<1> HIDE DEF sf, eq
<1>7. TitleSound(sf, eq)
  BY <1>3, <1>4, <1>5, <1>6 DEF TitleSound
<1> QED
  BY <1>7, Zenon DEF sf, eq, Listing, Staying

\* The coverage that `save_episodes` records, and the rows it leaves.
Covering(se, s, known) ==
  [r \in DOMAIN se \cup {s} |->
     IF r # s THEN se[r]
     ELSE [count |-> IF s \in DOMAIN se THEN se[s].count ELSE Unknown, known |-> known]]
Replaced(ep, s, rows) ==
  [k \in {l \in DOMAIN ep : l[1] # s} \cup ({s} \X DOMAIN rows) |->
     IF k[1] = s THEN rows[k[2]] ELSE ep[k]]

LEMMA EpisodesKeepTitle ==
  ASSUME NEW se, NEW ep, TitleSound(se, ep), NEW s \in Seasons,
         NEW rows, Table(rows, Numbers, Ids \cup {NoId}), IsFiniteSet(DOMAIN rows),
         \A m, n \in DOMAIN rows : rows[m] = rows[n] /\ rows[n] # NoId => m = n,
         NEW known \in Nat, known # 0 => Cardinality(DOMAIN rows) = known
  PROVE  TitleSound(Covering(se, s, known), Replaced(ep, s, rows))
<1> DEFINE elsewhere == {l \in DOMAIN ep : l[1] # s}
           here == {s} \X DOMAIN rows
           row(r) == IF r # s THEN se[r]
                     ELSE [count |-> IF s \in DOMAIN se THEN se[s].count ELSE Unknown,
                           known |-> known]
           sf == [r \in DOMAIN se \cup {s} |-> row(r)]
           eq == [k \in elsewhere \cup here |-> IF k[1] = s THEN rows[k[2]] ELSE ep[k]]
<1>1. \A r \in DOMAIN se : se[r] \in Row
  BY DEF TitleSound, Table
<1>2. Table(sf, Seasons, Row)
  <2>1. \A r \in DOMAIN se \cup {s} : row(r) \in Row
    BY <1>1 DEF Row
  <2>2. DOMAIN se \subseteq Seasons
    BY DEF TitleSound, Table
  <2> HIDE DEF row
  <2> QED
    BY <2>1, <2>2 DEF Table
<1>3. \A k \in here : k[1] = s /\ k[2] \in DOMAIN rows /\ k = <<s, k[2]>> /\ k \in Key
  BY DEF Key, Table
<1>4. IsFiniteSet(here) /\ Cardinality(here) = Cardinality(DOMAIN rows)
  <2>1. IsFiniteSet({s}) /\ Cardinality({s}) = 1
    BY FS_Singleton
  <2>2. IsFiniteSet(here) /\ Cardinality(here) = Cardinality({s}) * Cardinality(DOMAIN rows)
    BY <2>1, FS_Product
  <2>3. Cardinality(DOMAIN rows) \in Nat
    BY FS_CardinalityType
  <2> QED
    BY <2>1, <2>2, <2>3
<1>5. IsFiniteSet(DOMAIN eq)
  <2>1. elsewhere \in SUBSET DOMAIN ep /\ DOMAIN eq = elsewhere \cup here
    OBVIOUS
  <2>2. IsFiniteSet(elsewhere)
    BY <2>1, FS_Subset DEF TitleSound
  <2> QED
    BY <1>4, <2>1, <2>2, FS_Union
<1>6. Table(eq, Key, Ids \cup {NoId})
  <2>1. \A k \in elsewhere : k \in Key /\ k[1] # s /\ ep[k] \in Ids \cup {NoId}
    BY DEF TitleSound, Table
  <2>2. \A k \in here : rows[k[2]] \in Ids \cup {NoId}
    BY <1>3 DEF Table
  <2> HIDE DEF here
  <2> QED
    BY <1>3, <2>1, <2>2 DEF Table
<1>7. \A k \in DOMAIN eq : k[1] \in DOMAIN sf
  BY <1>3 DEF TitleSound
<1>8. ASSUME NEW r \in DOMAIN sf
      PROVE  SeasonSound(eq, r, sf[r].known)
  <2>1. CASE r = s
    <3>1. EpisodesOf(eq, s) = here
      BY <1>3 DEF EpisodesOf
    <3>2. sf[r].known = known
      BY <2>1
    <3>3. \A k \in here : eq[k] = rows[k[2]]
      BY <1>3
    <3>4. ASSUME NEW k \in here, NEW l \in here, k # l, eq[k] = eq[l]
          PROVE  eq[k] = NoId
      <4>1. k[2] # l[2]
        BY <1>3, <3>4
      <4> HIDE DEF eq, here
      <4> QED
        BY <1>3, <3>3, <3>4, <4>1
    <3> HIDE DEF eq, here, sf
    <3> QED
      BY <1>4, <2>1, <3>1, <3>2, <3>4 DEF SeasonSound
  <2>2. CASE r # s
    <3>1. r \in DOMAIN se /\ sf[r].known = se[r].known
      BY <2>2
    <3>2. SeasonSound(ep, r, se[r].known)
      BY <3>1 DEF TitleSound
    <3>3. EpisodesOf(eq, r) = EpisodesOf(ep, r) /\ \A k \in EpisodesOf(eq, r) : eq[k] = ep[k]
      BY <1>3, <2>2 DEF EpisodesOf
    <3> QED
      BY <3>1, <3>2, <3>3, SameEpisodes
  <2> QED
    BY <2>1, <2>2
<1> HIDE DEF sf, eq
<1>9. TitleSound(sf, eq)
  BY <1>2, <1>5, <1>6, <1>7, <1>8 DEF TitleSound
<1> QED
  BY <1>9, Zenon DEF sf, eq, Covering, Replaced
-----------------------------------------------------------------------------
\* The inductive invariant. `TablesAreSound` alone does not say that the
\* tables are functions on the titles, nor that the rows can be counted.
MembersStored ==
  /\ media \subseteq Titles
  /\ member \subseteq media /\ detailed \subseteq media
  /\ rated \subseteq media /\ logged \subseteq media

TablesOK ==
  /\ seasons = [t \in Titles |-> seasons[t]]
  /\ episodes = [t \in Titles |-> episodes[t]]
  /\ \A t \in Titles : TitleSound(seasons[t], episodes[t])

PersonalOK ==
  /\ tracked \in [Titles -> SUBSET Key]
  /\ releases = [t \in Titles |-> releases[t]]
  /\ \A t \in Titles : Table(releases[t], Key, BOOLEAN)

StoreInv == MembersStored /\ TablesOK /\ PersonalOK

LEMMA InvIsSound == StoreInv => TablesAreSound
<1> SUFFICES ASSUME StoreInv
             PROVE  TablesAreSound
  OBVIOUS
<1>1. \A t \in Titles, s \in Seasons : EpisodesOf(episodes[t], s) = InSeason(t, s)
  BY DEF EpisodesOf, InSeason
<1>2. ASSUME NEW t \in Titles
      PROVE  /\ Table(seasons[t], Seasons, Row)
             /\ Table(episodes[t], Key, Ids \cup {NoId})
             /\ \A k \in DOMAIN episodes[t] : k[1] \in DOMAIN seasons[t]
             /\ tracked[t] \subseteq Key
             /\ Table(releases[t], Key, BOOLEAN)
  BY DEF StoreInv, TablesOK, PersonalOK, TitleSound
<1>3. TypeOK
  BY <1>2 DEF StoreInv, MembersStored, TypeOK
<1>4. ASSUME NEW t \in Titles, NEW s \in DOMAIN seasons[t]
      PROVE  /\ seasons[t][s].known \notin {0, Unknown} => Known(t, s) = seasons[t][s].known
             /\ \A k, l \in InSeason(t, s) :
                  k # l /\ episodes[t][k] = episodes[t][l] => episodes[t][k] = NoId
  <2>1. SeasonSound(episodes[t], s, seasons[t][s].known) /\ s \in Seasons
    BY <1>2 DEF StoreInv, TablesOK, TitleSound, Table
  <2> QED
    BY <1>1, <2>1 DEF SeasonSound, Known
<1> QED
  BY <1>3, <1>4 DEF TablesAreSound, CoverageIsTrue

LEMMA InvInit == Init => StoreInv
<1> SUFFICES ASSUME Init
             PROVE  StoreInv
  OBVIOUS
<1>1. TablesOK
  BY EmptyTitle DEF Init, TablesOK
<1>2. Table(Empty, Key, BOOLEAN)
  BY DEF Table, Empty
<1> QED
  BY <1>1, <1>2 DEF Init, StoreInv, MembersStored, PersonalOK

\* Details that arrive.
LEMMA InvSaveDetails ==
  ASSUME StoreInv, NEW t \in Titles, NEW summaries \in Summaries, SaveDetails(t, summaries)
  PROVE  StoreInv'
<1> DEFINE list == SeasonList(summaries)
           sf == Listing(seasons[t], list)
           eq == Staying(episodes[t], Stay(seasons[t], list))
<1>1. Table(list, Seasons, Nat \cup {Unknown})
  <2> DEFINE usable == {i \in DOMAIN summaries : Usable(summaries[i])}
             first(n) == Min({i \in usable : summaries[i].number = n})
             counts(n) == Count(summaries[first(n)])
             listed == {summaries[i].number : i \in usable}
  <2>1. list = [n \in listed |-> counts(n)]
    BY Zenon DEF SeasonList
  <2>2. listed \subseteq Seasons
    BY StoreAssumption DEF Usable
  <2>3. \A n \in listed : counts(n) \in Nat \cup {Unknown}
    BY DEF Count
  <2> HIDE DEF listed, counts, list
  <2> QED
    BY <2>1, <2>2, <2>3 DEF Table
<1>2. /\ seasons' = [seasons EXCEPT ![t] = sf]
      /\ episodes' = [episodes EXCEPT ![t] = eq]
  BY Zenon DEF SaveDetails, Cascade, Listing, Staying, Stay
<1>3. TitleSound(sf, eq)
  <2> HIDE DEF list
  <2> QED
    BY <1>1, DetailsKeepTitle DEF StoreInv, TablesOK
<1> HIDE DEF sf, eq
<1>4. TablesOK'
  BY <1>2, <1>3 DEF StoreInv, TablesOK
<1> QED
  BY <1>4 DEF SaveDetails, StoreInv, MembersStored, PersonalOK, personal

\* What the rows of a season and an answer become.
Kept(old, list) ==
  IF DOMAIN list = {} THEN old ELSE [n \in DOMAIN old \cap DOMAIN list |-> old[n]]

LEMMA InvSaveEpisodes ==
  ASSUME StoreInv, NEW t \in Titles, NEW s \in Seasons, NEW answer \in Answers[s],
         SaveEpisodes(t, s, answer)
  PROVE  StoreInv'
<1> DEFINE list == Listed(answer)
           old == SeasonRows(t, s)
           done == Upsert(Kept(old, list), list)
           se == seasons[t]
           ep == episodes[t]
           known == Cardinality(DOMAIN list)
           sf == Covering(se, s, known)
           eq == Replaced(ep, s, done.rows)
<1>1. EpisodeList(list)
  BY ListedIsAList, StoreAssumption
<1>2. TitleSound(se, ep)
  BY DEF StoreInv, TablesOK
<1>3. /\ DOMAIN old = {m \in Numbers : <<s, m>> \in DOMAIN ep}
      /\ \A n \in DOMAIN old : old[n] = ep[<<s, n>>]
      /\ IsRows(old)
  BY DEF SeasonRows, IsRows
<1>4. DOMAIN old \subseteq Nat
  BY <1>3, StoreAssumption
<1>5. /\ DOMAIN list # {} => done.rows = list
      /\ DOMAIN list = {} => done.rows = old
      /\ \A n \in done.new : n \in DOMAIN list
  <2> HIDE DEF old, list
  <2> QED
    BY <1>1, <1>3, <1>4, SavedRows DEF Kept
<1>6. s \in Seasons /\ \A n \in DOMAIN old : <<s, n>> \in EpisodesOf(ep, s)
  BY <1>3 DEF EpisodesOf
<1>7. EpisodeList(old)
  <2>1. Table(old, Numbers, Ids \cup {NoId})
    <3> HIDE DEF old
    <3> QED
      BY <1>2, <1>3 DEF TitleSound, Table, IsRows
  <2>2. IsFiniteSet(DOMAIN old)
    <3> DEFINE f == [n \in DOMAIN old |-> <<s, n>>]
    <3> HIDE DEF old
    <3>1. f \in Injection(DOMAIN old, DOMAIN ep)
      BY <1>3 DEF Injection, IsInjective
    <3>2. IsFiniteSet(DOMAIN ep)
      BY <1>2 DEF TitleSound
    <3> HIDE DEF f, ep
    <3> QED
      BY <3>1, <3>2, FS_Injection
  <2>3. ASSUME NEW m \in DOMAIN old, NEW n \in DOMAIN old, old[m] = old[n], old[n] # NoId, m # n
        PROVE  FALSE
    <3>1. s \in DOMAIN se
      BY <1>2, <1>3 DEF TitleSound
    <3>2. SeasonSound(ep, s, se[s].known)
      BY <1>2, <3>1 DEF TitleSound
    <3>3. <<s, m>> # <<s, n>> /\ ep[<<s, m>>] = ep[<<s, n>>] /\ ep[<<s, m>>] # NoId
      BY <1>3, <2>3
    <3> QED
      BY <1>6, <3>2, <3>3 DEF SeasonSound
  <2> HIDE DEF old
  <2> QED
    BY <2>1, <2>2, <2>3 DEF EpisodeList
<1>8. EpisodeList(done.rows) /\ (known # 0 => Cardinality(DOMAIN done.rows) = known)
  <2>1. DOMAIN list = {} => known = 0
    BY FS_EmptySet
  <2> HIDE DEF done, list, old
  <2> QED
    BY <1>1, <1>5, <1>7, <2>1
<1>9. known \in Nat
  BY <1>1, FS_CardinalityType DEF EpisodeList
<1>10. TitleSound(sf, eq)
  <2> HIDE DEF done, se, ep, known
  <2> QED
    BY <1>2, <1>8, <1>9, EpisodesKeepTitle DEF EpisodeList
<1>11. /\ seasons' = [seasons EXCEPT ![t] = sf]
       /\ episodes' = [episodes EXCEPT ![t] = eq]
       /\ releases' = IF Announces(t, s)
                      THEN [releases EXCEPT ![t] = Announce(t, s, done.new)] ELSE releases
       /\ UNCHANGED <<media, member, detailed, personal>>
  BY Zenon DEF SaveEpisodes, Kept, Covering, Replaced
<1>12. TablesOK'
  <2> HIDE DEF sf, eq
  <2> QED
    BY <1>10, <1>11 DEF StoreInv, TablesOK
<1>13. Table(Announce(t, s, done.new), Key, BOOLEAN)
  <2>1. done.new \subseteq Numbers
    <3> HIDE DEF done, list
    <3> QED
      BY <1>1, <1>5 DEF EpisodeList, Table
  <2>2. Table(releases[t], Key, BOOLEAN)
    BY DEF StoreInv, PersonalOK
  <2> DEFINE new == done.new
  <2> HIDE DEF new
  <2>3. {s} \X new \subseteq Key
    BY <2>1 DEF new, Key
  <2>4. Table(Announce(t, s, new), Key, BOOLEAN)
    BY <2>2, <2>3 DEF Announce, Table
  <2> QED
    BY <2>4 DEF new
<1>14. PersonalOK'
  <2> HIDE DEF done
  <2> QED
    BY <1>11, <1>13 DEF StoreInv, PersonalOK, personal
<1> HIDE DEF sf, eq, done
<1> QED
  BY <1>11, <1>12, <1>14 DEF StoreInv, MembersStored, personal

\* Everything else: what the user does, and the cleanup.
LEMMA InvUser ==
  ASSUME StoreInv, NEW t \in Titles, User(t)
  PROVE  StoreInv'
<1> DEFINE Unmoved == UNCHANGED <<seasons, episodes>>
<1>1. Unmoved => TablesOK'
  BY DEF StoreInv, TablesOK
<1>2. UNCHANGED <<tracked, releases>> => PersonalOK'
  BY DEF StoreInv, PersonalOK
<1>3. MembersStored /\ tracked \in [Titles -> SUBSET Key]
  BY DEF StoreInv, PersonalOK
<1>4. ASSUME NEW S \in SUBSET Key, tracked' = [tracked EXCEPT ![t] = S], releases' = releases
      PROVE  PersonalOK'
  BY <1>4 DEF StoreInv, PersonalOK
<1>5. DOMAIN episodes[t] \subseteq Key
  BY DEF StoreInv, TablesOK, TitleSound, Table
<1>6. CASE AddTitle(t) \/ RemoveTitle(t) \/ SetRating(t) \/ DeleteLastEvent(t)
  <2>1. Unmoved /\ UNCHANGED <<tracked, releases>>
    BY <1>6 DEF AddTitle, RemoveTitle, SetRating, DeleteLastEvent, personal
  <2>2. MembersStored'
    BY <1>3, <1>6 DEF MembersStored, AddTitle, RemoveTitle, SetRating, DeleteLastEvent, personal
  <2> QED
    BY <1>1, <1>2, <2>1, <2>2 DEF StoreInv
<1>7. ASSUME NEW k \in Key, NEW again \in BOOLEAN, WatchEpisode(t, k, again)
      PROVE  StoreInv'
  <2>1. MembersStored' /\ TablesOK'
    BY <1>1, <1>3, <1>7 DEF MembersStored, WatchEpisode
  <2>2. tracked[t] \cup {k} \in SUBSET Key
    BY <1>3
  <2>3. PersonalOK'
    BY <1>4, <1>7, <2>2 DEF WatchEpisode
  <2> QED
    BY <2>1, <2>3 DEF StoreInv
<1>8. ASSUME NEW k \in Key, UnwatchEpisode(t, k)
      PROVE  StoreInv'
  <2>1. MembersStored' /\ TablesOK'
    BY <1>1, <1>3, <1>8 DEF MembersStored, UnwatchEpisode
  <2>2. tracked[t] \ {k} \in SUBSET Key
    BY <1>3
  <2>3. PersonalOK'
    BY <1>4, <1>8, <2>2 DEF UnwatchEpisode
  <2> QED
    BY <2>1, <2>3 DEF StoreInv
<1>9. ASSUME NEW s \in Seasons, WatchSeason(t, s)
      PROVE  StoreInv'
  <2>1. MembersStored' /\ TablesOK'
    BY <1>1, <1>3, <1>9 DEF MembersStored, WatchSeason
  <2>2. tracked[t] \cup InSeason(t, s) \in SUBSET Key
    BY <1>3, <1>5 DEF InSeason
  <2>3. PersonalOK'
    BY <1>4, <1>9, <2>2 DEF WatchSeason
  <2> QED
    BY <2>1, <2>3 DEF StoreInv
<1>10. ASSUME NEW s \in Seasons, UnwatchSeason(t, s)
       PROVE  StoreInv'
  <2>1. MembersStored' /\ TablesOK'
    BY <1>1, <1>3, <1>10 DEF MembersStored, UnwatchSeason
  <2>2. tracked[t] \ InSeason(t, s) \in SUBSET Key
    BY <1>3
  <2>3. PersonalOK'
    BY <1>4, <1>10, <2>2 DEF UnwatchSeason
  <2> QED
    BY <2>1, <2>3 DEF StoreInv
<1>11. ASSUME NEW k \in Key, MarkRead(t, k)
       PROVE  StoreInv'
  <2>1. MembersStored' /\ TablesOK' /\ tracked' = tracked
    BY <1>1, <1>3, <1>11 DEF MembersStored, MarkRead, personal
  <2>2. Table(releases[t], Key, BOOLEAN)
    BY DEF StoreInv, PersonalOK
  <2>3. Table([releases[t] EXCEPT ![k] = TRUE], Key, BOOLEAN)
    BY <2>2, Zenon DEF Table
  <2>4. releases' = [releases EXCEPT ![t] = [releases[t] EXCEPT ![k] = TRUE]]
    BY <1>11 DEF MarkRead
  <2>5. PersonalOK'
    BY <2>1, <2>3, <2>4 DEF StoreInv, PersonalOK
  <2> QED
    BY <2>1, <2>5 DEF StoreInv
<1> QED
  BY <1>6, <1>7, <1>8, <1>9, <1>10, <1>11 DEF User

LEMMA InvMarkAllRead == StoreInv /\ MarkAllRead => StoreInv'
<1> SUFFICES ASSUME StoreInv, MarkAllRead
             PROVE  StoreInv'
  OBVIOUS
<1>1. MembersStored' /\ TablesOK' /\ tracked' = tracked
  BY DEF StoreInv, MembersStored, TablesOK, MarkAllRead, personal
<1>2. ASSUME NEW t \in Titles
      PROVE  Table([k \in DOMAIN releases[t] |-> TRUE], Key, BOOLEAN)
  BY DEF StoreInv, PersonalOK, Table
<1>3. PersonalOK'
  BY <1>1, <1>2 DEF StoreInv, PersonalOK, MarkAllRead
<1> QED
  BY <1>1, <1>3 DEF StoreInv

LEMMA InvClean == StoreInv /\ Clean => StoreInv'
<1> SUFFICES ASSUME StoreInv, Clean
             PROVE  StoreInv'
  OBVIOUS
<1>1. MembersStored'
  BY DEF StoreInv, MembersStored, Clean, Orphans, personal
<1>2. PersonalOK'
  BY DEF StoreInv, PersonalOK, Clean, personal
<1>3. TablesOK'
  BY EmptyTitle DEF StoreInv, TablesOK, Clean
<1> QED
  BY <1>1, <1>2, <1>3 DEF StoreInv

LEMMA InvNext == StoreInv /\ [Next]_vars => StoreInv'
<1> SUFFICES ASSUME StoreInv, [Next]_vars
             PROVE  StoreInv'
  OBVIOUS
<1>1. ASSUME NEW t \in Titles, Provider(t)
      PROVE  StoreInv'
  BY <1>1, InvSaveDetails, InvSaveEpisodes DEF Provider
<1>2. CASE UNCHANGED vars
  BY <1>2 DEF vars, personal, StoreInv, MembersStored, TablesOK, PersonalOK
<1> QED
  BY <1>1, <1>2, InvUser, InvMarkAllRead, InvClean DEF Next

LEMMA StoreInductive == Spec => []StoreInv
BY InvInit, InvNext, PTL DEF Spec

\* Whatever TMDB sends and the user does, the tables are well-formed, the
\* coverage of a season is the number of its rows, and no provider id is stored
\* twice in a season: `save` and `save_episodes`.
THEOREM CoverageHolds == Spec => []TablesAreSound
BY StoreInductive, InvIsSound, PTL
-----------------------------------------------------------------------------
\* Personal data outlives the metadata: `clean_orphan_metadata` removes a title
\* only if nothing personal refers to it, and no answer changes watched state.
THEOREM PersonalIsKept == Spec => PersonalOutlives
<1>1. [Next]_vars =>
        \A t \in Titles :
          /\ t \in media /\ t \notin media' =>
               /\ t \notin member \cup rated \cup logged
               /\ tracked[t] = {} /\ DOMAIN releases[t] = {}
          /\ episodes'[t] # episodes[t] =>
               tracked'[t] = tracked[t] /\ rated' = rated /\ logged' = logged
  <2> SUFFICES ASSUME [Next]_vars, NEW t \in Titles
               PROVE  /\ t \in media /\ t \notin media' =>
                           /\ t \notin member \cup rated \cup logged
                           /\ tracked[t] = {} /\ DOMAIN releases[t] = {}
                      /\ episodes'[t] # episodes[t] =>
                           tracked'[t] = tracked[t] /\ rated' = rated /\ logged' = logged
    OBVIOUS
  <2>1. ASSUME NEW u \in Titles, Provider(u)
        PROVE  media' = media /\ UNCHANGED personal
    BY <2>1 DEF Provider, SaveDetails, SaveEpisodes
  <2>2. ASSUME NEW u \in Titles, User(u)
        PROVE  media \subseteq media' /\ episodes' = episodes
    BY <2>2 DEF User, AddTitle, RemoveTitle, WatchEpisode, UnwatchEpisode, MarkRead,
                WatchSeason, UnwatchSeason, SetRating, DeleteLastEvent
  <2>3. CASE MarkAllRead \/ UNCHANGED vars
    BY <2>3 DEF MarkAllRead, vars
  <2>4. CASE Clean
    BY <2>4 DEF Clean, Orphans, personal
  <2> QED
    BY <2>1, <2>2, <2>3, <2>4 DEF Next, personal
<1> QED
  BY <1>1, PTL DEF Spec, PersonalOutlives
-----------------------------------------------------------------------------
\* What `save_episodes` announces.
LEMMA EpisodesAnnounced ==
  ASSUME StoreInv, NEW t \in Titles, NEW s \in Seasons, NEW answer \in Answers[s],
         SaveEpisodes(t, s, answer)
  PROVE  /\ \A k \in DOMAIN releases[t] :
              k \in DOMAIN releases'[t] /\ releases'[t][k] = releases[t][k]
         /\ \A k \in DOMAIN releases'[t] \ DOMAIN releases[t] :
              /\ t \in member /\ k[1] \in DOMAIN seasons[t]
              /\ seasons[t][k[1]].known # Unknown
              /\ k \in DOMAIN episodes[t] => Moved(t, k)
<1> DEFINE list == Listed(answer)
           old == SeasonRows(t, s)
           done == Upsert(Kept(old, list), list)
           ep == episodes[t]
           eq == Replaced(ep, s, done.rows)
<1>1. /\ episodes' = [episodes EXCEPT ![t] = eq]
      /\ releases' = IF Announces(t, s)
                     THEN [releases EXCEPT ![t] = Announce(t, s, done.new)] ELSE releases
  BY Zenon DEF SaveEpisodes, Kept, Replaced
<1>2. /\ releases = [u \in Titles |-> releases[u]]
      /\ episodes = [u \in Titles |-> episodes[u]]
  BY DEF StoreInv, PersonalOK, TablesOK
<1>3. EpisodeList(list)
  BY ListedIsAList, StoreAssumption
<1>4. /\ DOMAIN old = {m \in Numbers : <<s, m>> \in DOMAIN ep}
      /\ \A n \in DOMAIN old : old[n] = ep[<<s, n>>]
      /\ IsRows(old) /\ DOMAIN old \subseteq Nat
  BY StoreAssumption DEF SeasonRows, IsRows
<1>5. /\ DOMAIN list # {} => done.rows = list
      /\ \A n \in done.new : n \in DOMAIN list /\ (n \in DOMAIN old =>
           old[n] # NoId /\ \E l \in DOMAIN list : l # n /\ list[l] = old[n])
  <2> HIDE DEF old, list
  <2> QED
    BY <1>3, <1>4, SavedRows DEF Kept
<1>6. CASE ~ Announces(t, s)
  BY <1>1, <1>6
<1>7. CASE Announces(t, s)
  <2> DEFINE new == done.new
  <2> HIDE DEF done, new
  <2>1. releases'[t] = Announce(t, s, new)
    BY <1>1, <1>2, <1>7 DEF new
  <2>2. /\ DOMAIN releases'[t] = DOMAIN releases[t] \cup ({s} \X new)
        /\ \A k \in DOMAIN releases[t] : releases'[t][k] = releases[t][k]
    BY <2>1 DEF Announce
  <2>3. t \in member /\ s \in DOMAIN seasons[t] /\ seasons[t][s].known # Unknown
    BY <1>7 DEF Announces
  <2>4. ASSUME NEW k \in {s} \X new
        PROVE  /\ k[1] = s
               /\ k \in DOMAIN ep => Moved(t, k)
    <3>1. k = <<s, k[2]>> /\ k[1] = s /\ k[2] \in new
      OBVIOUS
    <3>2. k[2] \in DOMAIN list
      BY <1>5, <3>1 DEF new
    <3>3. ASSUME k \in DOMAIN ep
          PROVE  Moved(t, k)
      <4>1. k[2] \in DOMAIN old /\ old[k[2]] = ep[k]
        <5>1. k[2] \in Numbers
          BY <1>3, <3>2 DEF EpisodeList, Table
        <5> HIDE DEF ep, old
        <5> QED
          BY <1>4, <3>1, <3>3, <5>1
      <4>2. PICK l \in DOMAIN list : l # k[2] /\ list[l] = ep[k] /\ ep[k] # NoId
        <5> HIDE DEF old
        <5> QED
          BY <1>5, <3>1, <4>1 DEF new
      <4>3. done.rows = list
        BY <1>5, <3>2
      <4>4. <<s, l>> \in DOMAIN eq /\ eq[<<s, l>>] = list[l]
        <5> HIDE DEF list
        <5> QED
          BY <4>3 DEF Replaced
      <4>5. episodes'[t] = eq
        BY <1>1, <1>2
      <4>6. <<s, l>>[1] = k[1] /\ <<s, l>> # k
        BY <3>1, <4>2
      <4> HIDE DEF eq, list
      <4> QED
        BY <4>2, <4>4, <4>5, <4>6 DEF Moved
    <3> QED
      BY <3>1, <3>3
  <2> HIDE DEF ep
  <2>5. ASSUME NEW k \in DOMAIN releases'[t] \ DOMAIN releases[t]
        PROVE  /\ t \in member /\ k[1] \in DOMAIN seasons[t]
               /\ seasons[t][k[1]].known # Unknown
               /\ k \in DOMAIN episodes[t] => Moved(t, k)
    <3>1. k \in {s} \X new
      BY <2>2
    <3>2. k[1] = s
      BY <3>1, <2>4
    <3> QED
      BY <2>3, <2>4, <3>1, <3>2 DEF ep
  <2> QED
    BY <2>2, <2>5
<1> QED
  BY <1>6, <1>7

\* An episode is announced once, by `save_episodes` alone, for a Library season
\* that was downloaded before, and only if it is new there or took another's
\* provider id's place; what was read stays read (`mark_read`, `mark_all_read`).
THEOREM OnlyNewIsAnnounced == Spec => AnnouncedIsNew
<1>1. StoreInv /\ [Next]_vars =>
        \A t \in Titles :
          /\ \A k \in DOMAIN releases[t] :
               k \in DOMAIN releases'[t] /\ (releases[t][k] => releases'[t][k])
          /\ \A k \in DOMAIN releases'[t] \ DOMAIN releases[t] :
               /\ t \in member /\ k[1] \in DOMAIN seasons[t]
               /\ seasons[t][k[1]].known # Unknown
               /\ k \in DOMAIN episodes[t] => Moved(t, k)
  <2> SUFFICES ASSUME StoreInv, [Next]_vars, NEW t \in Titles
               PROVE  /\ \A k \in DOMAIN releases[t] :
                           k \in DOMAIN releases'[t] /\ (releases[t][k] => releases'[t][k])
                      /\ \A k \in DOMAIN releases'[t] \ DOMAIN releases[t] :
                           /\ t \in member /\ k[1] \in DOMAIN seasons[t]
                           /\ seasons[t][k[1]].known # Unknown
                           /\ k \in DOMAIN episodes[t] => Moved(t, k)
    OBVIOUS
  <2>1. /\ releases = [u \in Titles |-> releases[u]]
        /\ \A u \in Titles : \A k \in DOMAIN releases[u] : releases[u][k] \in BOOLEAN
    BY DEF StoreInv, PersonalOK, Table
  <2>2. CASE releases'[t] = releases[t]
    BY <2>2, Zenon
  <2>3. ASSUME NEW u \in Titles, NEW s \in Seasons, NEW answer \in Answers[s],
               SaveEpisodes(u, s, answer)
        PROVE  \/ releases'[t] = releases[t]
               \/ /\ \A k \in DOMAIN releases[t] :
                       k \in DOMAIN releases'[t] /\ releases'[t][k] = releases[t][k]
                  /\ \A k \in DOMAIN releases'[t] \ DOMAIN releases[t] :
                       /\ t \in member /\ k[1] \in DOMAIN seasons[t]
                       /\ seasons[t][k[1]].known # Unknown
                       /\ k \in DOMAIN episodes[t] => Moved(t, k)
    <3>1. CASE u = t
      BY <2>3, <3>1, EpisodesAnnounced, Zenon
    <3>2. CASE u # t
      <4>1. \/ releases' = releases
            \/ \E new : releases' = [releases EXCEPT ![u] = new]
        BY <2>3, Zenon DEF SaveEpisodes
      <4> QED
        BY <2>1, <3>2, <4>1
    <3> QED
      BY <3>1, <3>2
  <2>4. ASSUME NEW u \in Titles, NEW k \in Key, MarkRead(u, k)
        PROVE  \/ releases'[t] = releases[t]
               \/ /\ DOMAIN releases'[t] = DOMAIN releases[t]
                  /\ \A l \in DOMAIN releases[t] :
                       releases'[t][l] = releases[t][l] \/ releases'[t][l] = TRUE
    <3>1. releases' = [releases EXCEPT ![u] = [releases[u] EXCEPT ![k] = TRUE]]
      BY <2>4 DEF MarkRead
    <3>2. releases'[t] = IF t = u THEN [releases[u] EXCEPT ![k] = TRUE] ELSE releases[t]
      BY <2>1, <3>1, Zenon
    <3> QED
      BY <3>2, Zenon
  <2>5. ASSUME MarkAllRead
        PROVE  /\ DOMAIN releases'[t] = DOMAIN releases[t]
               /\ \A l \in DOMAIN releases[t] : releases'[t][l] = TRUE
    BY <2>5, Zenon DEF MarkAllRead
  <2>6. CASE /\ DOMAIN releases'[t] = DOMAIN releases[t]
             /\ \A l \in DOMAIN releases[t] :
                  releases'[t][l] = releases[t][l] \/ releases'[t][l] = TRUE
    BY <2>6, Zenon
  <2>7. CASE /\ \A k \in DOMAIN releases[t] :
                  k \in DOMAIN releases'[t] /\ releases'[t][k] = releases[t][k]
             /\ \A k \in DOMAIN releases'[t] \ DOMAIN releases[t] :
                  /\ t \in member /\ k[1] \in DOMAIN seasons[t]
                  /\ seasons[t][k[1]].known # Unknown
                  /\ k \in DOMAIN episodes[t] => Moved(t, k)
    BY <2>7, Zenon
  <2>8. CASE MarkAllRead
    BY <2>5, <2>6, <2>8, Zenon
  <2>9. ASSUME NEW u \in Titles, Provider(u)
        PROVE  \/ releases' = releases
               \/ \E s \in Seasons : \E answer \in Answers[s] : SaveEpisodes(u, s, answer)
    BY <2>9, Zenon DEF Provider, SaveDetails
  <2>10. ASSUME NEW u \in Titles, User(u)
         PROVE  releases' = releases \/ \E k \in Key : MarkRead(u, k)
    BY <2>10 DEF User, AddTitle, RemoveTitle, WatchEpisode, UnwatchEpisode,
                 WatchSeason, UnwatchSeason, SetRating, DeleteLastEvent
  <2>11. CASE \E u \in Titles : Provider(u)
    BY <2>2, <2>3, <2>7, <2>9, <2>11, Zenon
  <2>12. CASE \E u \in Titles : User(u)
    BY <2>2, <2>4, <2>6, <2>10, <2>12, Zenon
  <2>13. CASE Clean \/ UNCHANGED vars
    <3>1. releases' = releases
      BY <2>13 DEF Clean, vars
    <3> QED
      BY <2>2, <3>1, Zenon
  <2> QED
    BY <2>8, <2>11, <2>12, <2>13, Zenon DEF Next
<1> QED
  BY StoreInductive, <1>1, PTL DEF Spec, AnnouncedIsNew
-----------------------------------------------------------------------------
\* What the screens compute. The rows of a title:
LEMMA RowsOfTitle ==
  ASSUME StoreInv, NEW t \in Titles
  PROVE  /\ IsFiniteSet(DOMAIN episodes[t])
         /\ DOMAIN seasons[t] \subseteq Nat
         /\ \A k \in DOMAIN episodes[t] :
              /\ k \in Key /\ k = <<k[1], k[2]>> /\ k[1] \in Nat /\ k[2] \in Nat
              /\ k[1] \in DOMAIN seasons[t]
              /\ k[1] >= 1 <=> k[1] \in Regular(t)
<1>1. TitleSound(seasons[t], episodes[t])
  BY DEF StoreInv, TablesOK
<1>2. /\ IsFiniteSet(DOMAIN episodes[t]) /\ DOMAIN episodes[t] \subseteq Key
      /\ DOMAIN seasons[t] \subseteq Nat
      /\ \A k \in DOMAIN episodes[t] : k[1] \in DOMAIN seasons[t]
  BY <1>1, StoreAssumption DEF TitleSound, Table
<1>3. ASSUME NEW k \in DOMAIN episodes[t]
      PROVE  /\ k \in Key /\ k = <<k[1], k[2]>> /\ k[1] \in Nat /\ k[2] \in Nat
             /\ k[1] \in DOMAIN seasons[t]
             /\ k[1] >= 1 <=> k[1] \in Regular(t)
  <2>1. k \in Key /\ k[1] \in DOMAIN seasons[t]
    BY <1>2
  <2>2. k = <<k[1], k[2]>> /\ k[1] \in Nat /\ k[2] \in Nat
    <3>1. k = <<k[1], k[2]>> /\ k[1] \in Seasons /\ k[2] \in Numbers
      BY <2>1 DEF Key
    <3> QED
      BY <3>1, StoreAssumption
  <2> QED
    BY <2>1, <2>2 DEF Regular
<1> QED
  BY <1>2, <1>3

\* The part of a finite set counted with and without a condition.
LEMMA PartCounts ==
  ASSUME NEW S, IsFiniteSet(S), NEW T
  PROVE  /\ Cardinality(S) \in Nat /\ Cardinality(S \cap T) \in Nat
         /\ Cardinality(S \cap T) <= Cardinality(S)
         /\ Cardinality(S \cap T) = Cardinality(S) <=> S \subseteq T
         /\ Cardinality(S) = 0 <=> S = {}
         /\ Cardinality(S \cap T) = 0 <=> S \cap T = {}
<1>1. S \cap T \in SUBSET S
  OBVIOUS
<1>2. IsFiniteSet(S \cap T) /\ Cardinality(S \cap T) <= Cardinality(S)
      /\ (Cardinality(S) = Cardinality(S \cap T) => S = S \cap T)
  BY <1>1, FS_Subset
<1>3. Cardinality(S) \in Nat /\ Cardinality(S \cap T) \in Nat
  BY <1>2, FS_CardinalityType
<1>4. (Cardinality(S) = 0 <=> S = {}) /\ (Cardinality(S \cap T) = 0 <=> S \cap T = {})
  BY <1>2, FS_EmptySet
<1>5. S \subseteq T => S \cap T = S
  OBVIOUS
<1>6. S = S \cap T => S \subseteq T
  OBVIOUS
<1> QED
  BY <1>2, <1>3, <1>4, <1>5, <1>6

LEMMA TitleCounts ==
  ASSUME StoreInv, NEW t \in Titles
  PROVE  /\ KnownRegular(t) \in Nat /\ WatchedRegular(t) \in Nat
         /\ WatchedRegular(t) <= KnownRegular(t)
         /\ WatchedRegular(t) = KnownRegular(t) <=> RegularRows(t) \subseteq tracked[t]
         /\ KnownRegular(t) = 0 <=> RegularRows(t) = {}
         /\ WatchedRegular(t) = 0 <=> RegularRows(t) \cap tracked[t] = {}
<1>1. RegularRows(t) \in SUBSET DOMAIN episodes[t]
  BY DEF RegularRows
<1>2. IsFiniteSet(RegularRows(t))
  BY <1>1, RowsOfTitle, FS_Subset
<1> QED
  BY <1>2, PartCounts DEF KnownRegular, WatchedRegular

LEMMA SeasonCounts ==
  ASSUME StoreInv, NEW t \in Titles, NEW s
  PROVE  /\ Known(t, s) \in Nat /\ Watched(t, s) \in Nat
         /\ Watched(t, s) <= Known(t, s)
         /\ Watched(t, s) = Known(t, s) <=> InSeason(t, s) \subseteq tracked[t]
<1>1. InSeason(t, s) \in SUBSET DOMAIN episodes[t]
  BY DEF InSeason
<1>2. IsFiniteSet(InSeason(t, s))
  BY <1>1, RowsOfTitle, FS_Subset
<1> QED
  BY <1>2, PartCounts DEF Known, Watched

\* The detail pane's next episode, by counts, and Home's, by rows, are the
\* first unwatched row.
Unwatched(t) == {k \in DOMAIN episodes[t] : k[1] >= 1 /\ k \notin tracked[t]}

LEMMA NextIsFirst ==
  ASSUME StoreInv, NEW t \in Titles
  PROVE  /\ Unwatched(t) = RegularRows(t) \ tracked[t]
         /\ Unwatched(t) # {} => NextEpisode(t) \in Key /\ NextKnown(t) = {NextEpisode(t)}
         /\ Unwatched(t) = {} =>
              /\ NextKnown(t) = {}
              /\ NextEpisode(t) = IF KnownRegular(t) = 0 THEN <<"NothingKnown">>
                                  ELSE IF IsComplete(t) THEN <<"Complete">> ELSE <<"CaughtUp">>
<1> DEFINE unfinished == {s \in Regular(t) : Watched(t, s) < Known(t, s)}
           first == Min(unfinished)
           left == {k[2] : k \in InSeason(t, first) \ tracked[t]}
<1>1. Unwatched(t) = RegularRows(t) \ tracked[t]
  BY RowsOfTitle DEF Unwatched, RegularRows
<1>2. \A s \in Regular(t) : s \in unfinished <=> \E k \in InSeason(t, s) : k \notin tracked[t]
  <2>1. ASSUME NEW s \in Regular(t)
        PROVE  Watched(t, s) < Known(t, s) <=> ~ (InSeason(t, s) \subseteq tracked[t])
    BY SeasonCounts
  <2> QED
    BY <2>1
<1>3. \A k \in DOMAIN episodes[t] : k \in InSeason(t, k[1])
  BY DEF InSeason
<1>4. \A k \in Unwatched(t) : k[1] \in unfinished
  BY <1>1, <1>2, <1>3 DEF RegularRows
<1>5. \A s \in unfinished : \E k \in Unwatched(t) : k[1] = s
  BY <1>1, <1>2 DEF RegularRows, InSeason
<1>6. NextKnown(t) = {k \in Unwatched(t) : \A u \in Unwatched(t) : ~Before(u, k)}
  BY Zenon DEF NextKnown, Unwatched
<1>7. NextEpisode(t) = IF unfinished # {} THEN <<first, Min(left)>>
                       ELSE IF KnownRegular(t) = 0 THEN <<"NothingKnown">>
                       ELSE IF IsComplete(t) THEN <<"Complete">> ELSE <<"CaughtUp">>
  BY Zenon DEF NextEpisode
<1>8. ASSUME Unwatched(t) # {}
      PROVE  NextEpisode(t) \in Key /\ NextKnown(t) = {NextEpisode(t)}
  <2>1. unfinished # {} /\ unfinished \subseteq Nat
    BY <1>4, <1>8, RowsOfTitle DEF Regular
  <2>2. first \in unfinished /\ \A s \in unfinished : first <= s
    <3> HIDE DEF unfinished
    <3> QED
      BY <2>1, MinOfNaturals
  <2>3. \A k \in InSeason(t, first) \ tracked[t] : k \in Unwatched(t) /\ k[1] = first
    BY <1>1, <2>2 DEF RegularRows, InSeason
  <2>4. \A k \in Unwatched(t) : k \in DOMAIN episodes[t] /\ k = <<k[1], k[2]>>
                                /\ k[1] \in Nat /\ k[2] \in Nat /\ k \in Key
    BY RowsOfTitle DEF Unwatched
  <2>5. left # {} /\ left \subseteq Nat
    <3>1. PICK k \in InSeason(t, first) : k \notin tracked[t]
      BY <1>2, <2>2
    <3>2. k[2] \in left
      BY <3>1
    <3> QED
      BY <2>3, <2>4, <3>2
  <2> DEFINE n == Min(left)
             next == <<first, n>>
  <2>6. n \in left /\ \A m \in left : n <= m
    BY <2>5, MinOfNaturals
  <2>7. next \in Unwatched(t)
    BY <2>3, <2>4, <2>6
  <2>8. ASSUME NEW u \in Unwatched(t)
        PROVE  u = next \/ Before(next, u)
    <3>1. first <= u[1]
      BY <1>4, <2>2
    <3>2. u[1] = first => u[2] \in left
      <4>1. u \in InSeason(t, u[1]) \ tracked[t]
        BY <1>3, <2>4 DEF Unwatched
      <4> QED
        BY <4>1
    <3>3. u[1] = first => n <= u[2]
      BY <2>6, <3>2
    <3>4. first \in Nat /\ n \in Nat
      BY <2>1, <2>2, <2>5, <2>6
    <3>5. u[1] \in Nat /\ u[2] \in Nat /\ u = <<u[1], u[2]>>
      BY <2>4
    <3> HIDE DEF first, n
    <3>6. next[1] = first /\ next[2] = n
      OBVIOUS
    <3> QED
      BY <3>1, <3>3, <3>4, <3>5, <3>6 DEF Before
  <2>9. ASSUME NEW u \in Unwatched(t)
        PROVE  /\ ~ Before(u, next)
               /\ u # next => Before(next, u)
    <3>1. first \in Nat /\ n \in Nat /\ next[1] = first /\ next[2] = n
      BY <2>1, <2>2, <2>5, <2>6
    <3>2. u[1] \in Nat /\ u[2] \in Nat
      BY <2>4
    <3> HIDE DEF first, n, next
    <3> QED
      BY <2>8, <3>1, <3>2 DEF Before
  <2> HIDE DEF first, n, unfinished, left
  <2>10. NextEpisode(t) = next
    BY <1>7, <2>1, Zenon DEF next, n
  <2> HIDE DEF next
  <2>11. NextKnown(t) = {next}
    BY <1>6, <2>7, <2>9
  <2> QED
    BY <2>4, <2>7, <2>10, <2>11
<1>9. ASSUME Unwatched(t) = {}
      PROVE  /\ NextKnown(t) = {}
             /\ NextEpisode(t) = IF KnownRegular(t) = 0 THEN <<"NothingKnown">>
                                 ELSE IF IsComplete(t) THEN <<"Complete">> ELSE <<"CaughtUp">>
  <2>1. unfinished = {}
    BY <1>5, <1>9
  <2> HIDE DEF unfinished, first, left
  <2> QED
    BY <1>6, <1>7, <1>9, <2>1, Zenon
<1> QED
  BY <1>1, <1>8, <1>9

\* A percentage of 100 is all of them.
LEMMA Hundred ==
  ASSUME NEW w \in Nat, NEW k \in Nat, k > 0, w <= k
  PROVE  (w * 100) \div k = 100 <=> w = k
OBVIOUS

LEMMA NoKeys ==
  /\ <<"NothingKnown">> \notin Key /\ <<"Complete">> \notin Key /\ <<"CaughtUp">> \notin Key
  /\ <<"Complete">> # <<"CaughtUp">> /\ <<"Complete">> # <<"NothingKnown">>
BY DEF Key

\* What Home lists is from the list it was taken from; what is left out, only
\* because it is full.
LEMMA TakenIsFull ==
  ASSUME NEW S, NEW T \in Taken(S), NEW t
  PROVE  /\ t \in T => t \in S
         /\ t \in S /\ t \notin T => Cardinality(T) = HomeLimit
<1>1. T \in IF Cardinality(S) <= HomeLimit THEN {S} ELSE {R \in SUBSET S : Cardinality(R) = HomeLimit}
  BY DEF Taken
<1> QED
  BY <1>1

LEMMA InvScreens == StoreInv => ScreensAgree
<1> SUFFICES ASSUME StoreInv, NEW t \in member
             PROVE  /\ NextEpisode(t) \in Key <=> NextKnown(t) # {}
                    /\ NextEpisode(t) \in Key => NextKnown(t) = {NextEpisode(t)}
                    /\ NextEpisode(t) = <<"Complete">> <=> Standing(t) = "complete"
                    /\ ProgressView(t).percentage = 100 <=> Standing(t) = "complete"
                    /\ LibraryStatus[t] = "watched" <=> Standing(t) = "complete"
                    /\ LibraryStatus[t] \in {"percentage", "incomplete"} <=> Standing(t) = "in progress"
                    /\ HomeAgrees(t)
                    /\ tracked[t] \subseteq {0} \X Numbers => LibraryStatus[t] = "nothing"
                    /\ SeasonsAgree(t)
                    /\ CompleteIsWatched(t)
  BY Zenon DEF ScreensAgree
<1> DEFINE W == WatchedRegular(t)
           K == KnownRegular(t)
           next == NextEpisode(t)
           left == Unwatched(t)
<1>1. t \in Titles
  BY DEF StoreInv, MembersStored
<1>2. /\ W \in Nat /\ K \in Nat /\ W <= K
      /\ W = K <=> RegularRows(t) \subseteq tracked[t]
      /\ K = 0 <=> RegularRows(t) = {}
      /\ W = 0 <=> RegularRows(t) \cap tracked[t] = {}
  BY <1>1, TitleCounts
<1>3. /\ left = RegularRows(t) \ tracked[t]
      /\ left # {} => next \in Key /\ NextKnown(t) = {next}
      /\ left = {} => /\ NextKnown(t) = {}
                      /\ next = IF K = 0 THEN <<"NothingKnown">>
                                ELSE IF IsComplete(t) THEN <<"Complete">> ELSE <<"CaughtUp">>
  BY <1>1, NextIsFirst
<1>4. left = {} <=> W = K
  BY <1>2, <1>3
<1>5. IsComplete(t) <=> CoverageComplete(t) /\ K > 0 /\ W = K
  BY DEF IsComplete
<1>6. /\ Standing(t) = "complete" <=> IsComplete(t)
      /\ Standing(t) = "in progress" <=> ~ IsComplete(t) /\ W > 0
  BY DEF Standing
<1>7. LibraryStatus[t] = IF W = 0 THEN "nothing"
                         ELSE IF IsComplete(t) THEN "watched"
                         ELSE IF CoverageComplete(t) THEN "percentage" ELSE "incomplete"
  BY DEF LibraryStatus
<1>8. t \in ContinueWatching <=> RegularRows(t) \cap tracked[t] # {} /\ left # {}
  <2>1. RegularRows(t) \cap tracked[t] # {} <=>
          \E k \in DOMAIN episodes[t] : k[1] >= 1 /\ k \in tracked[t]
    BY <1>1, RowsOfTitle DEF RegularRows
  <2>2. left # {} <=> \E u \in DOMAIN episodes[t] : u[1] >= 1 /\ u \notin tracked[t]
    BY DEF Unwatched
  <2> QED
    BY <2>1, <2>2 DEF ContinueWatching
<1>9. /\ t \in ContinueWatching <=> W > 0 /\ W < K
      /\ t \in CaughtUp <=> W > 0 /\ W = K /\ ~ CoverageComplete(t)
  BY <1>2, <1>4, <1>8 DEF CaughtUp
<1>10. /\ t \in ContinueWatching => left # {} /\ ~ IsComplete(t)
       /\ t \in CaughtUp => left = {} /\ ~ IsComplete(t)
       /\ W > 0 /\ ~ IsComplete(t) => t \in IF left # {} THEN ContinueWatching ELSE CaughtUp
  <2> HIDE DEF W, K, left, next
  <2> QED
    BY <1>2, <1>4, <1>5, <1>9
<1>11. t \in CaughtUp => next = <<"CaughtUp">>
  <2> HIDE DEF W, K, left, next
  <2> QED
    BY <1>2, <1>3, <1>4, <1>5, <1>9
<1>12. next = <<"Complete">> <=> IsComplete(t)
  <2> HIDE DEF W, K, next, left
  <2> QED
    BY <1>2, <1>3, <1>4, <1>5, NoKeys
<1>13. next \in Key <=> left # {}
  <2> HIDE DEF W, K, next, left
  <2> QED
    BY <1>3, NoKeys
<1>14. /\ ProgressView(t).percentage = (IF K > 0 /\ CoverageComplete(t) THEN (W * 100) \div K ELSE Unknown)
  BY DEF ProgressView
<1>15. ProgressView(t).percentage # Unknown => K > 0 /\ CoverageComplete(t)
  BY <1>14
<1>16. ProgressView(t).percentage = 100 <=> IsComplete(t)
  <2>1. Unknown # 100
    BY StoreAssumption
  <2> HIDE DEF W, K
  <2>2. K > 0 => ((W * 100) \div K = 100 <=> W = K)
    BY <1>2, Hundred
  <2> QED
    BY <1>2, <1>5, <1>14, <2>1, <2>2
<1>17. tracked[t] \subseteq {0} \X Numbers => LibraryStatus[t] = "nothing"
  <2> SUFFICES ASSUME tracked[t] \subseteq {0} \X Numbers
               PROVE  W = 0
    BY <1>7
  <2>1. \A k \in tracked[t] : k[1] = 0
    OBVIOUS
  <2>2. RegularRows(t) \cap tracked[t] = {}
    BY <2>1 DEF RegularRows, Regular
  <2> QED
    BY <1>2, <2>2
<1>18. ASSUME CoverageComplete(t), NEW s \in Regular(t)
       PROVE  /\ SeasonRowView(t, s).coverage = ""
              /\ seasons[t][s] \in Row /\ s \in DOMAIN seasons[t]
              /\ seasons[t][s].known # Unknown
              /\ seasons[t][s].count = Unknown \/ seasons[t][s].known >= seasons[t][s].count
  <2>1. Covered(seasons[t][s])
    BY <1>18 DEF CoverageComplete
  <2>2. s \in DOMAIN seasons[t] /\ seasons[t][s] \in Row
    BY <1>1 DEF Regular, StoreInv, TablesOK, TitleSound, Table
  <2> QED
    BY <2>1, <2>2 DEF Covered, SeasonRowView
<1>19. ASSUME IsComplete(t), NEW s \in Regular(t)
       PROVE  Watched(t, s) = Known(t, s)
  <2>1. RegularRows(t) \subseteq tracked[t]
    BY <1>2, <1>5, <1>19
  <2>2. InSeason(t, s) \subseteq RegularRows(t)
    BY DEF InSeason, RegularRows
  <2> QED
    BY <1>1, <2>1, <2>2, SeasonCounts
<1>20. SeasonsAgree(t)
  <2> SUFFICES ASSUME ProgressView(t).percentage # Unknown, NEW s \in Regular(t)
               PROVE  /\ SeasonRowView(t, s).coverage = ""
                      /\ ProgressView(t).percentage = 100 /\ SeasonRowView(t, s).watched # << >> =>
                           SeasonRowView(t, s).watched[1] = SeasonRowView(t, s).watched[2]
    BY Zenon DEF SeasonsAgree
  <2>1. SeasonRowView(t, s).watched =
          IF Watched(t, s) > 0 THEN <<Watched(t, s), Known(t, s)>> ELSE << >>
    BY DEF SeasonRowView
  <2>2. ProgressView(t).percentage = 100 => Watched(t, s) = Known(t, s)
    BY <1>16, <1>19
  <2>3. SeasonRowView(t, s).coverage = ""
    BY <1>15, <1>18
  <2>4. CASE Watched(t, s) > 0
    <3>1. SeasonRowView(t, s).watched = <<Watched(t, s), Known(t, s)>>
      BY <2>1, <2>4
    <3>2. /\ SeasonRowView(t, s).watched[1] = Watched(t, s)
          /\ SeasonRowView(t, s).watched[2] = Known(t, s)
      BY <3>1
    <3> QED
      BY <2>2, <2>3, <3>2
  <2>5. CASE ~ (Watched(t, s) > 0)
    BY <2>1, <2>3, <2>5
  <2> QED
    BY <2>4, <2>5
<1>21. CompleteIsWatched(t)
  <2> SUFFICES ASSUME IsComplete(t), NEW s \in Regular(t), seasons[t][s].count # Unknown
               PROVE  Watched(t, s) >= seasons[t][s].count
    BY DEF CompleteIsWatched
  <2>1. /\ seasons[t][s] \in Row /\ s \in DOMAIN seasons[t]
        /\ seasons[t][s].known # Unknown
        /\ seasons[t][s].known >= seasons[t][s].count
    BY <1>5, <1>18
  <2>2. seasons[t][s].known \in Nat /\ seasons[t][s].count \in Nat
    BY <2>1 DEF Row
  <2>3. seasons[t][s].known # 0 => Known(t, s) = seasons[t][s].known
    BY <1>1, <2>1, InvIsSound DEF TablesAreSound, CoverageIsTrue
  <2>4. Watched(t, s) \in Nat /\ Watched(t, s) = Known(t, s)
    BY <1>1, <1>19, SeasonCounts
  <2> QED
    BY <2>1, <2>2, <2>3, <2>4
<1> HIDE DEF W, K, next, left
<1>22. LibraryStatus[t] = "watched" <=> IsComplete(t)
  BY <1>2, <1>5, <1>7
<1>23. LibraryStatus[t] \in {"percentage", "incomplete"} <=> W > 0 /\ ~ IsComplete(t)
  BY <1>2, <1>5, <1>7
<1>24. next \in Key <=> NextKnown(t) # {}
  BY <1>3, <1>13
<1>26. HomeAgrees(t)
  <2> SUFFICES ASSUME NEW started \in Taken(ContinueWatching), NEW noted \in Taken(CaughtUp)
               PROVE  LET rows == UpNext(t, started, noted)
                          kind == IF next \in Key THEN started ELSE noted
                      IN  /\ rows # {} => Standing(t) = "in progress" /\ rows = {next}
                          /\ Standing(t) = "in progress" /\ rows = {} => Cardinality(kind) = HomeLimit
    BY Zenon DEF HomeAgrees, next
  <2> DEFINE rows == UpNext(t, started, noted)
  <2>1. /\ t \in started => t \in ContinueWatching
        /\ t \in ContinueWatching /\ t \notin started => Cardinality(started) = HomeLimit
    BY TakenIsFull
  <2>2. /\ t \in noted => t \in CaughtUp
        /\ t \in CaughtUp /\ t \notin noted => Cardinality(noted) = HomeLimit
    BY TakenIsFull
  <2>3. rows = (IF t \in started THEN NextKnown(t) ELSE {})
                 \cup (IF t \in noted THEN {<<"CaughtUp">>} ELSE {})
    BY DEF UpNext
  <2>4. t \in started => NextKnown(t) = {next} /\ ~ IsComplete(t) /\ W > 0
    BY <1>3, <1>9, <1>10, <2>1
  <2>5. t \in noted => next = <<"CaughtUp">> /\ ~ IsComplete(t) /\ W > 0
    BY <1>9, <1>10, <1>11, <2>2
  <2> HIDE DEF W, K, left, next, rows
  <2>6. CASE t \in started \/ t \in noted
    <3>1. rows = {next}
      BY <2>3, <2>4, <2>5, <2>6
    <3>2. Standing(t) = "in progress"
      BY <1>6, <2>4, <2>5, <2>6
    <3> QED
      BY <3>1, <3>2 DEF rows
  <2>7. CASE t \notin started /\ t \notin noted
    <3>1. rows = {}
      BY <2>3, <2>7
    <3>2. Standing(t) = "in progress" => Cardinality(IF next \in Key THEN started ELSE noted) = HomeLimit
      BY <1>6, <1>10, <1>13, <2>1, <2>2, <2>7
    <3> QED
      BY <3>1, <3>2 DEF rows
  <2> QED
    BY <2>6, <2>7
<1>25. next \in Key => NextKnown(t) = {next}
  BY <1>3, <1>13
<1> QED
  BY <1>6, <1>12, <1>16, <1>17, <1>20, <1>21, <1>22, <1>23, <1>24, <1>25, <1>26, Zenon
     DEF next

\* The detail pane, Home, the Library row and Statistics each compute from the
\* tables in their own way and never contradict each other about a series. Home
\* leaves one in progress out only when it lists HomeLimit of its kind; it is
\* complete only if every regular season is watched as far as TMDB counts
\* (ADR-0018).
THEOREM ScreensSayTheSame == Spec => []ScreensAgree
BY StoreInductive, InvScreens, PTL
-----------------------------------------------------------------------------
\* The backup lists exactly the rows of the library, in any order and perhaps
\* some of them twice.
Lists(b, l) == \A t \in Tables : Range(b[t]) = l[t]

\* Its rows are those of the library, and each is listed.
LEMMA RowsListed ==
  ASSUME NEW b, NEW l, Lists(b, l), NEW t \in Tables
  PROVE  /\ \A i \in DOMAIN b[t] : b[t][i] \in l[t]
         /\ \A r \in l[t] : \E i \in DOMAIN b[t] : b[t][i] = r
BY DEF Lists, Range

LEMMA RowsAreListed ==
  ASSUME NEW b PROVE Lists(b, Rows(b)) /\ Rows(b) = [t \in Tables |-> Rows(b)[t]]
BY DEF Lists, Rows

\* References are answered alike.
LEMMA ReferencesAlike ==
  ASSUME NEW b, NEW l, Lists(b, l)
  PROVE  /\ \A id, type : HasMedia(b, id, type) <=> IsMedia(l, id, type)
         /\ \A id : HasId(b, id) <=> IsId(l, id)
         /\ \A r : HasGenre(b, r) <=> \E g \in l.genres : GenreKey(g) = GenreKey(r)
         /\ \A r : HasSeason(b, r) <=>
              \E s \in l.seasons : SeasonKey(s) = <<r.media, r.season>>
         /\ \A id : Referred(b, id) <=> \E r \in l.refs : r.media = id
<1>1. "media" \in Tables /\ "genres" \in Tables /\ "seasons" \in Tables /\ "refs" \in Tables
  BY DEF Tables
<1>2. \A id, type : HasMedia(b, id, type) <=> IsMedia(l, id, type)
  BY <1>1, RowsListed DEF HasMedia, IsMedia
<1>3. \A id : HasId(b, id) <=> IsId(l, id)
  BY <1>1, RowsListed DEF HasId, IsId
<1>4. \A r : HasGenre(b, r) <=> \E g \in l.genres : GenreKey(g) = GenreKey(r)
  BY <1>1, RowsListed DEF HasGenre
<1>5. \A r : HasSeason(b, r) <=> \E s \in l.seasons : SeasonKey(s) = <<r.media, r.season>>
  BY <1>1, RowsListed DEF HasSeason
<1>6. \A id : Referred(b, id) <=> \E r \in l.refs : r.media = id
  BY <1>1, RowsListed DEF Referred
<1> QED
  BY <1>2, <1>3, <1>4, <1>5, <1>6

\* Rows no two of which share a key, each listed once, have unique keys in the
\* list; and the other way round.
LEMMA UniqueWhenDistinct ==
  ASSUME NEW rows, NEW key(_), IsInjective(rows), Distinct(Range(rows), key)
  PROVE  Unique(rows, key)
BY DEF Unique, Distinct, Range, IsInjective

LEMMA DistinctWhenUnique ==
  ASSUME NEW rows, NEW key(_), Unique(rows, key)
  PROVE  IsInjective(rows) /\ Distinct(Range(rows), key)
BY DEF Unique, Distinct, Range, IsInjective
-----------------------------------------------------------------------------
\* What is accepted violates no constraint, except in the overlooked columns.

LEMMA KindKnown ==
  ASSUME NEW b, MediaValid(b), NEW id, NEW type, HasMedia(b, id, type)
  PROVE  type \in Kinds
BY DEF MediaValid, HasMedia

\* Every accepted list lists each row once.
LEMMA AcceptedOnce ==
  ASSUME NEW b, Accepted(b), NEW t \in Tables
  PROVE  IsInjective(b[t])
<1>1. IsInjective(b.media) /\ IsInjective(b.refs) /\ IsInjective(b.library)
  BY DistinctWhenUnique DEF Accepted, MediaValid, RefsValid, LibraryValid
<1>2. IsInjective(b.genres) /\ IsInjective(b.links) /\ IsInjective(b.seasons)
  BY DistinctWhenUnique DEF Accepted, GenresValid, LinksValid, SeasonsValid
<1>3. IsInjective(b.episodes) /\ IsInjective(b.tracking) /\ IsInjective(b.episode_tracking)
  BY DistinctWhenUnique DEF Accepted, EpisodesValid, TitleTrackingValid, EpisodeTrackingValid
<1>4. IsInjective(b.events) /\ IsInjective(b.releases)
  BY DistinctWhenUnique DEF Accepted, EventsValid, ReleasesValid
<1> QED
  BY <1>1, <1>2, <1>3, <1>4 DEF Tables

\* The tables whose checks are the constraints, or more than them.
LEMMA SameChecks ==
  ASSUME NEW b, Accepted(b), NEW l, Lists(b, l)
  PROVE  /\ MediaFits(l) /\ LibraryFits(l) /\ GenresFit(l) /\ LinksFit(l)
         /\ EpisodesFit(l) /\ EpisodeTrackingFits(l) /\ ReleasesFit(l)
<1>1. MediaFits(l)
  <2>1. \A m \in l.media : \E i \in DOMAIN b.media : b.media[i] = m
    BY RowsListed DEF Tables
  <2>2. Distinct(l.media, Id)
    BY DistinctWhenUnique DEF Accepted, MediaValid, Lists, Tables
  <2> QED
    BY <2>1, <2>2 DEF Accepted, MediaValid, MediaFits
<1>2. LibraryFits(l)
  <2>1. \A r \in l.library : \E i \in DOMAIN b.library : b.library[i] = r
    BY RowsListed DEF Tables
  <2>2. Distinct(l.library, MediaId)
    BY DistinctWhenUnique DEF Accepted, LibraryValid, Lists, Tables
  <2> QED
    BY <2>1, <2>2, ReferencesAlike DEF Accepted, LibraryValid, LibraryFits
<1>3. GenresFit(l)
  <2>1. \A g \in l.genres : \E i \in DOMAIN b.genres : b.genres[i] = g
    BY RowsListed DEF Tables
  <2>2. Distinct(l.genres, GenreKey)
    BY DistinctWhenUnique DEF Accepted, GenresValid, Lists, Tables
  <2> QED
    BY <2>1, <2>2 DEF Accepted, GenresValid, GenresFit
<1>4. LinksFit(l)
  <2>1. \A r \in l.links : \E i \in DOMAIN b.links : b.links[i] = r
    BY RowsListed DEF Tables
  <2>2. Distinct(l.links, LinkKey)
    BY DistinctWhenUnique DEF Accepted, LinksValid, Lists, Tables
  <2> QED
    BY <2>1, <2>2, ReferencesAlike DEF Accepted, LinksValid, LinksFit
<1>5. EpisodesFit(l)
  <2>1. \A e \in l.episodes : \E i \in DOMAIN b.episodes : b.episodes[i] = e
    BY RowsListed DEF Tables
  <2>2. Distinct(l.episodes, EpisodeKey)
    BY DistinctWhenUnique DEF Accepted, EpisodesValid, Lists, Tables
  <2>3. UniqueIds(b.episodes)
    BY DEF Accepted, EpisodesValid
  <2>4. Distinct({e \in l.episodes : e.external # None}, ExternalKey)
    BY <2>1, <2>3 DEF UniqueIds, Distinct
  <2> QED
    BY <2>1, <2>2, <2>4, ReferencesAlike DEF Accepted, EpisodesValid, EpisodesFit
<1>6. EpisodeTrackingFits(l)
  <2>1. \A r \in l.episode_tracking :
          \E i \in DOMAIN b.episode_tracking : b.episode_tracking[i] = r
    BY RowsListed DEF Tables
  <2>2. Distinct(l.episode_tracking, EpisodeKey)
    BY DistinctWhenUnique DEF Accepted, EpisodeTrackingValid, Lists, Tables
  <2> QED
    BY <2>1, <2>2, ReferencesAlike DEF Accepted, EpisodeTrackingValid, EpisodeTrackingFits
<1>7. ReleasesFit(l)
  <2>1. \A r \in l.releases : \E i \in DOMAIN b.releases : b.releases[i] = r
    BY RowsListed DEF Tables
  <2>2. Distinct(l.releases, EpisodeKey) /\ Distinct(l.releases, Id)
    BY DistinctWhenUnique DEF Accepted, ReleasesValid, Lists, Tables
  <2> QED
    BY <2>1, <2>2, ReferencesAlike DEF Accepted, ReleasesValid, ReleasesFit
<1> QED
  BY <1>1, <1>2, <1>3, <1>4, <1>5, <1>6, <1>7

\* Provider identities: the type constraint follows from the reference.
LEMMA RefsTaken ==
  ASSUME NEW b, Accepted(b), NEW l, Lists(b, l)
  PROVE  RefsFit(l)
<1>1. MediaValid(b) /\ RefsValid(b)
  BY DEF Accepted
<1>2. \A r \in l.refs : \E i \in DOMAIN b.refs : b.refs[i] = r
  BY RowsListed DEF Tables
<1>3. Distinct(l.refs, Identity)
  BY <1>1, DistinctWhenUnique DEF RefsValid, Lists, Tables
<1>4. ASSUME NEW i \in DOMAIN b.refs
      PROVE  b.refs[i].type \in Kinds
  <2>1. HasMedia(b, b.refs[i].media, b.refs[i].type)
    BY <1>1 DEF RefsValid
  <2> QED
    BY <1>1, <2>1, KindKnown
<1> QED
  BY <1>1, <1>2, <1>3, <1>4, ReferencesAlike DEF RefsValid, RefsFit

\* Watch events: a movie's names no episode, a series' one, and which is which
\* is all the constraints ask.
LEMMA EventsTaken ==
  ASSUME NEW b, Accepted(b), NEW l, Lists(b, l)
  PROVE  EventsFit(l)
<1>1. EventsValid(b)
  BY DEF Accepted
<1>2. Distinct(l.events, Id)
  BY <1>1, DistinctWhenUnique DEF EventsValid, Lists, Tables
<1>3. ASSUME NEW e \in l.events
      PROVE  /\ e.type \in Kinds /\ Natural(e.season) /\ Natural(e.number)
             /\ Positive(e.runtime)
             /\ (e.type = "tv") = (e.season # None /\ e.number # None)
             /\ (e.season = None) = (e.number = None)
             /\ IsMedia(l, e.media, e.type)
  <2>1. PICK i \in DOMAIN b.events : b.events[i] = e
    BY RowsListed DEF Tables
  <2>2. HasMedia(b, e.media, e.type) /\ Positive(e.runtime)
    BY <1>1, <2>1 DEF EventsValid
  <2>3. IsMedia(l, e.media, e.type)
    BY <2>2, ReferencesAlike
  <2>4. CASE e.type = "movie" /\ e.season = None /\ e.number = None
    BY <2>2, <2>3, <2>4 DEF Kinds, Natural
  <2>5. CASE /\ e.type = "tv" /\ e.season # None /\ e.number # None
             /\ e.season >= 0 /\ e.number >= 0
    BY <2>2, <2>3, <2>5 DEF Kinds, Natural
  <2> QED
    BY <1>1, <2>1, <2>4, <2>5 DEF EventsValid
<1> QED
  BY <1>2, <1>3 DEF EventsFit

\* Seasons and title tracking fit where nothing was overlooked.
LEMMA OverlookedOnly ==
  ASSUME NEW b, Accepted(b), ~Overlooked(b), NEW l, Lists(b, l)
  PROVE  SeasonsFit(l) /\ TrackingFits(l)
<1>1. MediaValid(b) /\ SeasonsValid(b) /\ TitleTrackingValid(b)
  BY DEF Accepted
<1>2. /\ \A s \in l.seasons : \E i \in DOMAIN b.seasons : b.seasons[i] = s
      /\ \A t \in l.tracking : \E i \in DOMAIN b.tracking : b.tracking[i] = t
  BY RowsListed DEF Tables
<1>3. Distinct(l.seasons, SeasonKey) /\ Distinct(l.tracking, MediaId)
  BY <1>1, DistinctWhenUnique DEF SeasonsValid, TitleTrackingValid, Lists, Tables
<1>4. SeasonsFit(l)
  BY <1>1, <1>2, <1>3, ReferencesAlike DEF SeasonsValid, SeasonsFit, Overlooked
<1>5. ASSUME NEW i \in DOMAIN b.tracking
      PROVE  b.tracking[i].type \in Kinds
  <2>1. HasMedia(b, b.tracking[i].media, b.tracking[i].type)
    BY <1>1 DEF TitleTrackingValid
  <2> QED
    BY <1>1, <2>1, KindKnown
<1>6. TrackingFits(l)
  BY <1>1, <1>2, <1>3, <1>5, ReferencesAlike DEF TitleTrackingValid, TrackingFits, Overlooked
<1> QED
  BY <1>4, <1>6

\* What is checked is complete, but for two columns.
THEOREM ChecksSuffice ==
  ASSUME NEW b, Accepted(b)
  PROVE  Fits(b) \/ Overlooked(b)
<1> SUFFICES ASSUME ~Overlooked(b) PROVE Fits(b)
  OBVIOUS
<1>1. Lists(b, Rows(b))
  BY RowsAreListed
<1>2. Schema(Rows(b))
  BY <1>1, SameChecks, RefsTaken, EventsTaken, OverlookedOnly DEF Schema
<1> QED
  BY <1>2, AcceptedOnce DEF Fits

\* Only a checked backup is ever pending.
PendingChecked == pending # None => Parsed(pending)

LEMMA PendingStaysChecked == PendingChecked /\ [BackupNext]_backupVars => PendingChecked'
<1> SUFFICES ASSUME PendingChecked, [BackupNext]_backupVars PROVE PendingChecked'
  OBVIOUS
<1>1. CASE Select
  BY <1>1 DEF Select, Read, PendingChecked
<1>2. CASE Confirm
  BY <1>2 DEF Confirm, PendingChecked
<1>3. CASE UNCHANGED pending
  BY <1>3 DEF PendingChecked
<1> QED
  BY <1>1, <1>2, <1>3 DEF BackupNext, backupVars, Change, Export, Alter, ConfirmFails

\* Whatever files are exported, altered and chosen, a pending backup is one the
\* database takes, but for the columns overlooked.
THEOREM TakenWhenChecked == BackupSpec => []CheckedIsTaken
<1>1. BackupInit => PendingChecked
  BY DEF BackupInit, PendingChecked
<1>2. PendingChecked => CheckedIsTaken
  BY ChecksSuffice DEF PendingChecked, CheckedIsTaken, Parsed
<1> QED
  BY <1>1, <1>2, PendingStaysChecked, PTL DEF BackupSpec
-----------------------------------------------------------------------------
\* What the program exports is accepted, and restores what it was made from.

\* A library of finite tables whose rows the schema admits, and of which the
\* writers keep what the schema does not say.
Whole(l) ==
  /\ l \in Database /\ Schema(l) /\ WritersKeep(l)
  /\ \A t \in Tables : IsFiniteSet(l[t])

\* A list of a whole library in which no row is twice passes every check.
LEMMA ListAccepted ==
  ASSUME NEW l, Whole(l), NEW b, Lists(b, l), \A t \in Tables : IsInjective(b[t])
  PROVE  Accepted(b)
<1> USE RowsListed, ReferencesAlike DEF Whole, Schema, Lists, Tables
<1>1. MediaValid(b)
  <2>1. \A i \in DOMAIN b.media : b.media[i] \in l.media
    OBVIOUS
  <2>2. Unique(b.media, Id)
    BY UniqueWhenDistinct DEF MediaFits
  <2> QED
    BY <2>1, <2>2 DEF MediaFits, WritersKeep, MediaValid
<1>2. RefsValid(b)
  <2>1. /\ \A i \in DOMAIN b.refs : b.refs[i] \in l.refs
        /\ \A i \in DOMAIN b.media : b.media[i] \in l.media
    OBVIOUS
  <2>2. Unique(b.refs, Identity)
    BY UniqueWhenDistinct DEF RefsFit
  <2> QED
    BY <2>1, <2>2 DEF RefsFit, WritersKeep, RefsValid
<1>3. LibraryValid(b)
  <2>1. \A i \in DOMAIN b.library : b.library[i] \in l.library
    OBVIOUS
  <2>2. Unique(b.library, MediaId)
    BY UniqueWhenDistinct DEF LibraryFits
  <2> QED
    BY <2>1, <2>2 DEF LibraryFits, WritersKeep, LibraryValid
<1>4. GenresValid(b)
  <2>1. \A i \in DOMAIN b.genres : b.genres[i] \in l.genres
    OBVIOUS
  <2>2. Unique(b.genres, GenreKey)
    BY UniqueWhenDistinct DEF GenresFit
  <2> QED
    BY <2>1, <2>2 DEF GenresFit, GenresValid
<1>5. LinksValid(b)
  <2>1. \A i \in DOMAIN b.links : b.links[i] \in l.links
    OBVIOUS
  <2>2. Unique(b.links, LinkKey)
    BY UniqueWhenDistinct DEF LinksFit
  <2> QED
    BY <2>1, <2>2 DEF LinksFit, LinksValid
<1>6. SeasonsValid(b)
  <2>1. \A i \in DOMAIN b.seasons : b.seasons[i] \in l.seasons
    OBVIOUS
  <2>2. Unique(b.seasons, SeasonKey)
    BY UniqueWhenDistinct DEF SeasonsFit
  <2> QED
    BY <2>1, <2>2 DEF SeasonsFit, WritersKeep, SeasonsValid
<1>7. EpisodesValid(b)
  <2>1. \A i \in DOMAIN b.episodes : b.episodes[i] \in l.episodes
    OBVIOUS
  <2>2. Unique(b.episodes, EpisodeKey)
    BY UniqueWhenDistinct DEF EpisodesFit
  <2>3. ASSUME NEW i \in DOMAIN b.episodes, NEW j \in DOMAIN b.episodes,
               b.episodes[i].external # None,
               ExternalKey(b.episodes[i]) = ExternalKey(b.episodes[j])
        PROVE  i = j
    <3> DEFINE named == {e \in l.episodes : e.external # None}
    <3>1. b.episodes[i] \in named /\ b.episodes[j] \in named
      BY <2>1, <2>3 DEF ExternalKey
    <3>2. Distinct(named, ExternalKey)
      BY DEF EpisodesFit
    <3>3. b.episodes[i] = b.episodes[j]
      BY <2>3, <3>1, <3>2 DEF Distinct
    <3> QED
      BY <3>3 DEF IsInjective
  <2> QED
    BY <2>1, <2>2, <2>3 DEF EpisodesFit, WritersKeep, EpisodesValid, UniqueIds
<1>8. TitleTrackingValid(b)
  <2>1. \A i \in DOMAIN b.tracking : b.tracking[i] \in l.tracking
    OBVIOUS
  <2>2. Unique(b.tracking, MediaId)
    BY UniqueWhenDistinct DEF TrackingFits
  <2> QED
    BY <2>1, <2>2 DEF TrackingFits, WritersKeep, TitleTrackingValid
<1>9. EpisodeTrackingValid(b)
  <2>1. \A i \in DOMAIN b.episode_tracking : b.episode_tracking[i] \in l.episode_tracking
    OBVIOUS
  <2>2. Unique(b.episode_tracking, EpisodeKey)
    BY UniqueWhenDistinct DEF EpisodeTrackingFits
  <2> QED
    BY <2>1, <2>2 DEF EpisodeTrackingFits, WritersKeep, EpisodeTrackingValid
<1>10. EventsValid(b)
  <2>1. \A i \in DOMAIN b.events : b.events[i] \in l.events
    OBVIOUS
  <2>2. Unique(b.events, Id)
    BY UniqueWhenDistinct DEF EventsFit
  <2> QED
    BY <2>1, <2>2 DEF EventsFit, WritersKeep, Kinds, Natural, EventsValid
<1>11. ReleasesValid(b)
  <2>1. \A i \in DOMAIN b.releases : b.releases[i] \in l.releases
    OBVIOUS
  <2>2. Unique(b.releases, EpisodeKey) /\ Unique(b.releases, Id)
    BY UniqueWhenDistinct DEF ReleasesFit
  <2> QED
    BY <2>1, <2>2 DEF ReleasesFit, WritersKeep, ReleasesValid
<1> QED
  BY <1>1, <1>2, <1>3, <1>4, <1>5, <1>6, <1>7, <1>8, <1>9, <1>10, <1>11 DEF Accepted

LEMMA SeqOfSubset ==
  ASSUME NEW S, NEW T, S \subseteq T, NEW s \in Seq(S)
  PROVE  s \in Seq(T)
OBVIOUS

\* A finite set can be put in a sequence that has each member once.
LEMMA Sequenced ==
  ASSUME NEW S, IsFiniteSet(S)
  PROVE  SetToSeq(S) \in Seq(S) /\ IsInjective(SetToSeq(S)) /\ Range(SetToSeq(S)) = S
<1> DEFINE n == Cardinality(S)
           f == SetToSeq(S)
<1>1. n \in Nat
  BY FS_CardinalityType
<1>2. PICK g \in Bijection(1..n, S) : TRUE
  BY FS_CardinalityType DEF ExistsBijection
<1>3. g \in [1..n -> S] /\ IsInjective(g)
  BY <1>2 DEF Bijection, Injection
<1>4. f \in [1..n -> S] /\ IsInjective(f)
  BY <1>3 DEF SetToSeq
<1>5. f \in Injection(1..n, S) /\ IsFiniteSet(1..n) /\ Cardinality(1..n) = n
  BY <1>1, <1>4, FS_Interval DEF Injection
<1>6. f \in Surjection(1..n, S)
  BY <1>5, FS_Injection
<1> HIDE DEF f, n
<1>7. Range(f) = S
  BY <1>4, <1>6 DEF Range, Surjection
<1>8. f \in Seq(S)
  BY <1>1, <1>4
<1> QED
  BY <1>4, <1>7, <1>8 DEF f

\* What is exported from a whole library lists it, each row once.
LEMMA ExportLists ==
  ASSUME Whole(tables)
  PROVE  /\ Exported \in BackupV1 /\ HeaderValid(Exported.header)
         /\ Lists(Exported.data, tables)
         /\ \A t \in Tables : IsInjective(Exported.data[t])
<1> DEFINE d == [t \in Tables |-> SetToSeq(tables[t])]
<1>1. ASSUME NEW t \in Tables
      PROVE  d[t] \in Seq(tables[t]) /\ Range(d[t]) = tables[t] /\ IsInjective(d[t])
  BY Sequenced DEF Whole
<1>2. d = [t \in Tables |-> d[t]]
  OBVIOUS
<1>3. Exported.data = d
  BY DEF Exported
<1>4. Exported.header \in Header /\ HeaderValid(Exported.header)
  BY BackupAssumption DEF Exported, Header, HeaderValid
<1> HIDE DEF d
<1>5. d \in BackupData
  <2>1. tables \in Database
    BY DEF Whole
  <2> QED
    BY <1>1, <1>2, <2>1, SeqOfSubset DEF Database, BackupData, Tables
<1>6. Exported \in BackupV1
  BY <1>3, <1>4, <1>5 DEF Exported, BackupV1
<1> QED
  BY <1>1, <1>3, <1>4, <1>6 DEF Lists

\* What the writers keep is also kept by a backup somebody edited, once it is
\* accepted.
LEMMA AcceptedIsKept ==
  ASSUME NEW b, Accepted(b), NEW l, Lists(b, l)
  PROVE  WritersKeep(l)
<1>1. \A t \in Tables : \A r \in l[t] : \E i \in DOMAIN b[t] : b[t][i] = r
  BY RowsListed
<1>2. \A m \in l.media : m.id > 0 /\ Timestamp(m.stamp)
  BY <1>1 DEF Accepted, MediaValid, Tables
<1>3. \A m \in l.media : \E r \in l.refs : r.media = m.id
  BY <1>1, ReferencesAlike DEF Accepted, RefsValid, Tables
<1>4. \A r \in l.library : r.added \in Stamps
  BY <1>1 DEF Accepted, LibraryValid, Tables
<1>5. \A r \in l.seasons : Timestamp(r.stamp)
  BY <1>1 DEF Accepted, SeasonsValid, Tables
<1>6. \A r \in l.episodes : Timestamp(r.stamp)
  BY <1>1 DEF Accepted, EpisodesValid, Tables
<1>7. \A r \in l.tracking : Timestamp(r.watched)
  BY <1>1 DEF Accepted, TitleTrackingValid, Tables
<1>8. \A r \in l.episode_tracking : r.watched \in Stamps
  BY <1>1 DEF Accepted, EpisodeTrackingValid, Tables
<1>9. \A r \in l.events : r.id > 0 /\ r.watched \in Stamps
  BY <1>1 DEF Accepted, EventsValid, Tables
<1>10. \A r \in l.releases : r.id > 0 /\ r.found \in Stamps /\ Timestamp(r.read)
  BY <1>1 DEF Accepted, ReleasesValid, Tables
<1> QED
  BY <1>2, <1>3, <1>4, <1>5, <1>6, <1>7, <1>8, <1>9, <1>10 DEF WritersKeep

LEMMA RangeOfSequence ==
  ASSUME NEW S, NEW s \in Seq(S)
  PROVE  Range(s) \subseteq S /\ IsFiniteSet(Range(s))
<1>1. s \in Surjection(1..Len(s), Range(s))
  BY DEF Range, Surjection
<1>2. IsFiniteSet(1..Len(s))
  BY FS_Interval
<1> QED
  BY <1>1, <1>2, FS_Surjection DEF Range

\* The library is whole again after a restore, whatever the file was.
LEMMA RestoredIsWhole ==
  ASSUME NEW b \in BackupData, Accepted(b), Fits(b)
  PROVE  Whole(Rows(b))
<1>1. b \in BackupData /\ Accepted(b) /\ Schema(Rows(b))
  BY DEF Fits
<1>2. Rows(b) \in Database
  BY <1>1, RangeOfSequence DEF BackupData, Database, Rows, Tables
<1>3. ASSUME NEW t \in Tables PROVE IsFiniteSet(Rows(b)[t])
  <2>1. \E S : b[t] \in Seq(S)
    BY <1>1 DEF BackupData, Tables
  <2> QED
    BY <2>1, RangeOfSequence DEF Rows
<1>4. WritersKeep(Rows(b))
  BY <1>1, RowsAreListed, AcceptedIsKept
<1> QED
  BY <1>1, <1>2, <1>3, <1>4 DEF Whole

\* A backup within the limit of what is read is taken, and restoring it loses
\* nothing and adds nothing: for every library the schema and the writers admit,
\* and after every restore of a file that was edited by somebody else.
THEOREM BackupsAreRestored == BackupSpec => []BackupsRestore
<1> DEFINE Inv == Whole(tables) /\ PendingChecked
<1>1. BackupInit => Inv
  BY BackupAssumption DEF BackupInit, PendingChecked, Whole
<1>2. Inv /\ [BackupNext]_backupVars => Inv'
  <2> SUFFICES ASSUME Whole(tables), PendingChecked, [BackupNext]_backupVars
               PROVE  Whole(tables')
    BY PendingStaysChecked DEF Whole
  <2>1. CASE Change
    BY <2>1, BackupAssumption DEF Change, Whole
  <2>2. CASE Confirm
    <3>1. /\ pending.data \in BackupData /\ Accepted(pending.data) /\ Fits(pending.data)
          /\ tables' = Rows(pending.data)
      BY <2>2 DEF Confirm, PendingChecked, Parsed, BackupV1
    <3> QED
      BY <3>1, RestoredIsWhole
  <2>3. CASE UNCHANGED tables
    BY <2>3
  <2> QED
    BY <2>1, <2>2, <2>3 DEF BackupNext, backupVars, Export, Alter, Select, ConfirmFails
<1>3. Inv => BackupsRestore
  <2> SUFFICES ASSUME Whole(tables) PROVE Size(Exported) <= MaxSize =>
                 Read(Exported) /\ Fits(Exported.data) /\ Rows(Exported.data) = tables
    BY DEF BackupsRestore
  <2>1. Rows(Exported.data) = tables
    <3>1. tables = [t \in Tables |-> tables[t]]
      BY DEF Whole, Database, Tables
    <3> QED
      BY <3>1, ExportLists DEF Rows, Lists
  <2>2. Fits(Exported.data)
    BY <2>1, ExportLists DEF Whole, Fits
  <2>3. Parsed(Exported)
    BY ExportLists, ListAccepted DEF Parsed
  <2> QED
    BY <2>1, <2>2, <2>3 DEF Read
<1> QED
  BY <1>1, <1>2, <1>3, PTL DEF BackupSpec
=============================================================================
