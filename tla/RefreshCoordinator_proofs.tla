---------------------- MODULE RefreshCoordinator_proofs ----------------------
(***************************************************************************)
(* Safety of the automatic refresh for every Library, token set, limit and *)
(* timing: RefreshInv is inductive, and the properties follow from it.     *)
(***************************************************************************)
EXTENDS RefreshCoordinator, FiniteSetTheorems, TLAPS

\* The shape of what `due` and the season filter of `arrived` select: a
\* sequence without repetition, whatever the order asked for.
LEMMA InjectionIsSeq ==
  ASSUME NEW S, NEW m \in Int, NEW q \in Injection(1..m, S)
  PROVE  q \in Seq(S) /\ IsInjective(q) /\ Range(q) \subseteq S
<1>1. q \in [1..m -> S] /\ IsInjective(q)
  BY DEF Injection
<1>2. Range(q) \subseteq S
  BY <1>1 DEF Range
<1>3. q \in Seq(S)
  <2>1. CASE m \in Nat
    BY <1>1, <2>1
  <2>2. CASE m \notin Nat
    <3>1. 1..m = 1..0
      BY <2>2
    <3> QED BY <1>1, <3>1
  <2> QED BY <2>1, <2>2
<1> QED BY <1>1, <1>2, <1>3

LEMMA MinInt ==
  ASSUME NEW a \in Int, NEW b \in Int
  PROVE  Min({a, b}) \in Int
<1>1. \E x \in {a, b} : \A y \in {a, b} : x =< y
  OBVIOUS
<1> QED BY <1>1 DEF Min

\* Joining two selections with nothing in common repeats nothing.
LEMMA JoinOnce ==
  ASSUME NEW S, NEW p \in Seq(S), NEW q \in Seq(S),
         IsInjective(p), IsInjective(q), Range(p) \cap Range(q) = {}
  PROVE  /\ p \o q \in Seq(S) /\ IsInjective(p \o q)
         /\ Range(p \o q) = Range(p) \cup Range(q)
<1> DEFINE r == p \o q
<1>1. /\ r \in Seq(S) /\ Len(r) = Len(p) + Len(q)
      /\ \A i \in 1..Len(r) : r[i] = IF i <= Len(p) THEN p[i] ELSE q[i - Len(p)]
  OBVIOUS
<1>2. DOMAIN r = 1..Len(r) /\ DOMAIN p = 1..Len(p) /\ DOMAIN q = 1..Len(q)
  BY <1>1
<1>3. IsInjective(r)
  <2> SUFFICES ASSUME NEW i \in DOMAIN r, NEW j \in DOMAIN r, r[i] = r[j] PROVE i = j
    BY DEF IsInjective
  <2>1. CASE i <= Len(p) /\ j <= Len(p)
    BY <1>1, <1>2, <2>1 DEF IsInjective
  <2>2. CASE i > Len(p) /\ j > Len(p)
    <3>1. q[i - Len(p)] = q[j - Len(p)] /\ i - Len(p) \in DOMAIN q /\ j - Len(p) \in DOMAIN q
      BY <1>1, <1>2, <2>2
    <3> QED BY <3>1, <1>1, <1>2 DEF IsInjective
  <2>3. CASE i <= Len(p) /\ j > Len(p)
    <3>1. r[i] \in Range(p) /\ r[j] \in Range(q)
      BY <1>1, <1>2, <2>3 DEF Range
    <3> QED BY <3>1
  <2>4. CASE i > Len(p) /\ j <= Len(p)
    <3>1. r[i] \in Range(q) /\ r[j] \in Range(p)
      BY <1>1, <1>2, <2>4 DEF Range
    <3> QED BY <3>1
  <2> QED BY <1>1, <1>2, <2>1, <2>2, <2>3, <2>4
<1>4. Range(r) = Range(p) \cup Range(q)
  <2>1. ASSUME NEW i \in DOMAIN r PROVE r[i] \in Range(p) \cup Range(q)
    BY <1>1, <1>2 DEF Range
  <2>2. ASSUME NEW i \in DOMAIN p PROVE p[i] = r[i] /\ i \in DOMAIN r
    BY <1>1, <1>2
  <2>3. ASSUME NEW i \in DOMAIN q PROVE q[i] = r[i + Len(p)] /\ i + Len(p) \in DOMAIN r
    BY <1>1, <1>2
  <2> HIDE DEF r
  <2> QED BY <2>1, <2>2, <2>3 DEF Range
<1> QED BY <1>1, <1>3, <1>4

-----------------------------------------------------------------------------
LEMMA KindsDiffer == Details \cap Seasons = {}
<1>1. ASSUME NEW k \in Details PROVE k.kind = "detail"
  BY DEF Details, Detail
<1>2. ASSUME NEW k \in Seasons PROVE k.kind = "season"
  BY DEF Seasons, Downloads, Season
<1> QED BY <1>1, <1>2

\* `due` selects no task twice.
LEMMA DueOnce ==
  ASSUME NEW due \in Due
  PROVE  due \in Seq(Task) /\ IsInjective(due) /\ Range(due) \subseteq Task
<1>1. PICK d \in FirstOf(Limit, DueDetails, Older),
           s \in FirstOf(Limit, DueSeasons, Older) : due = d \o s
  BY DEF Due
<1>2. DueDetails \subseteq Details /\ DueSeasons \subseteq Seasons
  BY DEF DueDetails, DueSeasons
<1>3. IsFiniteSet(DueDetails) /\ IsFiniteSet(DueSeasons)
  BY <1>2, FiniteLibrary, FS_Subset DEF Task
<1>4. Cardinality(DueDetails) \in Nat /\ Cardinality(DueSeasons) \in Nat
  BY <1>3, FS_CardinalityType
<1>5. /\ Min({Limit, Cardinality(DueDetails)}) \in Int
      /\ Min({Limit, Cardinality(DueSeasons)}) \in Int
  BY <1>4, MinInt, RefreshAssumption
<1>6. /\ d \in Injection(1..Min({Limit, Cardinality(DueDetails)}), DueDetails)
      /\ s \in Injection(1..Min({Limit, Cardinality(DueSeasons)}), DueSeasons)
  BY <1>1 DEF FirstOf
<1>7. d \in Seq(DueDetails) /\ IsInjective(d) /\ Range(d) \subseteq DueDetails
  BY <1>5, <1>6, InjectionIsSeq
<1>8. s \in Seq(DueSeasons) /\ IsInjective(s) /\ Range(s) \subseteq DueSeasons
  BY <1>5, <1>6, InjectionIsSeq
<1>9. d \in Seq(Task) /\ s \in Seq(Task)
  BY <1>2, <1>7, <1>8 DEF Task
<1>10. Range(d) \cap Range(s) = {}
  BY <1>2, <1>7, <1>8, KindsDiffer
<1> QED BY <1>1, <1>2, <1>7, <1>8, <1>9, <1>10, JoinOnce DEF Task

\* What `arrived` adds to the queue is new to the cycle.
LEMMA MoreOnce ==
  ASSUME NEW S \in SUBSET Task, NEW n \in Int, NEW more \in FirstOf(n, S, ByNumber)
  PROVE  more \in Seq(Task) /\ IsInjective(more) /\ Range(more) \subseteq S
<1>1. IsFiniteSet(S)
  BY FiniteLibrary, FS_Subset
<1>2. Cardinality(S) \in Nat
  BY <1>1, FS_CardinalityType
<1>3. Min({n, Cardinality(S)}) \in Int
  BY <1>2, MinInt
<1>4. more \in Injection(1..Min({n, Cardinality(S)}), S)
  BY DEF FirstOf
<1>5. more \in Seq(S) /\ IsInjective(more) /\ Range(more) \subseteq S
  BY <1>3, <1>4, InjectionIsSeq
<1> QED BY <1>5

\* The one outstanding request is the one that is answered.
LEMMA NoneLeft ==
  ASSUME CoordinatorOK, OneJob, NEW i \in DOMAIN jobs
  PROVE  /\ RemoveAt(jobs, i) = <<>> /\ jobs # <<>> /\ active
         /\ jobs[i] \in Job
<1>1. jobs \in Seq(Job) /\ Len(jobs) \in Nat /\ DOMAIN jobs = 1..Len(jobs)
  BY DEF CoordinatorOK
<1>2. Len(jobs) = 1 /\ i = 1
  BY <1>1 DEF OneJob
<1>3. SubSeq(jobs, 1, 0) = <<>> /\ SubSeq(jobs, 2, 1) = <<>>
  BY <1>1
<1>4. RemoveAt(jobs, i) = <<>>
  BY <1>2, <1>3 DEF RemoveAt
<1>5. jobs[i] \in Job /\ jobs # <<>>
  BY <1>1, <1>2
<1> QED BY <1>4, <1>5 DEF OneJob
-----------------------------------------------------------------------------
\* Taking the head of a queue without repetition.
LEMMA HeadOnce ==
  ASSUME NEW S, NEW q \in Seq(S), q # <<>>, IsInjective(q)
  PROVE  /\ Head(q) \in S /\ Head(q) \in Range(q)
         /\ Tail(q) \in Seq(S) /\ IsInjective(Tail(q))
         /\ Range(Tail(q)) = Range(q) \ {Head(q)}
<1> DEFINE r == Tail(q)
<1>1. /\ Len(q) \in Nat \ {0} /\ DOMAIN q = 1..Len(q)
      /\ Head(q) = q[1] /\ q[1] \in S /\ 1 \in DOMAIN q
  OBVIOUS
<1>2. /\ r \in Seq(S) /\ DOMAIN r = 1..(Len(q) - 1)
      /\ \A i \in 1..(Len(q) - 1) : r[i] = q[i + 1]
  BY <1>1
<1> HIDE DEF r
<1>3. IsInjective(r)
  <2> SUFFICES ASSUME NEW i \in DOMAIN r, NEW j \in DOMAIN r, r[i] = r[j] PROVE i = j
    BY DEF IsInjective
  <2>1. i + 1 \in DOMAIN q /\ j + 1 \in DOMAIN q /\ q[i + 1] = q[j + 1]
    BY <1>1, <1>2
  <2>2. i + 1 = j + 1
    BY <2>1 DEF IsInjective
  <2> QED BY <1>1, <1>2, <2>2
<1>4. Range(r) \subseteq Range(q) \ {Head(q)}
  <2> SUFFICES ASSUME NEW i \in DOMAIN r PROVE r[i] \in Range(q) /\ r[i] # Head(q)
    BY DEF Range
  <2>1. r[i] = q[i + 1] /\ i + 1 \in DOMAIN q /\ i + 1 # 1
    BY <1>1, <1>2
  <2>2. q[i + 1] # q[1]
    BY <1>1, <2>1 DEF IsInjective
  <2> QED BY <1>1, <2>1, <2>2 DEF Range
<1>5. Range(q) \ {Head(q)} \subseteq Range(r)
  <2> SUFFICES ASSUME NEW i \in DOMAIN q, q[i] # q[1] PROVE q[i] \in Range(r)
    BY <1>1 DEF Range
  <2>1. i - 1 \in DOMAIN r /\ r[i - 1] = q[i]
    BY <1>1, <1>2
  <2> QED BY <2>1 DEF Range
<1>6. Head(q) \in Range(q)
  BY <1>1 DEF Range
<1> QED BY <1>1, <1>2, <1>3, <1>4, <1>5, <1>6 DEF r

\* What the coordinator's own variables keep to between two handlers.
Work == CoordinatorOK /\ OneJob /\ QueueOnce /\ AskedOnce

LEMMA ArmType ==
  ASSUME NEW ts \in [0..Cycle -> Nat], NEW delay \in 0..Cycle
  PROVE  /\ Arm(ts, delay) \in [0..Cycle -> Nat]
         /\ Arm(ts, delay)[delay] > 0
         /\ \A d \in 0..Cycle : ts[d] > 0 => Arm(ts, delay)[d] > 0
BY DEF Arm

\* `next`, called with nothing outstanding, leaves one request or none.
LEMMA SendKeeps ==
  ASSUME NEW q \in Seq(Task), IsInjective(q),
         NEW counts \in [Task -> Nat], NEW armed \in [0..Cycle -> Nat],
         seen' \subseteq Task, Range(q) \subseteq seen',
         \A k \in Task : counts[k] <= 1 /\ (counts[k] = 1 => k \in seen' \ Range(q)),
         token' \in Tokens \cup {NoToken},
         invalid' \in BOOLEAN, pause' \in 0..Cycle,
         SendNext(q, counts, <<>>, armed)
  PROVE  Work' /\ \A d \in 0..Cycle : armed[d] > 0 => timers'[d] > 0
<1>1. CASE q = <<>>
  <2>1. /\ queue' = <<>> /\ active' = FALSE /\ inFlight' = FALSE
        /\ jobs' = <<>> /\ asked' = counts /\ timers' = Arm(armed, Cycle)
    BY <1>1 DEF SendNext
  <2>2. Cycle \in 0..Cycle
    BY RefreshAssumption
  <2>3. timers' \in [0..Cycle -> Nat] /\ \A d \in 0..Cycle : armed[d] > 0 => timers'[d] > 0
    BY <2>1, <2>2, ArmType
  <2>4. Range(queue') = {} /\ IsInjective(queue')
    BY <2>1 DEF Range, IsInjective
  <2>5. CoordinatorOK'
    <3>1. queue' \in Seq(Task) /\ jobs' \in Seq(Job) /\ asked' \in [Task -> Nat]
      BY <2>1
    <3>2. active' \in BOOLEAN /\ inFlight' \in BOOLEAN
      BY <2>1
    <3> QED BY <2>3, <3>1, <3>2 DEF CoordinatorOK
  <2>6. OneJob'
    <3>1. Len(jobs') <= 1
      BY <2>1
    <3> QED BY <2>1, <3>1 DEF OneJob
  <2>7. QueueOnce'
    BY <2>1, <2>4 DEF QueueOnce
  <2>8. AskedOnce'
    BY <1>1, <2>1, <2>4 DEF AskedOnce, Range
  <2> QED BY <2>3, <2>5, <2>6, <2>7, <2>8 DEF Work
<1>2. CASE q # <<>> /\ token' # NoToken
  <2>1. /\ queue' = Tail(q) /\ active' = TRUE /\ inFlight' = TRUE
        /\ jobs' = Append(<<>>, [task |-> Head(q), token |-> token'])
        /\ asked' = [counts EXCEPT ![Head(q)] = @ + 1] /\ timers' = armed
    BY <1>2 DEF SendNext
  <2>2. /\ Head(q) \in Task /\ Head(q) \in Range(q)
        /\ queue' \in Seq(Task) /\ IsInjective(queue') /\ Range(queue') = Range(q) \ {Head(q)}
    BY <1>2, <2>1, HeadOnce
  <2>3. jobs' \in Seq(Job) /\ Len(jobs') = 1 /\ jobs' # <<>>
    BY <1>2, <2>1, <2>2 DEF Job
  <2>4. asked' \in [Task -> Nat]
    BY <2>1, <2>2
  <2>5. ASSUME NEW k \in Task
        PROVE  asked'[k] <= 1 /\ (asked'[k] = 1 => k \in seen' \ Range(queue'))
    <3>1. CASE k = Head(q)
      <4>1. counts[k] = 0
        BY <2>2, <3>1
      <4> QED BY <2>1, <2>2, <3>1, <4>1
    <3>2. CASE k # Head(q)
      BY <2>1, <2>2, <3>2
    <3> QED BY <3>1, <3>2
  <2>6. CoordinatorOK'
    BY <2>1, <2>2, <2>3, <2>4 DEF CoordinatorOK
  <2> QED BY <2>1, <2>2, <2>3, <2>5, <2>6 DEF Work, OneJob, QueueOnce, AskedOnce
<1>3. CASE q # <<>> /\ token' = NoToken
  <2>1. /\ queue' = <<>> /\ active' = FALSE /\ inFlight' = FALSE
        /\ jobs' = <<>> /\ asked' = counts /\ timers' = armed
    BY <1>3 DEF SendNext
  <2>2. Range(queue') = {} /\ IsInjective(queue')
    BY <2>1 DEF Range, IsInjective
  <2>3. CoordinatorOK'
    <3>1. queue' \in Seq(Task) /\ jobs' \in Seq(Job)
      BY <2>1
    <3>2. active' \in BOOLEAN /\ inFlight' \in BOOLEAN
      BY <2>1
    <3> QED BY <2>1, <3>1, <3>2 DEF CoordinatorOK
  <2>4. OneJob'
    <3>1. Len(jobs') <= 1
      BY <2>1
    <3> QED BY <2>1, <3>1 DEF OneJob
  <2>5. QueueOnce' /\ AskedOnce'
    BY <2>1, <2>2 DEF QueueOnce, AskedOnce
  <2> QED BY <2>1, <2>3, <2>4, <2>5 DEF Work
<1> QED BY <1>1, <1>2, <1>3

\* `begin`, from a timer, the switch or a token: it starts a cycle only when
\* nothing is outstanding and nothing pauses.
LEMMA BeginKeeps ==
  ASSUME Work, NEW armed \in [0..Cycle -> Nat],
         token' \in Tokens \cup {NoToken},
         invalid' \in BOOLEAN, pause' \in 0..Cycle,
         pause' > 0 \/ invalid' => ~active,
         pause' > 0 => armed[pause'] > 0,
         Begin(armed)
  PROVE  Work' /\ PauseInv'
<1>1. CASE /\ timers' = armed
           /\ UNCHANGED <<queue, seen, active, inFlight, jobs, asked>>
  <2>1. CoordinatorOK'
    BY <1>1 DEF Work, CoordinatorOK
  <2>2. OneJob' /\ QueueOnce' /\ AskedOnce'
    BY <1>1 DEF Work, OneJob, QueueOnce, AskedOnce
  <2> QED BY <1>1, <2>1, <2>2 DEF Work, PauseInv
<1>2. CASE /\ ~Blocked
           /\ \E due \in Due : seen' = Range(due) /\ SendNext(due, NothingAsked, jobs, armed)
  <2>1. ~active /\ ~invalid' /\ pause' = 0
    BY <1>2 DEF Blocked
  <2>2. jobs = <<>>
    BY <2>1 DEF Work, OneJob
  <2>3. PICK due \in Due : seen' = Range(due) /\ SendNext(due, NothingAsked, <<>>, armed)
    BY <1>2, <2>2
  <2>4. due \in Seq(Task) /\ IsInjective(due) /\ Range(due) \subseteq Task
    BY DueOnce
  <2>5. NothingAsked \in [Task -> Nat] /\ \A k \in Task : NothingAsked[k] = 0
    BY DEF NothingAsked
  <2>6. Work'
    BY <2>3, <2>4, <2>5, SendKeeps
  <2> QED BY <2>1, <2>6 DEF PauseInv
<1> QED BY <1>1, <1>2 DEF Begin
-----------------------------------------------------------------------------
LEMMA NeverType == Never \in Nat /\ FreshFor \in 0..Never /\ 0 \in 0..Never /\ Never \in 0..Never
BY RefreshAssumption DEF Never

LEMMA SaveDetailsType ==
  ASSUME StoreOK, NEW t \in Titles, member' = member,
         NEW dropped \in SUBSET Downloads(t),
         NEW changed \in SUBSET (Downloads(t) \ dropped),
         NEW short \in SUBSET changed,
         SaveDetails(t, dropped, changed, short)
  PROVE  StoreOK'
<1>1. Downloads(t) \subseteq Seasons /\ Detail(t) \in Task
  BY DEF Seasons, Details, Task
<1>2. age' \in [Task -> 0..Never]
  BY NeverType DEF SaveDetails, StoreOK
<1>3. older' \subseteq Task \X Task
  BY <1>1 DEF SaveDetails, StoreOK, Latest
<1>4. partial' \subseteq Seasons
  BY <1>1 DEF SaveDetails, StoreOK
<1> QED BY <1>2, <1>3, <1>4 DEF StoreOK

LEMMA SaveSeasonType ==
  ASSUME StoreOK, NEW k \in Seasons, NEW short \in BOOLEAN, member' = member,
         SaveSeason(k, short)
  PROVE  StoreOK'
<1>1. k \in Task
  BY DEF Task
<1>2. age' \in [Task -> 0..Never]
  BY NeverType DEF SaveSeason, StoreOK
<1>3. older' \subseteq Task \X Task
  BY <1>1 DEF SaveSeason, StoreOK, Latest
<1>4. partial' \subseteq Seasons
  BY DEF SaveSeason, StoreOK
<1> QED BY <1>2, <1>3, <1>4 DEF StoreOK

LEMMA DetailOfTitle ==
  ASSUME NEW k \in Details
  PROVE  k.title \in Titles
BY DEF Details, Detail

\* Nothing but the pauses and the timers may change without a request.
LEMMA SameWork ==
  ASSUME Work, UNCHANGED <<queue, seen, active, inFlight, jobs, asked>>,
         invalid' \in BOOLEAN, pause' \in 0..Cycle, timers' \in [0..Cycle -> Nat]
  PROVE  Work'
<1>1. CoordinatorOK'
  BY DEF Work, CoordinatorOK
<1> QED BY <1>1 DEF Work, OneJob, QueueOnce, AskedOnce

\* Ending a cycle with its request answered.
LEMMA EndKeeps ==
  ASSUME Work, queue' = <<>>, active' = FALSE, inFlight' = FALSE, jobs' = <<>>,
         UNCHANGED <<seen, asked>>,
         invalid' \in BOOLEAN, pause' \in 0..Cycle, timers' \in [0..Cycle -> Nat]
  PROVE  Work'
<1>1. queue' \in Seq(Task) /\ jobs' \in Seq(Job)
  OBVIOUS
<1>2. active' \in BOOLEAN /\ inFlight' \in BOOLEAN
  OBVIOUS
<1>3. CoordinatorOK'
  BY <1>1, <1>2 DEF Work, CoordinatorOK
<1>4. Range(queue') = {} /\ IsInjective(queue')
  BY DEF Range, IsInjective
<1>5. Len(jobs') <= 1
  OBVIOUS
<1>6. OneJob'
  BY <1>5 DEF OneJob
<1>7. QueueOnce' /\ AskedOnce'
  BY <1>4 DEF Work, QueueOnce, AskedOnce
<1> QED BY <1>3, <1>6, <1>7 DEF Work

\* Going on with the cycle after an answer.
LEMMA GoesOn ==
  ASSUME Work, PauseInv, CredentialOK, NEW i \in DOMAIN jobs,
         UNCHANGED <<enabled, credential, invalid, pause>>,
         NEW more \in Seq(Task), IsInjective(more), Range(more) \cap seen = {},
         seen' = seen \cup Range(more),
         SendNext(queue \o more, asked, RemoveAt(jobs, i), timers)
  PROVE  Work' /\ PauseInv'
<1>1. RemoveAt(jobs, i) = <<>> /\ active
  BY NoneLeft DEF Work
<1>2. pause = 0 /\ ~invalid /\ pause' = 0 /\ ~invalid'
  BY <1>1 DEF PauseInv, Work, CoordinatorOK
<1>3. /\ queue \o more \in Seq(Task) /\ IsInjective(queue \o more)
      /\ Range(queue \o more) = Range(queue) \cup Range(more)
  <2>1. Range(queue) \cap Range(more) = {} /\ queue \in Seq(Task) /\ IsInjective(queue)
    BY DEF Work, QueueOnce, CoordinatorOK
  <2> QED BY <2>1, JoinOnce
<1>4. Range(more) \subseteq Task
  BY DEF Range
<1>5. seen' \subseteq Task /\ Range(queue \o more) \subseteq seen'
  BY <1>3, <1>4 DEF Work, QueueOnce, CoordinatorOK
<1>6. \A k \in Task : /\ asked[k] <= 1
                      /\ asked[k] = 1 => k \in seen' \ Range(queue \o more)
  BY <1>3 DEF Work, AskedOnce
<1>7. /\ token' \in Tokens \cup {NoToken} /\ invalid' \in BOOLEAN /\ pause' \in 0..Cycle
      /\ asked \in [Task -> Nat] /\ timers \in [0..Cycle -> Nat]
  BY DEF CredentialOK, credential, Work, CoordinatorOK
<1>8. Work'
  <2> DEFINE q == queue \o more
  <2>1. SendNext(q, asked, <<>>, timers)
    BY <1>1
  <2>2. /\ q \in Seq(Task) /\ IsInjective(q) /\ Range(q) \subseteq seen' /\ seen' \subseteq Task
        /\ \A k \in Task : asked[k] <= 1 /\ (asked[k] = 1 => k \in seen' \ Range(q))
    BY <1>3, <1>5, <1>6
  <2> HIDE DEF q
  <2> QED BY <1>7, <2>1, <2>2, SendKeeps
<1> QED BY <1>2, <1>8 DEF PauseInv
-----------------------------------------------------------------------------
LEMMA InvParts == RefreshInv <=> StoreOK /\ CredentialOK /\ Work /\ PauseInv
BY DEF RefreshInv, TypeOK, Work

LEMMA InitInv == Init => RefreshInv
<1> SUFFICES ASSUME Init PROVE RefreshInv
  OBVIOUS
<1>1. StoreOK
  BY NeverType DEF Init, StoreOK
<1>2. CredentialOK
  BY DEF Init, CredentialOK
<1>3. timers \in [0..Cycle -> Nat] /\ pause \in 0..Cycle
  BY RefreshAssumption DEF Init
<1>4. queue \in Seq(Task) /\ jobs \in Seq(Job) /\ asked \in [Task -> Nat]
  BY DEF Init, NothingAsked
<1>5. active \in BOOLEAN /\ inFlight \in BOOLEAN /\ invalid \in BOOLEAN
  BY DEF Init
<1>6. CoordinatorOK
  BY <1>3, <1>4, <1>5 DEF Init, CoordinatorOK
<1>7. Len(jobs) <= 1
  BY DEF Init
<1>8. OneJob
  BY <1>7 DEF Init, OneJob
<1>9. Range(queue) = {} /\ IsInjective(queue)
  BY DEF Init, Range, IsInjective
<1>10. QueueOnce
  BY <1>9 DEF Init, QueueOnce
<1>11. AskedOnce
  BY DEF Init, AskedOnce, NothingAsked
<1>12. PauseInv
  BY DEF Init, PauseInv
<1> QED BY <1>1, <1>2, <1>6, <1>8, <1>10, <1>11, <1>12 DEF RefreshInv, TypeOK

LEMMA ArrivedInv ==
  ASSUME RefreshInv, NEW i \in DOMAIN jobs, Arrived(i)
  PROVE  RefreshInv'
<1> USE InvParts
<1>1. RemoveAt(jobs, i) = <<>> /\ active /\ jobs[i] \in Job
  BY NoneLeft DEF Work
<1>2. pause = 0 /\ ~invalid
  BY <1>1 DEF PauseInv, Work, CoordinatorOK
<1>3. /\ invalid \in BOOLEAN /\ pause \in 0..Cycle /\ timers \in [0..Cycle -> Nat]
  BY DEF Work, CoordinatorOK
<1>4. CASE AnswerSkipped(i)
  <2>1. Work'
    BY <1>1, <1>3, <1>4, EndKeeps DEF AnswerSkipped
  <2>2. StoreOK' /\ CredentialOK' /\ PauseInv'
    BY <1>2, <1>4 DEF AnswerSkipped, StoreOK, CredentialOK, PauseInv, store, credential
  <2> QED BY <2>1, <2>2 DEF RefreshInv, TypeOK, Work
<1>5. CASE AnswerFailed(i)
  <2>1. PICK error \in Refusals(jobs[i].task, jobs[i].token) :
          LET delay == IF error = "limited" THEN RatePause ELSE Pause IN
          invalid' = (error = "unauthorized") /\ pause' = delay /\ timers' = Arm(timers, delay)
    BY <1>5 DEF AnswerFailed
  <2>2. /\ pause' \in 0..Cycle /\ timers' = Arm(timers, pause')
        /\ invalid' \in BOOLEAN
    BY <2>1, RefreshAssumption
  <2>3. timers' \in [0..Cycle -> Nat] /\ timers'[pause'] > 0
    BY <1>3, <2>2, ArmType
  <2>4. Work'
    BY <1>1, <1>5, <2>2, <2>3, EndKeeps DEF AnswerFailed
  <2>5. StoreOK' /\ CredentialOK'
    BY <1>5 DEF AnswerFailed, StoreOK, CredentialOK, store, credential
  <2>6. PauseInv'
    BY <1>5, <2>3 DEF AnswerFailed, PauseInv
  <2> QED BY <2>4, <2>5, <2>6 DEF RefreshInv, TypeOK, Work
<1>6. CASE DetailsArrived(i)
  <2> DEFINE k == jobs[i].task
  <2>1. PICK dropped \in SUBSET Downloads(k.title) :
        \E changed \in SUBSET (Downloads(k.title) \ dropped) :
        \E short \in SUBSET changed :
          /\ SaveDetails(k.title, dropped, changed, short)
          /\ UNCHANGED <<member, enabled, credential, invalid, pause>>
          /\ \E more \in FirstOf(3 * Limit - Len(queue), NotSeen(changed), ByNumber) :
               /\ seen' = seen \cup Range(more)
               /\ SendNext(queue \o more, asked, RemoveAt(jobs, i), timers)
    BY <1>6 DEF DetailsArrived
  <2>2. PICK changed \in SUBSET (Downloads(k.title) \ dropped) :
        \E short \in SUBSET changed :
          /\ SaveDetails(k.title, dropped, changed, short)
          /\ UNCHANGED <<member, enabled, credential, invalid, pause>>
          /\ \E more \in FirstOf(3 * Limit - Len(queue), NotSeen(changed), ByNumber) :
               /\ seen' = seen \cup Range(more)
               /\ SendNext(queue \o more, asked, RemoveAt(jobs, i), timers)
    BY <2>1
  <2>3. PICK short \in SUBSET changed :
          /\ SaveDetails(k.title, dropped, changed, short)
          /\ UNCHANGED <<member, enabled, credential, invalid, pause>>
          /\ \E more \in FirstOf(3 * Limit - Len(queue), NotSeen(changed), ByNumber) :
               /\ seen' = seen \cup Range(more)
               /\ SendNext(queue \o more, asked, RemoveAt(jobs, i), timers)
    BY <2>2
  <2>4. PICK more \in FirstOf(3 * Limit - Len(queue), NotSeen(changed), ByNumber) :
          /\ seen' = seen \cup Range(more)
          /\ SendNext(queue \o more, asked, RemoveAt(jobs, i), timers)
    BY <2>3
  <2>5. k \in Details /\ k.title \in Titles
    BY <1>6, DetailOfTitle DEF DetailsArrived
  <2>6. StoreOK'
    BY <2>3, <2>5, SaveDetailsType
  <2>7. CredentialOK'
    BY <2>3 DEF CredentialOK, credential
  <2>8. NotSeen(changed) \in SUBSET Task /\ NotSeen(changed) \cap seen = {}
    BY <2>5 DEF NotSeen, Task, Seasons
  <2>9. 3 * Limit - Len(queue) \in Int
    BY RefreshAssumption DEF Work, CoordinatorOK
  <2>10. more \in Seq(Task) /\ IsInjective(more) /\ Range(more) \cap seen = {}
    <3>1. Range(more) \subseteq NotSeen(changed) /\ more \in Seq(Task) /\ IsInjective(more)
      BY <2>8, <2>9, MoreOnce
    <3> QED BY <2>8, <3>1
  <2>11. Work' /\ PauseInv'
    BY <2>3, <2>4, <2>10, GoesOn
  <2> QED BY <2>6, <2>7, <2>11 DEF RefreshInv, TypeOK, Work
<1>7. ASSUME UNCHANGED <<enabled, credential, seen, invalid, pause>>,
             SendNext(queue, asked, RemoveAt(jobs, i), timers)
      PROVE  Work' /\ PauseInv'
  <2>1. <<>> \in Seq(Task) /\ IsInjective(<<>>) /\ Range(<<>>) = {}
    BY DEF IsInjective, Range
  <2>2. queue \o <<>> = queue
    BY DEF Work, CoordinatorOK
  <2>3. /\ SendNext(queue \o <<>>, asked, RemoveAt(jobs, i), timers)
        /\ seen' = seen \cup Range(<<>>)
    BY <1>7, <2>1, <2>2
  <2> QED BY <1>7, <2>1, <2>3, GoesOn
<1>8. CASE EpisodesArrived(i)
  <2>1. StoreOK'
    BY <1>8, SaveSeasonType DEF EpisodesArrived
  <2>2. CredentialOK'
    BY <1>8 DEF EpisodesArrived, CredentialOK, credential
  <2>3. Work' /\ PauseInv'
    BY <1>7, <1>8 DEF EpisodesArrived
  <2> QED BY <2>1, <2>2, <2>3 DEF RefreshInv, TypeOK, Work
<1>9. CASE SaveFailed(i)
  <2>1. StoreOK' /\ CredentialOK'
    BY <1>9 DEF SaveFailed, StoreOK, CredentialOK, store, credential
  <2>2. Work' /\ PauseInv'
    BY <1>7, <1>9 DEF SaveFailed
  <2> QED BY <2>1, <2>2 DEF RefreshInv, TypeOK, Work
<1> QED BY <1>4, <1>5, <1>6, <1>8, <1>9 DEF Arrived
LEMMA SetTokenInv ==
  ASSUME RefreshInv, NEW t \in Tokens \cup {NoToken}, SetToken(t)
  PROVE  Work' /\ PauseInv'
<1> USE InvParts
<1>1. /\ invalid \in BOOLEAN /\ pause \in 0..Cycle /\ timers \in [0..Cycle -> Nat]
  BY DEF Work, CoordinatorOK
<1>2. token' \in Tokens \cup {NoToken}
  BY DEF SetToken
<1>3. CASE (token = NoToken) # (t = NoToken)
  <2>1. invalid' = FALSE /\ pause' = 0 /\ Begin(timers)
    BY <1>3 DEF SetToken
  <2>2. invalid' \in BOOLEAN /\ pause' \in 0..Cycle
    <3>1. 0 \in 0..Cycle
      BY RefreshAssumption
    <3> QED BY <2>1, <3>1
  <2>3. ~(pause' > 0) /\ ~invalid'
    BY <2>1
  <2> QED BY <1>1, <1>2, <2>1, <2>2, <2>3, BeginKeeps
<1>4. CASE ~((token = NoToken) # (t = NoToken))
  <2>1. UNCHANGED <<queue, seen, active, inFlight, invalid, pause, jobs, timers, asked>>
    BY <1>4 DEF SetToken, coordinator
  <2> QED BY <1>1, <2>1, SameWork DEF PauseInv
<1> QED BY <1>3, <1>4

\* The steps that leave the coordinator alone.
LEMMA IdleInv ==
  ASSUME RefreshInv, UNCHANGED coordinator, StoreOK', CredentialOK'
  PROVE  RefreshInv'
<1>1. /\ invalid \in BOOLEAN /\ pause \in 0..Cycle /\ timers \in [0..Cycle -> Nat] /\ Work
  BY InvParts DEF Work, CoordinatorOK
<1>2. Work'
  BY <1>1, SameWork DEF coordinator
<1>3. PauseInv'
  BY InvParts DEF PauseInv, coordinator
<1> QED BY <1>2, <1>3 DEF RefreshInv, TypeOK, Work

LEMMA TickInv == RefreshInv /\ Tick => RefreshInv'
<1> SUFFICES ASSUME RefreshInv, Tick PROVE RefreshInv'
  OBVIOUS
<1> USE InvParts
<1>1. StoreOK'
  <2>1. ASSUME NEW a \in 0..Never PROVE Aged(a) \in 0..Never
    BY RefreshAssumption DEF Aged, Never
  <2>2. age' \in [Task -> 0..Never]
    BY <2>1 DEF Tick, StoreOK
  <2> QED BY <2>2 DEF Tick, StoreOK
<1>2. CredentialOK'
  BY DEF Tick, CredentialOK, credential
<1>3. /\ invalid \in BOOLEAN /\ pause \in 0..Cycle /\ timers \in [0..Cycle -> Nat]
      /\ Cycle \in Nat \ {0}
  BY RefreshAssumption DEF Work, CoordinatorOK
<1>4. pause' \in 0..Cycle
  BY <1>3 DEF Tick
<1>5. timers' \in [0..Cycle -> Nat]
  BY <1>3 DEF Tick
<1>6. Work'
  BY <1>3, <1>4, <1>5, SameWork DEF Tick
<1>7. PauseInv'
  <2>1. CASE pause' > 0
    <3>1. pause' = pause - 1 /\ pause' \in 0..Cycle /\ pause' < Cycle /\ pause' + 1 = pause
      BY <1>3, <2>1 DEF Tick
    <3>2. timers'[pause'] = timers[pause]
      BY <3>1 DEF Tick
    <3> QED BY <1>3, <3>1, <3>2 DEF PauseInv, Tick
  <2>2. CASE ~(pause' > 0)
    BY <2>2 DEF PauseInv, Tick
  <2> QED BY <2>1, <2>2
<1> QED BY <1>1, <1>2, <1>6, <1>7 DEF RefreshInv, TypeOK, Work

LEMMA NextInv == RefreshInv /\ [Next]_vars => RefreshInv'
<1> SUFFICES ASSUME RefreshInv, [Next]_vars PROVE RefreshInv'
  OBVIOUS
<1> USE InvParts
<1>1. /\ invalid \in BOOLEAN /\ pause \in 0..Cycle /\ timers \in [0..Cycle -> Nat]
      /\ token \in Tokens \cup {NoToken}
  BY DEF Work, CoordinatorOK, CredentialOK
<1>2. CASE TimerFires
  <2> DEFINE armed == [timers EXCEPT ![0] = @ - 1]
  <2>1. Begin(armed) /\ UNCHANGED <<store, enabled, credential, invalid, pause>> /\ timers[0] > 0
    BY <1>2 DEF TimerFires
  <2>2. armed \in [0..Cycle -> Nat]
    <3>1. 0 \in 0..Cycle
      BY RefreshAssumption
    <3>2. timers[0] - 1 \in Nat
      BY <1>1, <2>1, <3>1
    <3> QED BY <1>1, <3>2
  <2>3. pause > 0 => armed[pause] = timers[pause]
    BY <1>1
  <2>4. StoreOK' /\ CredentialOK'
    BY <2>1 DEF StoreOK, CredentialOK, store, credential
  <2>5. /\ token' \in Tokens \cup {NoToken} /\ invalid' \in BOOLEAN /\ pause' \in 0..Cycle
        /\ pause' > 0 \/ invalid' => ~active
        /\ pause' > 0 => armed[pause'] > 0
    BY <1>1, <2>1, <2>3 DEF PauseInv, credential
  <2> HIDE DEF armed
  <2>6. Work' /\ PauseInv'
    BY <2>1, <2>2, <2>5, BeginKeeps
  <2> QED BY <2>4, <2>6 DEF RefreshInv, TypeOK, Work
<1>3. CASE \E i \in DOMAIN jobs : Arrived(i)
  BY <1>3, ArrivedInv
<1>4. CASE Toggle
  <2>1. StoreOK' /\ CredentialOK' /\ UNCHANGED <<invalid, pause, token>>
    BY <1>4 DEF Toggle, StoreOK, CredentialOK, store, credential
  <2>2. CASE enabled'
    <3>1. Begin(timers)
      BY <1>4, <2>2 DEF Toggle
    <3>2. Work' /\ PauseInv'
      BY <1>1, <2>1, <3>1, BeginKeeps DEF PauseInv
    <3> QED BY <2>1, <3>2 DEF RefreshInv, TypeOK, Work
  <2>3. CASE ~enabled'
    <3>1. UNCHANGED <<queue, seen, active, inFlight, jobs, timers, asked>>
      BY <1>4, <2>3 DEF Toggle
    <3> QED BY <2>1, <3>1, IdleInv DEF coordinator
  <2> QED BY <2>2, <2>3
<1>5. CASE \E t \in Tokens \cup {NoToken} : TokenLoaded(t)
  <2>1. PICK t \in Tokens \cup {NoToken} : TokenLoaded(t)
    BY <1>5
  <2>2. StoreOK' /\ CredentialOK' /\ SetToken(t)
    BY <2>1 DEF TokenLoaded, SetToken, StoreOK, CredentialOK, store
  <2> QED BY <2>2, SetTokenInv DEF RefreshInv, TypeOK, Work
<1>6. CASE \E t \in Tokens : TokenSaved(t)
  <2>1. PICK t \in Tokens : TokenSaved(t)
    BY <1>6
  <2>2. StoreOK' /\ CredentialOK' /\ SetToken(t)
    BY <2>1 DEF TokenSaved, SetToken, StoreOK, CredentialOK, store
  <2> QED BY <2>2, SetTokenInv DEF RefreshInv, TypeOK, Work
<1>7. CASE TokenRemoved
  <2>1. StoreOK' /\ CredentialOK' /\ SetToken(NoToken)
    BY <1>7 DEF TokenRemoved, SetToken, StoreOK, CredentialOK, store
  <2> QED BY <2>1, SetTokenInv DEF RefreshInv, TypeOK, Work
<1>8. CASE \E t \in Tokens : Revoke(t)
  BY <1>8, IdleInv DEF Revoke, StoreOK, CredentialOK, store
<1>9. CASE \E t \in Titles : RemoveTitle(t) \/ AddTitle(t)
  BY <1>9, IdleInv DEF RemoveTitle, AddTitle, StoreOK, CredentialOK, credential
<1>13. CASE \E k \in Gone : Vanish(k)
  BY <1>13, IdleInv DEF Vanish, StoreOK, CredentialOK, store
<1>10. CASE \E k \in Task : FetchedByHand(k)
  <2>1. PICK k \in Task : FetchedByHand(k)
    BY <1>10
  <2>2. UNCHANGED <<member, enabled, credential, coordinator>>
    BY <2>1 DEF FetchedByHand
  <2>3. StoreOK'
    <3>1. CASE k \in Details
      BY <2>1, <2>2, <3>1, DetailOfTitle, SaveDetailsType DEF FetchedByHand
    <3>2. CASE k \notin Details
      BY <2>1, <2>2, <3>2, SaveSeasonType DEF FetchedByHand, Task
    <3> QED BY <3>1, <3>2
  <2>4. CredentialOK'
    BY <2>2 DEF CredentialOK, credential
  <2> QED BY <2>2, <2>3, <2>4, IdleInv
<1>11. CASE Tick
  BY <1>11, TickInv
<1>12. CASE UNCHANGED vars
  BY <1>12, IdleInv DEF vars, StoreOK, CredentialOK, store, credential
<1> QED BY <1>2, <1>3, <1>4, <1>5, <1>6, <1>7, <1>8, <1>9, <1>10, <1>11, <1>12, <1>13 DEF Next
-----------------------------------------------------------------------------
\* Between any two handlers the flags, the queue, the pool and the timers agree.
THEOREM Inductive == Spec => []RefreshInv
BY InitInv, NextInv, PTL DEF Spec

\* Every variable keeps its type; among that, no request goes out without a
\* token (`next`) and no pause outlasts a cycle (`remote_failure`).
THEOREM TypeCorrect == Spec => []TypeOK
<1>1. RefreshInv => TypeOK
  BY DEF RefreshInv
<1> QED BY <1>1, Inductive, PTL

\* One maintenance request at a time, however often the switch, the token and
\* the timers begin (`begin`, `next`).
THEOREM OneAtATime == Spec => []OneAutomaticRequest
<1>1. RefreshInv => OneAutomaticRequest
  BY DEF RefreshInv, OneJob, OneAutomaticRequest
<1> QED BY <1>1, Inductive, PTL

\* No cycle asks for a title or season twice, although answers extend the
\* queue while it is drained (`arrived`).
THEOREM NeverAskedTwice == Spec => []AskedOncePerCycle
<1>1. RefreshInv => AskedOncePerCycle
  BY DEF RefreshInv, AskedOnce, AskedOncePerCycle
<1> QED BY <1>1, Inductive, PTL

\* Neither the switch nor an old timer gets around a pause (`begin`), and a pause
\* always has a timer left that ends it (`remote_failure`, `later`).
THEOREM Quiet == Spec => []QuietWhilePaused
<1>1. RefreshInv => QuietWhilePaused
  BY DEF RefreshInv, PauseInv, OneJob, QueueOnce, QuietWhilePaused
<1> QED BY <1>1, Inductive, PTL
-----------------------------------------------------------------------------
\* Sending the next request, or ending the cycle, leaves a cycle or a timer.
LEMMA SendGoesOn ==
  ASSUME NEW q, NEW counts, NEW left, NEW armed \in [0..Cycle -> Nat],
         SendNext(q, counts, left, armed)
  PROVE  ChecksGoOn'
<1>1. CASE timers' = Arm(armed, Cycle)
  <2>1. Cycle \in 0..Cycle
    BY RefreshAssumption
  <2>2. timers'[Cycle] > 0
    BY <1>1, <2>1, ArmType
  <2> QED BY <2>1, <2>2 DEF ChecksGoOn, Pending
<1> QED BY <1>1 DEF SendNext, ChecksGoOn

\* A step that begins a cycle, or may not, leaves a cycle or a timer behind.
LEMMA BeginGoesOn ==
  ASSUME NEW armed \in [0..Cycle -> Nat], "database" \notin Faults, Begin(armed),
         pause' \in 0..Cycle, inFlight => active, pause' > 0 => armed[pause'] > 0
  PROVE  ChecksGoOn'
<1>1. CASE timers' = armed /\ active' = active /\ Blocked
  <2>1. active \/ invalid' \/ pause' > 0 \/ token' = NoToken \/ ~enabled'
    BY <1>1 DEF Blocked
  <2>2. pause' > 0 => \E d \in 0..Cycle : timers'[d] > 0
    BY <1>1
  <2> QED BY <1>1, <2>1, <2>2 DEF ChecksGoOn, Pending
<1>2. ASSUME NEW due, SendNext(due, NothingAsked, jobs, armed) PROVE ChecksGoOn'
  BY <1>2, SendGoesOn
<1> QED BY <1>1, <1>2 DEF Begin

LEMMA TitleOfTask == ASSUME NEW k \in Task PROVE k.title \in Titles
BY DEF Task, Details, Detail, Seasons, Downloads, Season

\* Nothing but an unwanted answer cuts the chain: the work that is under way,
\* or a timer, always leads to a next check.
LEMMA ChecksStep ==
  ASSUME "database" \notin Faults, "library" \notin Environment,
         RefreshInv, member = Titles, ChecksGoOn, [Next]_vars
  PROVE  ChecksGoOn' /\ member' = Titles
<1>1. /\ invalid \in BOOLEAN /\ pause \in 0..Cycle /\ timers \in [0..Cycle -> Nat]
      /\ 0 \in 0..Cycle /\ Cycle \in 0..Cycle /\ Cycle \in Nat \ {0}
  BY RefreshAssumption DEF RefreshInv, TypeOK, CoordinatorOK, OneJob
<1>2. (pause > 0 => timers[pause] > 0) /\ (inFlight => active)
  BY DEF RefreshInv, PauseInv, OneJob
<1>3. CASE TimerFires
  <2> DEFINE armed == [timers EXCEPT ![0] = @ - 1]
  <2>1. /\ Begin(armed) /\ UNCHANGED <<store, enabled, credential, invalid, pause>>
        /\ timers[0] > 0
    BY <1>3 DEF TimerFires
  <2>2. armed \in [0..Cycle -> Nat]
    <3>1. timers[0] - 1 \in Nat
      BY <1>1, <2>1
    <3> QED BY <1>1, <3>1
  <2>3. pause' > 0 => armed[pause'] > 0
    BY <1>1, <1>2, <2>1
  <2>4. pause' \in 0..Cycle
    BY <1>1, <2>1
  <2> HIDE DEF armed
  <2>5. ChecksGoOn'
    BY <1>2, <2>1, <2>2, <2>3, <2>4, BeginGoesOn
  <2> QED BY <2>1, <2>5 DEF store
<1>4. CASE \E i \in DOMAIN jobs : Arrived(i)
  <2>1. PICK i \in DOMAIN jobs : Arrived(i)
    BY <1>4
  <2>2. jobs[i].task.title \in Titles
    <3>1. jobs[i] \in Job
      BY NoneLeft DEF RefreshInv, TypeOK
    <3> QED BY <3>1, TitleOfTask DEF Job
  <2>3. CASE AnswerSkipped(i)
    BY <2>2, <2>3 DEF AnswerSkipped, Wanted, ChecksGoOn, store, credential
  <2>4. CASE AnswerFailed(i)
    <3>1. PICK delay \in {RatePause, Pause} : timers' = Arm(timers, delay)
      BY <2>4 DEF AnswerFailed
    <3>2. delay \in 0..Cycle
      BY <3>1, RefreshAssumption
    <3>3. timers'[delay] > 0
      BY <1>1, <3>1, <3>2, ArmType
    <3> QED BY <2>4, <3>2, <3>3 DEF AnswerFailed, ChecksGoOn, Pending, store
  <2>5. ASSUME NEW q, NEW counts, NEW left, SendNext(q, counts, left, timers), UNCHANGED member
        PROVE  ChecksGoOn' /\ member' = Titles
    BY <1>1, <2>5, SendGoesOn
  <2>6. CASE DetailsArrived(i)
    BY <2>5, <2>6 DEF DetailsArrived
  <2>7. CASE EpisodesArrived(i)
    BY <2>5, <2>7 DEF EpisodesArrived
  <2>8. CASE SaveFailed(i)
    BY <2>8 DEF SaveFailed
  <2> QED BY <2>1, <2>3, <2>4, <2>6, <2>7, <2>8 DEF Arrived
<1>5. CASE Toggle
  <2>1. member' = Titles /\ UNCHANGED <<invalid, pause>>
    BY <1>5 DEF Toggle, store
  <2>2. CASE enabled'
    <3>1. Begin(timers)
      BY <1>5, <2>2 DEF Toggle
    <3>2. pause' \in 0..Cycle /\ (pause' > 0 => timers[pause'] > 0)
      BY <1>1, <1>2, <2>1
    <3>3. ChecksGoOn'
      BY <1>1, <1>2, <3>1, <3>2, BeginGoesOn
    <3> QED BY <2>1, <3>3
  <2>3. CASE ~enabled'
    BY <2>1, <2>3 DEF ChecksGoOn
  <2> QED BY <2>1, <2>2, <2>3
<1>6. ASSUME NEW t, SetToken(t), UNCHANGED <<member, enabled>>
      PROVE  ChecksGoOn' /\ member' = Titles
  <2>1. CASE (token = NoToken) # (t = NoToken)
    <3>1. Begin(timers) /\ pause' = 0
      BY <1>6, <2>1 DEF SetToken
    <3>2. pause' \in 0..Cycle /\ (pause' > 0 => timers[pause'] > 0)
      BY <1>1, <3>1
    <3>3. ChecksGoOn'
      BY <1>1, <1>2, <3>1, <3>2, BeginGoesOn
    <3> QED BY <1>6, <3>3
  <2>2. CASE ~((token = NoToken) # (t = NoToken))
    BY <1>6, <2>2 DEF SetToken, coordinator, ChecksGoOn, Pending
  <2> QED BY <2>1, <2>2
<1>7. CASE \E t \in Tokens \cup {NoToken} : TokenLoaded(t)
  BY <1>6, <1>7 DEF TokenLoaded, store
<1>8. CASE \E t \in Tokens : TokenSaved(t)
  BY <1>6, <1>8 DEF TokenSaved, store
<1>9. CASE TokenRemoved
  BY <1>6, <1>9 DEF TokenRemoved, store
<1>10. CASE UNCHANGED <<member, enabled, token, coordinator>>
  BY <1>10 DEF coordinator, ChecksGoOn, Pending
<1>11. CASE Tick
  <2>1. Pending => Pending'
    <3> SUFFICES ASSUME NEW d \in 0..Cycle, timers[d] > 0 PROVE Pending'
      BY DEF Pending
    <3>1. d - 1 \in 0..Cycle /\ d - 1 < Cycle /\ (d - 1) + 1 = d
      BY <1>1, <1>11 DEF Tick
    <3>2. timers'[d - 1] > 0
      BY <1>11, <3>1 DEF Tick
    <3> QED BY <3>1, <3>2 DEF Pending
  <2> QED BY <1>11, <2>1 DEF Tick, ChecksGoOn, credential
<1>12. CASE (\E t \in Tokens : Revoke(t)) \/ (\E k \in Gone : Vanish(k)) \/ (\E k \in Task : FetchedByHand(k))
  BY <1>10, <1>12 DEF Revoke, Vanish, FetchedByHand, store, credential
<1>13. CASE (\E t \in Titles : RemoveTitle(t)) \/ (\E t \in Titles : AddTitle(t))
  BY <1>13 DEF RemoveTitle, AddTitle
<1>14. CASE UNCHANGED vars
  BY <1>10, <1>14 DEF vars, store, credential
<1> QED BY <1>3, <1>4, <1>5, <1>7, <1>8, <1>9, <1>11, <1>12, <1>13, <1>14 DEF Next

\* While automatic refresh is on with a token that was not refused, a cycle is
\* under way or a timer is set for the next (`begin`, `next`, `later`), as long
\* as titles stay in the Library and the database can be read.
THEOREM ChecksContinue ==
  ASSUME "database" \notin Faults, "library" \notin Environment
  PROVE  Spec => []ChecksGoOn
<1>1. Init => ChecksGoOn /\ member = Titles
  BY DEF Init, ChecksGoOn
<1>2. RefreshInv /\ (ChecksGoOn /\ member = Titles) /\ [Next]_vars
        => (ChecksGoOn /\ member = Titles)'
  BY ChecksStep
<1> QED BY <1>1, <1>2, Inductive, PTL DEF Spec
=============================================================================
