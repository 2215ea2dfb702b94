------------------------- MODULE RefreshCoordinator -------------------------
(***************************************************************************)
(* The automatic metadata refresh of src/src/refresh.rs: one coordinator   *)
(* on the UI thread that, while the setting is on and a TMDB token is      *)
(* present, requests stale Library metadata one title or season at a time. *)
(*                                                                         *)
(* Every UI-thread handler is one action.  Between a request and its       *)
(* answer anything else may happen: the user flips the switch, removes or  *)
(* replaces the token, removes the title, or refreshes it by hand.         *)
(* Time is counted in ticks; ages stop counting once metadata is stale,    *)
(* and the order of fetch times is kept beside them.                       *)
(***************************************************************************)
EXTENDS Integers, FiniteSets, SequencesExt

CONSTANTS
  Titles,       \* local media ids
  SeasonsOf,    \* the season numbers of each title (none for a movie)
  Tokens,       \* TMDB access tokens
  NoToken,      \* what SharedToken holds without a token
  Limit,        \* titles, and seasons, selected per cycle (LIMIT)
  Pause,        \* ticks of the pause after an error
  RatePause,    \* ticks of the pause after a rate limit
  Cycle,        \* ticks between two cycles (CYCLE)
  FreshFor,     \* ticks until metadata is stale (metadata::FRESH_FOR)
  Faults,       \* what may fail: "offline", "limited", "database"
  Gone,         \* tasks TMDB may come to answer with 404, for good
  Environment,  \* what else happens: "switch", "token", "revoke", "library", "manual"
  MaxTimers     \* the user starts no cycle with this many timers pending

ASSUME RefreshAssumption ==
  /\ Limit \in Nat \ {0}
  /\ Pause \in Nat \ {0} /\ RatePause \in Nat \ {0}
  /\ Cycle \in Nat \ {0} /\ Pause <= Cycle /\ RatePause <= Cycle
  /\ FreshFor \in Nat \ {0}
  /\ MaxTimers \in Nat
  /\ SeasonsOf \in [Titles -> SUBSET Nat]
  /\ NoToken \notin Tokens

VARIABLES
  member,    \* the Library: titles with a library_entries row
  age,       \* ticks since a task's metadata was last fetched
  older,     \* pairs of tasks, the first fetched before the second
  partial,   \* seasons with fewer stored episodes than TMDB announces
  enabled,   \* the automatic_refresh setting
  loading,   \* the saved token has not been read yet
  token,     \* the token in use
  rejected,  \* tokens TMDB no longer accepts
  missing,   \* tasks TMDB answers with 404 by now
  queue, seen, active, inFlight, invalid, \* the coordinator's State
  pause,     \* ticks left until pause_until
  jobs,      \* requests handed to the network pool and not yet answered
  timers,    \* single-shot timers by ticks left
  asked      \* history: requests sent per task in the current cycle

store == <<member, age, older, partial>>
credential == <<loading, token, rejected, missing>>
coordinator == <<queue, seen, active, inFlight, invalid, pause, jobs, timers, asked>>
vars == <<store, enabled, credential, coordinator>>
-----------------------------------------------------------------------------
Detail(t) == [kind |-> "detail", title |-> t, season |-> 0]
Season(t, n) == [kind |-> "season", title |-> t, season |-> n]
Details == {Detail(t) : t \in Titles}
Downloads(t) == {Season(t, n) : n \in SeasonsOf[t]}
Seasons == UNION {Downloads(t) : t \in Titles}
Task == Details \cup Seasons

ASSUME FiniteLibrary == IsFiniteSet(Task)

\* A title never fetched, or a season never opened or no longer stored.
Never == FreshFor + 1
Stale(k) == age[k] >= FreshFor
Aged(a) == IF a < FreshFor THEN a + 1 ELSE a

Job == [task : Task, token : Tokens]

NothingAsked == [k \in Task |-> 0]
ArmIfIdle(ts, delay) == \* mutant: one timer is taken to be enough
  IF \E d \in 0..Cycle : ts[d] > 0 THEN ts ELSE [ts EXCEPT ![delay] = 1]
Arm(ts, delay) == [ts EXCEPT ![delay] = @ + 1]
Pending == \E d \in 0..Cycle : timers[d] > 0
TimersLeft == FoldFunction(+, 0, timers)

\* The first n members of S in some order that respects Before.
FirstOf(n, S, Before(_, _)) ==
  {q \in Injection(1..Min({n, Cardinality(S)}), S) :
     /\ \A i, j \in DOMAIN q : i < j => ~Before(q[j], q[i])
     /\ \A k \in S \ Range(q), i \in DOMAIN q : ~Before(k, q[i])}

Newer(j, k) == <<k, j>> \in older \* mutant: the newest first
Older(j, k) == <<j, k>> \in older
ByNumber(j, k) == j.season < k.season

\* `due`: stale details, never fetched first, then stale or partial seasons
\* that were downloaded before; each kind capped.
DueDetails == {k \in Details : k.title \in member /\ Stale(k)}
DueSeasons == {k \in Seasons : /\ k.title \in member
                               /\ age[k] # Never
                               /\ Stale(k) \/ k \in partial}
Due == {d \o s : d \in FirstOf(Limit, DueDetails, Older),
                 s \in FirstOf(Limit, DueSeasons, Older)}
-----------------------------------------------------------------------------
StoreOK ==
  /\ member \subseteq Titles
  /\ age \in [Task -> 0..Never]
  /\ older \subseteq Task \X Task
  /\ partial \subseteq Seasons

CredentialOK ==
  /\ enabled \in BOOLEAN
  /\ loading \in BOOLEAN
  /\ token \in Tokens \cup {NoToken}
  /\ rejected \subseteq Tokens
  /\ missing \subseteq Gone

CoordinatorOK ==
  /\ queue \in Seq(Task)
  /\ seen \subseteq Task
  /\ active \in BOOLEAN
  /\ inFlight \in BOOLEAN
  /\ invalid \in BOOLEAN
  /\ pause \in 0..Cycle
  /\ jobs \in Seq(Job)
  /\ timers \in [0..Cycle -> Nat]
  /\ asked \in [Task -> Nat]

\* What each variable holds, among it that no request carries no token and
\* that no pause outlasts a cycle.
TypeOK == StoreOK /\ CredentialOK /\ CoordinatorOK

\* The process has just started: the startup timer runs and the credential
\* store is being read.  The database is whatever an earlier session left.
Init ==
  /\ member = Titles
  /\ age \in [Task -> {0, FreshFor, Never}]
  /\ older = {p \in Task \X Task : age[p[1]] > age[p[2]]}
  /\ partial = {}
  /\ enabled \in BOOLEAN
  /\ loading = TRUE
  /\ token = NoToken
  /\ rejected = {}
  /\ missing = {}
  /\ queue = <<>>
  /\ seen = {}
  /\ active = FALSE
  /\ inFlight = FALSE
  /\ invalid = FALSE
  /\ pause = 0
  /\ jobs = <<>>
  /\ timers = [d \in 0..Cycle |-> IF d = 0 THEN 1 ELSE 0]
  /\ asked = NothingAsked
-----------------------------------------------------------------------------
\* `next` with the coordinator active: send the first queued task, or end the
\* cycle and check again later.  The caller has set token'.
SendNext(q, counts, left, armed) ==
  \/ /\ q = <<>>
     /\ queue' = q /\ active' = FALSE /\ inFlight' = FALSE
     /\ jobs' = left /\ asked' = counts /\ timers' = Arm(armed, Cycle)
  \/ /\ q # <<>> /\ token' # NoToken
     /\ queue' = Tail(q) /\ active' = TRUE /\ inFlight' = TRUE
     /\ jobs' = Append(left, [task |-> Head(q), token |-> token'])
     /\ asked' = [counts EXCEPT ![Head(q)] = @ + 1]
     /\ timers' = armed
  \/ /\ q # <<>> /\ token' = NoToken
     /\ queue' = <<>> /\ active' = FALSE /\ inFlight' = FALSE
     /\ jobs' = left /\ asked' = counts /\ timers' = armed

\* Mutant of Blocked: pauses are left to the timers.
BlockedByWork == active \/ inFlight \/ token' = NoToken \/ ~enabled'

\* What `begin` refuses to start a cycle for.  The caller has set enabled',
\* token', invalid' and pause'.
Blocked ==
  \/ active \/ inFlight
  \/ invalid' \/ pause' > 0
  \/ token' = NoToken \/ ~enabled'

\* `begin`: `force` only skips a token check that is repeated, so it has no
\* effect.  A setting or selection that can't be read starts nothing.
Begin(armed) ==
  \/ /\ Blocked \/ "database" \in Faults
     /\ timers' = armed
     /\ UNCHANGED <<queue, seen, active, inFlight, jobs, asked>>
  \/ /\ ~Blocked
     /\ \E due \in Due :
          /\ seen' = Range(due)
          /\ SendNext(due, NothingAsked, jobs, armed)

\* A single-shot timer fires: the startup one, or one set by `later`.
TimerFires ==
  /\ timers[0] > 0
  /\ UNCHANGED <<store, enabled, credential, invalid, pause>>
  /\ Begin([timers EXCEPT ![0] = @ - 1])
-----------------------------------------------------------------------------
\* `arrived` applies an answer only for a Library title, with a token, while
\* the setting is on; the membership and the setting are read again here.
Wanted(k) == k.title \in member /\ token # NoToken /\ enabled

\* Mutant of AnswerSkipped: the answer is dropped, the cycle not ended.
AnswerDropped(i) ==
  /\ ~Wanted(jobs[i].task) \/ "database" \in Faults
  /\ jobs' = RemoveAt(jobs, i)
  /\ queue' = <<>> /\ inFlight' = FALSE
  /\ UNCHANGED <<store, enabled, credential, seen, active, invalid, pause, timers, asked>>

\* Otherwise the cycle ends here; no timer is set.
AnswerSkipped(i) ==
  /\ ~Wanted(jobs[i].task) \/ "database" \in Faults
  /\ jobs' = RemoveAt(jobs, i)
  /\ queue' = <<>> /\ active' = FALSE /\ inFlight' = FALSE
  /\ UNCHANGED <<store, enabled, credential, seen, invalid, pause, timers, asked>>

\* How TMDB can refuse task k asked for with token t.  Every error but 401
\* and 429 (404, timeout, no connection, 5xx, unreadable) is "failed".
Refusals(k, t) ==
  (IF t \in rejected THEN {"unauthorized"} ELSE {})
    \cup (IF k \in missing \/ "offline" \in Faults THEN {"failed"} ELSE {})
    \cup (IF "limited" \in Faults THEN {"limited"} ELSE {})

\* `remote_failure`: the cycle ends and everything waits for the pause.
AnswerFailed(i) ==
  /\ Wanted(jobs[i].task)
  /\ \E error \in Refusals(jobs[i].task, jobs[i].token) :
       LET delay == IF error = "limited" THEN RatePause ELSE Pause IN
       /\ invalid' = (error = "unauthorized")
       /\ pause' = delay
       /\ timers' = Arm(timers, delay)
  /\ jobs' = RemoveAt(jobs, i)
  /\ queue' = <<>> /\ active' = FALSE /\ inFlight' = FALSE
  /\ UNCHANGED <<store, enabled, credential, seen, asked>>

Answerable(k, t) == t \notin rejected /\ k \notin missing

\* Task k is now the last one fetched.
Latest(k) == {p \in older : p[1] # k} \cup {<<j, k>> : j \in Task \ {k}}

\* The effect of metadata::save: seasons TMDB dropped go with their episodes,
\* `changed` ones get another announced count, `short` of them a larger one.
SaveDetails(t, dropped, changed, short) ==
  /\ \A k \in changed : age[k] # Never
  /\ age' = [k \in Task |-> IF k = Detail(t) THEN 0
                            ELSE IF k \in dropped THEN Never ELSE age[k]]
  /\ older' = Latest(Detail(t))
  /\ partial' = (partial \ (dropped \cup changed)) \cup short

\* The effect of metadata::save_episodes.
SaveSeason(k, short) ==
  /\ age' = [age EXCEPT ![k] = 0]
  /\ older' = Latest(k)
  /\ partial' = IF short THEN partial \cup {k} ELSE partial \ {k}

\* `seen.insert`: only what this cycle has not queued before.
Anything(S) == S \* mutant: the result of insert is ignored
NotSeen(S) == S \ seen

\* Details arrived: save them, then queue every downloaded season whose
\* announced count changed, in season order, unless this cycle has seen it
\* or the queue is full; then the next request.
DetailsArrived(i) ==
  LET k == jobs[i].task IN
  /\ k \in Details /\ Wanted(k) /\ Answerable(k, jobs[i].token)
  /\ \E dropped \in SUBSET Downloads(k.title) :
     \E changed \in SUBSET (Downloads(k.title) \ dropped) :
     \E short \in SUBSET changed :
       /\ SaveDetails(k.title, dropped, changed, short)
       /\ UNCHANGED <<member, enabled, credential, invalid, pause>>
       /\ \E more \in FirstOf(3 * Limit - Len(queue), NotSeen(changed), ByNumber) :
            /\ seen' = seen \cup Range(more)
            /\ SendNext(queue \o more, asked, RemoveAt(jobs, i), timers)

\* A season's episodes arrived.
EpisodesArrived(i) ==
  LET k == jobs[i].task IN
  /\ k \in Seasons /\ Wanted(k) /\ Answerable(k, jobs[i].token)
  /\ \E short \in BOOLEAN : SaveSeason(k, short)
  /\ UNCHANGED <<member, enabled, credential, seen, invalid, pause>>
  /\ SendNext(queue, asked, RemoveAt(jobs, i), timers)

\* `local_failure`: the answer could not be saved; the cycle goes on.
SaveFailed(i) ==
  /\ "database" \in Faults
  /\ Wanted(jobs[i].task) /\ Answerable(jobs[i].task, jobs[i].token)
  /\ UNCHANGED <<store, enabled, credential, seen, invalid, pause>>
  /\ SendNext(queue, asked, RemoveAt(jobs, i), timers)

Arrived(i) ==
  \/ AnswerSkipped(i) \/ AnswerFailed(i)
  \/ DetailsArrived(i) \/ EpisodesArrived(i) \/ SaveFailed(i)
-----------------------------------------------------------------------------
UserMayStart == TimersLeft < MaxTimers

\* Mutant of Toggle: off forgets the request in flight.
ToggleCancels ==
  /\ "switch" \in Environment /\ UserMayStart
  /\ enabled' = ~enabled
  /\ UNCHANGED <<store, credential, invalid, pause>>
  /\ IF enabled' THEN Begin(timers)
     ELSE /\ active' = FALSE /\ inFlight' = FALSE /\ queue' = <<>>
          /\ UNCHANGED <<seen, jobs, timers, asked>>

\* The Settings switch: off waits for the answer in flight, on begins a cycle.
Toggle ==
  /\ "switch" \in Environment /\ UserMayStart
  /\ enabled' = ~enabled
  /\ UNCHANGED <<store, credential, invalid, pause>>
  /\ IF enabled' THEN Begin(timers)
     ELSE UNCHANGED <<queue, seen, active, inFlight, jobs, timers, asked>>

\* Mutant of SetToken: the announcement lifts the pauses and starts nothing.
SetTokenQuietly(t) ==
  /\ token' = t
  /\ IF (token = NoToken) # (t = NoToken)
     THEN invalid' = FALSE /\ pause' = 0
     ELSE UNCHANGED <<invalid, pause>>
  /\ UNCHANGED <<queue, seen, active, inFlight, jobs, timers, asked>>

\* `render` in remote.rs announces only that a token appeared or went away;
\* the announcement lifts the pauses and begins a cycle.
SetToken(t) ==
  /\ token' = t
  /\ IF (token = NoToken) # (t = NoToken)
     THEN /\ invalid' = FALSE /\ pause' = 0
          /\ Begin(timers)
     ELSE UNCHANGED coordinator

\* The credential store was read (NoToken: nothing there, or unreadable).
\* The token is used even when TMDB does not accept it.
TokenLoaded(t) ==
  /\ loading
  /\ loading' = FALSE
  /\ UNCHANGED <<store, enabled, rejected, missing>>
  /\ SetToken(t)

\* A pasted token TMDB accepted and the credential store saved.
TokenSaved(t) ==
  /\ "token" \in Environment /\ UserMayStart
  /\ ~loading /\ t \notin rejected
  /\ UNCHANGED <<store, enabled, loading, rejected, missing>>
  /\ SetToken(t)

TokenRemoved ==
  /\ "token" \in Environment
  /\ token # NoToken
  /\ UNCHANGED <<store, enabled, loading, rejected, missing>>
  /\ SetToken(NoToken)

\* The user revokes a token at TMDB, or it expires.
Revoke(t) ==
  /\ "revoke" \in Environment
  /\ rejected' = rejected \cup {t}
  /\ UNCHANGED <<store, enabled, loading, token, missing, coordinator>>

\* TMDB drops a title or a season; from now on it answers 404.
Vanish(k) ==
  /\ missing' = missing \cup {k}
  /\ UNCHANGED <<store, enabled, loading, token, rejected, coordinator>>

RemoveTitle(t) ==
  /\ "library" \in Environment
  /\ member' = member \ {t}
  /\ UNCHANGED <<age, older, partial, enabled, credential, coordinator>>

\* Re-adding a title finds its stored metadata again.
AddTitle(t) ==
  /\ "library" \in Environment
  /\ member' = member \cup {t}
  /\ UNCHANGED <<age, older, partial, enabled, credential, coordinator>>

\* The detail pane fetched and saved the same details or season itself.
FetchedByHand(k) ==
  /\ "manual" \in Environment /\ k \notin missing
  /\ IF k \in Details
     THEN \E dropped \in SUBSET Downloads(k.title) :
          \E changed \in SUBSET (Downloads(k.title) \ dropped) :
          \E short \in SUBSET changed :
            SaveDetails(k.title, dropped, changed, short)
     ELSE \E short \in BOOLEAN : SaveSeason(k, short)
  /\ UNCHANGED <<member, enabled, credential, coordinator>>

\* A due timer fires long before another tick passes.
Tick ==
  /\ timers[0] = 0
  /\ timers' = [d \in 0..Cycle |-> IF d < Cycle THEN timers[d + 1] ELSE 0]
  /\ pause' = IF pause > 0 THEN pause - 1 ELSE 0
  /\ age' = [k \in Task |-> Aged(age[k])]
  /\ UNCHANGED <<member, older, partial, enabled, credential, queue, seen, active,
                 inFlight, invalid, jobs, asked>>

Next ==
  \/ TimerFires
  \/ \E i \in DOMAIN jobs : Arrived(i)
  \/ Toggle
  \/ \E t \in Tokens \cup {NoToken} : TokenLoaded(t)
  \/ \E t \in Tokens : TokenSaved(t)
  \/ TokenRemoved
  \/ \E t \in Tokens : Revoke(t)
  \/ \E k \in Gone : Vanish(k)
  \/ \E t \in Titles : RemoveTitle(t)
  \/ \E t \in Titles : AddTitle(t)
  \/ \E k \in Task : FetchedByHand(k)
  \/ Tick

Spec == Init /\ [][Next]_vars

\* An answer that saves task k.
Refreshes(k) ==
  \E i \in DOMAIN jobs :
    /\ jobs[i].task = k
    /\ DetailsArrived(i) \/ EpisodesArrived(i)

\* Timers and clock run, every request is answered (each has a timeout), the
\* credential store is read, and TMDB, asked again and again, answers at last.
Fairness ==
  /\ WF_vars(TimerFires)
  /\ WF_vars(Tick)
  /\ WF_vars(\E i \in DOMAIN jobs : Arrived(i))
  /\ WF_vars(\E t \in Tokens : TokenLoaded(t))
  /\ \A k \in Task : SF_vars(Refreshes(k))

FairSpec == Spec /\ Fairness
-----------------------------------------------------------------------------
\* "One maintenance request can be in flight at a time" (refresh.rs:3): the
\* pool never holds two automatic requests, whatever the switch, the token
\* and the timers do, and the flag says exactly when it holds one.
OneAutomaticRequest ==
  /\ Len(jobs) <= 1
  /\ inFlight <=> jobs # <<>>

\* "No retry loop runs on errors", and a changed season is fetched once: no
\* cycle asks TMDB for the same title or season twice, although answers keep
\* adding seasons to the queue that is being drained.
AskedOncePerCycle == \A k \in Task : asked[k] <= 1

\* While a pause or a rejected token stops automatic work, nothing is in
\* flight or queued: neither the switch nor an old timer gets around it. And
\* every pause has a timer that fires when it ends, so an error never silences
\* the coordinator for good.
QuietWhilePaused ==
  /\ pause > 0 \/ invalid => jobs = <<>> /\ queue = <<>>
  /\ pause > 0 => timers[pause] > 0

\* A cycle ends, although it adds seasons to its own queue.
CycleEnds == active ~> ~active

\* A title TMDB no longer has is asked for before this one: it was not fetched
\* later, and it is never fetched again.
Overtaken(k) == \E g \in missing \cap Details : g.title \in member /\ <<k, g>> \notin older

\* What automatic refresh needs to reach k: it is on, with a token that was not
\* refused, and no missing title is in the way.
Reachable(k) ==
  /\ k.title \in member /\ enabled
  /\ token \notin rejected \cup {NoToken} /\ ~invalid
  /\ k \notin missing /\ ~Overtaken(k)

\* A stale title is eventually refreshed, although every failing request ends
\* the cycle for all the others (`remote_failure`): not those are starved that
\* were fetched before a missing one, only those fetched after it.
StaleIsRefreshed ==
  \A k \in Details : (Stale(k) /\ Reachable(k)) ~> (age[k] = 0 \/ ~Reachable(k))

\* "While enabled, it checks every six hours" (ADR-0026:16): while switched on
\* with a token that was not refused, a cycle is under way or a timer is set
\* for the next, in whatever order timers, switch, token and answers come.  It
\* is so while titles stay in the Library: an answer for a title removed
\* meanwhile ends the cycle and sets no timer (`arrived`).
ChecksGoOn == enabled /\ token # NoToken /\ ~invalid => active \/ Pending
-----------------------------------------------------------------------------
\* The inductive invariant behind the safety properties.  The flags and the
\* pool agree, so a cycle starts only with nothing outstanding.
OneJob ==
  /\ Len(jobs) <= 1
  /\ active <=> jobs # <<>>
  /\ inFlight <=> active

\* What waits was seen in this cycle, once.
QueueOnce ==
  /\ IsInjective(queue)
  /\ Range(queue) \subseteq seen
  /\ ~active => queue = <<>>

\* What was asked for was seen and waits no more.
AskedOnce == \A k \in Task : /\ asked[k] <= 1
                             /\ asked[k] = 1 => k \in seen \ Range(queue)

PauseInv ==
  /\ pause > 0 \/ invalid => ~active
  /\ pause > 0 => timers[pause] > 0

RefreshInv == TypeOK /\ OneJob /\ QueueOnce /\ AskedOnce /\ PauseInv
=============================================================================
