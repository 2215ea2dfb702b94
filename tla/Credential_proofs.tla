------------------------- MODULE Credential_proofs -------------------------
(***************************************************************************)
(* Safety of the token's life for any number of tokens, outstanding jobs   *)
(* and sessions: CredentialInv is inductive, and the properties are among  *)
(* its conjuncts.                                                          *)
(***************************************************************************)
EXTENDS Credential, TLAPS

USE DEF Status, Kinds, Verdicts, Outcomes, NoJob, Request, Queued, Out, Done, Free, Busy, TmdbView

\* A session that starts, the first one or a later one, has only read jobs out.
LEMMA StartsLoading ==
  ASSUME NEW js, OnlyLoad(js)
  PROVE  /\ js \in [Slots -> {NoJob} \cup StoreJob \cup TmdbJob \cup SaveJob]
         /\ \E s \in Slots : js[s].kind = "load"
         /\ \A r, s \in Slots : js[r].kind = "load" /\ js[s].kind = "load" => r = s
         /\ \A s \in Slots : js[s] = NoJob \/ js[s] = Queued("load")
<1>1. PICK s0 \in Slots : js = [r \in Slots |-> IF r = s0 THEN Queued("load") ELSE NoJob]
  BY DEF OnlyLoad
<1>2. Queued("load") \in StoreJob
  BY DEF StoreJob
<1>3. js \in [Slots -> {NoJob} \cup StoreJob \cup TmdbJob \cup SaveJob]
  BY <1>1, <1>2
<1>4. js[s0].kind = "load" /\ \A r \in Slots : r # s0 => js[r].kind = "none"
  BY <1>1
<1>5. \A s \in Slots : js[s] = NoJob \/ js[s] = Queued("load")
  BY <1>1
<1> QED BY <1>3, <1>4, <1>5

LEMMA InitInv == Init => CredentialInv
<1> SUFFICES ASSUME Init PROVE CredentialInv
  OBVIOUS
<1>1. OnlyLoad(jobs)
  BY DEF Init
<1>2. TypeOK
  <2>1. sessions \in 1..MaxSessions
    BY CredentialAssumption DEF Init
  <2> QED BY <1>1, <2>1, StartsLoading DEF Init, TypeOK
<1>3. LoadFirst /\ BusyHasReason /\ StatusAgrees
  BY <1>1, StartsLoading DEF Init, LoadFirst, BusyHasReason, StatusAgrees
<1>4. KeptWasAccepted /\ AcceptedOnTheWay
  BY <1>1, StartsLoading DEF Init, KeptWasAccepted, AcceptedOnTheWay
<1>5. ImageBaseOnce /\ (answered => requested)
  BY <1>1, StartsLoading DEF Init, ImageBaseOnce
<1> QED BY <1>2, <1>3, <1>4, <1>5 DEF CredentialInv

\* What a worker does changes no job's kind and, but for the token a read
\* finds, no job's token.
LEMMA WorkInv ==
  ASSUME CredentialInv, NEW s \in Slots, Work(s)
  PROVE  CredentialInv'
<1> USE DEF CredentialInv, TypeOK
<1>1. TypeOK'
  <2>1. CASE ReadStore(s)
    BY <2>1 DEF ReadStore, StoreJob, TmdbJob, SaveJob
  <2>2. CASE Validate(s)
    BY <2>2 DEF Validate, AfterVerdict, StoreJob, TmdbJob, SaveJob
  <2>3. CASE WriteStore(s)
    BY <2>3 DEF WriteStore, StoreJob, TmdbJob, SaveJob
  <2>4. CASE DeleteEntry(s)
    BY <2>4 DEF DeleteEntry, StoreJob, TmdbJob, SaveJob
  <2> QED BY <2>1, <2>2, <2>3, <2>4 DEF Work
<1>2. /\ \A r \in Slots : /\ jobs'[r].kind = jobs[r].kind
                          /\ jobs[r].kind # "load" => jobs'[r].token = jobs[r].token
      /\ UNCHANGED <<token, credential, requested, answered>>
  BY DEF Work, ReadStore, Validate, WriteStore, DeleteEntry, StoreJob, TmdbJob, SaveJob
<1>3. LoadFirst' /\ BusyHasReason' /\ StatusAgrees'
  BY <1>2 DEF LoadFirst, BusyHasReason, StatusAgrees
<1>4. KeptWasAccepted' /\ AcceptedOnTheWay'
  <2>1. CASE ReadStore(s)
    BY <2>1 DEF ReadStore, KeptWasAccepted, AcceptedOnTheWay, StoreJob, TmdbJob, SaveJob
  <2>2. CASE Validate(s)
    BY <2>2 DEF Validate, AfterVerdict, KeptWasAccepted, AcceptedOnTheWay, StoreJob, TmdbJob, SaveJob
  <2>3. CASE WriteStore(s)
    BY <2>3 DEF WriteStore, KeptWasAccepted, AcceptedOnTheWay, StoreJob, TmdbJob, SaveJob
  <2>4. CASE DeleteEntry(s)
    BY <2>4 DEF DeleteEntry, KeptWasAccepted, AcceptedOnTheWay, StoreJob, TmdbJob, SaveJob
  <2> QED BY <2>1, <2>2, <2>3, <2>4 DEF Work
<1>5. ImageBaseOnce' /\ (answered => requested)'
  BY <1>2 DEF ImageBaseOnce
<1> QED BY <1>1, <1>3, <1>4, <1>5

LEMMA FromCheckStatus ==
  ASSUME NEW verdict \in Verdicts
  PROVE  FromCheck(verdict) \in {"Valid", "Invalid", "Offline"}
BY DEF FromCheck

\* What a handler can rely on when a job's outcome arrives.
LEMMA OutcomeOf ==
  ASSUME TypeOK, NEW s \in Slots, jobs[s].stage \in Outcomes
  PROVE  /\ jobs[s].kind = "load" /\ jobs[s].stage \in Verdicts => jobs[s].token \in Tokens
         /\ jobs[s].kind = "save" => /\ jobs[s].token \in Tokens
                                     /\ jobs[s].stage \in Verdicts \cup {"unavailable"}
         /\ jobs[s].kind = "check" => jobs[s].token \in Tokens /\ jobs[s].stage \in Verdicts
BY DEF TypeOK, StoreJob, TmdbJob, SaveJob

\* A token that comes into use, read or saved: its job's slot is reused for
\* the image base request, and stale searches are forgotten.
LEMMA InUseInv ==
  ASSUME CredentialInv, NEW s \in Slots, Loaded(s) \/ Saved(s)
  PROVE  CredentialInv'
<1> USE DEF CredentialInv
<1>1. TypeOK /\ jobs[s].stage \in Outcomes /\ jobs[s].kind \in {"load", "save"}
  BY DEF Loaded, Saved
<1>2. /\ \A r \in Slots : r # s => jobs'[r] \in {jobs[r], NoJob}
      /\ jobs'[s] \in {NoJob, Request("base", jobs[s].token)}
      /\ DOMAIN jobs' = Slots /\ jobs' = [r \in Slots |-> jobs'[r]]
  BY DEF Loaded, Saved, FetchImageBase, Searchless, TypeOK
<1>3. /\ token' \in {token, jobs[s].token} /\ (token' # token => token' \in Tokens)
      /\ jobs'[s] # NoJob => jobs[s].token \in Tokens
  BY <1>1, OutcomeOf DEF Loaded, Saved, FetchImageBase, Searchless, TypeOK
<1>4. credential' \in Status \ {"Loading", "Checking"}
  <2>1. CASE Loaded(s)
    <3>1. credential = "Loading"
      BY <2>1 DEF Loaded, BusyHasReason
    <3> QED BY <2>1, <3>1, FromCheckStatus DEF Loaded
  <2>2. CASE Saved(s)
    BY <2>2, <1>1, OutcomeOf, FromCheckStatus DEF Saved
  <2> QED BY <2>1, <2>2
<1>5. TypeOK'
  <2>1. jobs'[s] \in {NoJob} \cup TmdbJob
    BY <1>2, <1>3 DEF TmdbJob
  <2>2. jobs' \in [Slots -> {NoJob} \cup StoreJob \cup TmdbJob \cup SaveJob]
    BY <1>2, <2>1 DEF TypeOK
  <2>3. /\ requested' \in BOOLEAN
        /\ UNCHANGED <<keyring, revoked, sessions, accepted, answered>>
    BY DEF Loaded, Saved, FetchImageBase, TypeOK
  <2>4. token' \in Tokens \cup {NoToken} /\ credential' \in Status
    BY <1>1, <1>3, <1>4 DEF TypeOK
  <2> QED BY <2>2, <2>3, <2>4 DEF TypeOK
<1>6. LoadFirst' /\ BusyHasReason'
  <2>1. Out("load")' \subseteq Out("load") \ {s}
    BY <1>2
  <2>2. Out("load")' = {}
    <3>1. CASE Loaded(s)
      BY <3>1, <2>1 DEF Loaded, LoadFirst
    <3>2. CASE Saved(s)
      BY <3>2, <2>1 DEF Saved, LoadFirst, BusyHasReason
    <3> QED BY <3>1, <3>2
  <2> QED BY <2>2, <1>4 DEF LoadFirst, BusyHasReason
<1>7. StatusAgrees'
  <2>1. CASE Loaded(s)
    <3>1. credential = "Loading" /\ token = NoToken
      BY <2>1 DEF Loaded, BusyHasReason, StatusAgrees
    <3>2. CASE jobs[s].stage \in Verdicts
      BY <2>1, <3>1, <3>2, <1>1, <1>4, OutcomeOf, FromCheckStatus, CredentialAssumption
         DEF Loaded, StatusAgrees
    <3>3. CASE jobs[s].stage \notin Verdicts
      BY <2>1, <3>1, <3>3 DEF Loaded, StatusAgrees
    <3> QED BY <3>2, <3>3
  <2>2. CASE Saved(s)
    <3>1. CASE jobs[s].stage = "ok"
      BY <2>2, <3>1, <1>1, OutcomeOf, CredentialAssumption DEF Saved, StatusAgrees
    <3>2. CASE jobs[s].stage # "ok"
      <4>1. credential' \in {"StorageUnavailable", "Invalid", "Offline"}
        BY <2>2, <3>2, <1>1, OutcomeOf DEF Saved, FromCheck
      <4> QED BY <4>1 DEF StatusAgrees
    <3> QED BY <3>1, <3>2
  <2> QED BY <2>1, <2>2
<1>8. KeptWasAccepted' /\ AcceptedOnTheWay'
  <2>1. UNCHANGED <<keyring, accepted>>
    BY DEF Loaded, Saved
  <2>2. token' # token => token' \in accepted
    BY <1>1, <1>3, OutcomeOf, CredentialAssumption DEF Loaded, Saved, AcceptedOnTheWay
  <2> QED BY <1>2, <2>1, <2>2 DEF KeptWasAccepted, AcceptedOnTheWay
<1>9. ImageBaseOnce' /\ (answered => requested)'
  BY <1>1, <1>2 DEF Loaded, Saved, FetchImageBase, Searchless, ImageBaseOnce
<1> QED BY <1>5, <1>6, <1>7, <1>8, <1>9

\* The other deliveries: a verdict, a deletion, the image base, an answer.
LEMMA DeliverInv ==
  ASSUME CredentialInv, NEW s \in Slots,
         Checked(s) \/ Deleted(s) \/ ImageBase(s) \/ Searched(s) \/ RefreshAnswered(s)
  PROVE  CredentialInv'
<1> USE DEF CredentialInv
<1>1. TypeOK /\ jobs[s].stage \in Outcomes /\ jobs[s].kind \notin {"none", "load", "save"}
  BY DEF Checked, Deleted, ImageBase, Searched, RefreshAnswered
<1>2. /\ \A r \in Slots : r # s => jobs'[r] = jobs[r]
      /\ jobs'[s] = NoJob \/ (token \in Tokens /\ jobs'[s] = Request("check", token))
      /\ jobs' = [r \in Slots |-> jobs'[r]]
      /\ UNCHANGED <<keyring, revoked, token, sessions, accepted>>
  BY DEF Checked, Deleted, ImageBase, Searched, RefreshAnswered, Check, TypeOK
<1>3. credential # "Loading"
  BY <1>1 DEF LoadFirst
<1>4. \/ credential' = credential /\ (jobs[s].kind = "check" => jobs[s].token # token)
      \/ credential' \in {"Invalid", "Offline", "StorageUnavailable"}
      \/ credential' = "Valid" /\ token \in Tokens
      \/ credential' = "Checking" /\ jobs'[s] = Request("check", token) /\ token \in Tokens
  <2>1. CASE Checked(s)
    BY <2>1, <1>1, OutcomeOf, FromCheckStatus DEF Checked
  <2>2. CASE Deleted(s) \/ ImageBase(s) \/ Searched(s)
    BY <2>2 DEF Deleted, ImageBase, Searched
  <2>3. CASE RefreshAnswered(s)
    BY <2>3 DEF RefreshAnswered, Check, TypeOK
  <2> QED BY <2>1, <2>2, <2>3
<1>5. TypeOK'
  <2>1. jobs'[s] \in {NoJob} \cup TmdbJob
    BY <1>2 DEF TmdbJob
  <2>2. requested' \in BOOLEAN /\ answered' \in BOOLEAN
    BY DEF Checked, Deleted, ImageBase, Searched, RefreshAnswered, TypeOK
  <2> QED BY <1>2, <1>4, <2>1, <2>2 DEF TypeOK
<1>6. LoadFirst' /\ BusyHasReason'
  <2>1. Out("load")' = Out("load") /\ Out("save")' = Out("save")
    BY <1>1, <1>2
  <2> QED BY <1>1, <1>2, <1>3, <1>4, <2>1 DEF LoadFirst, BusyHasReason
<1>7. StatusAgrees'
  BY <1>2, <1>3, <1>4, CredentialAssumption DEF StatusAgrees
<1>8. KeptWasAccepted' /\ AcceptedOnTheWay'
  BY <1>2 DEF KeptWasAccepted, AcceptedOnTheWay
<1>9. ImageBaseOnce' /\ (answered => requested)'
  BY <1>1, <1>2 DEF Checked, Deleted, ImageBase, Searched, RefreshAnswered, ImageBaseOnce
<1> QED BY <1>5, <1>6, <1>7, <1>8, <1>9

\* The user, Discover, the automatic refresh, TMDB and the process itself.
LEMMA UserInv ==
  ASSUME CredentialInv,
         \/ \E s \in Slots, t \in Tokens : Save(s, t)
         \/ \E s \in Slots : CheckAgain(s) \/ Remove(s)
         \/ \E s \in Slots, kind \in {"search", "refresh"} : SendRequest(s, kind)
         \/ \E t \in Tokens : Revoke(t)
         \/ Restart
  PROVE  CredentialInv'
<1> USE DEF CredentialInv, TypeOK
<1>1. CASE \E s \in Slots, t \in Tokens : Save(s, t)
  <2>1. TypeOK'
    BY <1>1 DEF Save, SaveJob
  <2>2. StatusAgrees'
    BY <1>1 DEF Save, StatusAgrees
  <2>3. LoadFirst' /\ BusyHasReason'
    <3>1. PICK s \in Slots, t \in Tokens : Save(s, t)
      BY <1>1
    <3>2. ~Busy /\ credential' = "Checking"
      BY <3>1 DEF Save
    <3>3. credential # "Loading"
      BY <3>2
    <3>4. jobs'[s].kind = "save" /\ \A r \in Slots : r # s => jobs'[r] = jobs[r]
      BY <3>1 DEF Save
    <3>5. Out("load") = {}
      BY <3>3 DEF BusyHasReason
    <3>6. \A r \in Slots : jobs'[r].kind # "load"
      BY <3>4, <3>5
    <3> HIDE DEF CredentialInv, TypeOK, Busy, TmdbView
    <3> QED BY <3>2, <3>4, <3>6 DEF LoadFirst, BusyHasReason
  <2>4. KeptWasAccepted' /\ AcceptedOnTheWay'
    BY <1>1 DEF Save, KeptWasAccepted, AcceptedOnTheWay
  <2>5. ImageBaseOnce' /\ (answered => requested)'
    BY <1>1 DEF Save, ImageBaseOnce
  <2> QED BY <2>1, <2>2, <2>3, <2>4, <2>5
<1>2. CASE \E s \in Slots : CheckAgain(s)
  <2>1. TypeOK'
    BY <1>2 DEF CheckAgain, Check, TmdbJob
  <2> QED BY <1>2, <2>1 DEF CheckAgain, Check, LoadFirst, BusyHasReason, StatusAgrees,
             KeptWasAccepted, AcceptedOnTheWay, ImageBaseOnce
<1>3. CASE \E s \in Slots : Remove(s)
  <2>1. PICK s \in Slots : Remove(s)
    BY <1>3
  <2>2. /\ \A r \in Slots : r # s => jobs'[r] \in {jobs[r], NoJob}
        /\ jobs'[s] = Queued("delete") /\ Queued("delete") \in StoreJob
        /\ jobs' = [r \in Slots |-> jobs'[r]]
    BY <2>1 DEF Remove, Searchless, StoreJob
  <2>3. TypeOK'
    <3>1. jobs' \in [Slots -> {NoJob} \cup StoreJob \cup TmdbJob \cup SaveJob]
      BY <2>2
    <3> QED BY <2>1, <3>1 DEF Remove
  <2>4. LoadFirst' /\ BusyHasReason' /\ StatusAgrees'
    BY <2>1, <2>2 DEF Remove, LoadFirst, BusyHasReason, StatusAgrees
  <2>5. KeptWasAccepted' /\ AcceptedOnTheWay'
    BY <2>1, <2>2 DEF Remove, KeptWasAccepted, AcceptedOnTheWay
  <2>6. ImageBaseOnce' /\ (answered => requested)'
    BY <2>1, <2>2 DEF Remove, ImageBaseOnce
  <2> QED BY <2>3, <2>4, <2>5, <2>6
<1>4. CASE \E s \in Slots, kind \in {"search", "refresh"} : SendRequest(s, kind)
  <2>1. TypeOK'
    BY <1>4 DEF SendRequest, TmdbJob
  <2> QED BY <1>4, <2>1 DEF SendRequest, LoadFirst, BusyHasReason, StatusAgrees, KeptWasAccepted,
             AcceptedOnTheWay, ImageBaseOnce
<1>5. CASE \E t \in Tokens : Revoke(t)
  BY <1>5 DEF Revoke, LoadFirst, BusyHasReason, StatusAgrees, KeptWasAccepted, AcceptedOnTheWay,
     ImageBaseOnce
<1>6. CASE Restart
  <2>1. OnlyLoad(jobs')
    BY <1>6 DEF Restart
  <2>2. TypeOK'
    <3>1. (sessions \in 1..MaxSessions)'
      BY <1>6, CredentialAssumption DEF Restart
    <3> QED BY <1>6, <2>1, <3>1, StartsLoading DEF Restart
  <2>3. LoadFirst' /\ BusyHasReason' /\ StatusAgrees'
    BY <1>6, <2>1, StartsLoading DEF Restart, LoadFirst, BusyHasReason, StatusAgrees
  <2>4. KeptWasAccepted' /\ AcceptedOnTheWay' /\ ImageBaseOnce' /\ (answered => requested)'
    BY <1>6, <2>1, StartsLoading DEF Restart, KeptWasAccepted, AcceptedOnTheWay, ImageBaseOnce
  <2> QED BY <2>2, <2>3, <2>4
<1> QED BY <1>1, <1>2, <1>3, <1>4, <1>5, <1>6

\* Every handler, worker and restart preserves the invariant, so it holds
\* throughout, for all tokens, slots and sessions.
THEOREM CredentialInductive == Spec => []CredentialInv
<1>1. CredentialInv /\ [Next]_vars => CredentialInv'
  <2> SUFFICES ASSUME CredentialInv, [Next]_vars PROVE CredentialInv'
    OBVIOUS
  <2>1. CASE \E s \in Slots : Work(s)
    BY <2>1, WorkInv
  <2>2. CASE \E s \in Slots : Deliver(s)
    BY <2>2, InUseInv, DeliverInv DEF Deliver
  <2>3. CASE UNCHANGED vars
    BY <2>3 DEF vars, CredentialInv, TypeOK, LoadFirst, BusyHasReason, StatusAgrees,
       KeptWasAccepted, AcceptedOnTheWay, ImageBaseOnce
  <2> QED BY <2>1, <2>2, <2>3, UserInv DEF Next
<1> QED BY InitInv, <1>1, PTL DEF Spec

\* Requests to TMDB carry a token, and every job ends in an outcome its
\* handler knows.
THEOREM CredentialTypes == Spec => []TypeOK
<1>1. CredentialInv => TypeOK
  BY DEF CredentialInv
<1> QED BY <1>1, CredentialInductive, PTL

\* Settings is busy only while what it waits for is on its way.
THEOREM NeverStuck == Spec => []BusyHasReason
<1>1. CredentialInv => BusyHasReason
  BY DEF CredentialInv
<1> QED BY <1>1, CredentialInductive, PTL

\* What Settings says agrees with the token in use.
THEOREM StatusIsTrue == Spec => []StatusAgrees
<1>1. CredentialInv => StatusAgrees
  BY DEF CredentialInv
<1> QED BY <1>1, CredentialInductive, PTL

\* No token is kept or used that TMDB did not accept.
THEOREM OnlyAccepted == Spec => []KeptWasAccepted
<1>1. CredentialInv => KeptWasAccepted
  BY DEF CredentialInv
<1> QED BY <1>1, CredentialInductive, PTL

\* The image base URL is never asked for twice.
THEOREM AskedForOnce == Spec => []ImageBaseOnce
<1>1. CredentialInv => ImageBaseOnce
  BY DEF CredentialInv
<1> QED BY <1>1, CredentialInductive, PTL
=============================================================================
