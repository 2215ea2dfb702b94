----------------------------- MODULE Credential -----------------------------
(***************************************************************************)
(* The TMDB token's life in src/src/remote.rs and src/src/secrets.rs: read *)
(* at startup, validated and saved, checked again, removed.  Jobs run on   *)
(* the worker pool and their results come back to the UI thread in any     *)
(* order; the entry in the credential store outlives the process.          *)
(*                                                                         *)
(* Discover searches and automatic refreshes take part as far as a 401     *)
(* answer of theirs changes what Settings says about the token.            *)
(***************************************************************************)
EXTENDS Integers, FiniteSets

CONSTANTS
  Tokens, NoToken,
  Slots,        \* jobs that can be outstanding at once
  MaxSessions   \* process starts in a behaviour

ASSUME CredentialAssumption ==
  /\ NoToken \notin Tokens
  /\ Slots # {}
  /\ MaxSessions \in Nat \ {0}

VARIABLES
  keyring,    \* the one entry in the OS credential store
  revoked,    \* tokens TMDB no longer accepts
  token,      \* the token in use, also in SharedToken
  credential, \* what Settings says about it
  requested,  \* image_base_requested
  jobs,       \* what was handed to the network pool and not yet delivered
  sessions,   \* process starts so far
  accepted,   \* history: tokens TMDB accepted, or kept since before
  answered    \* history: the image base URL was delivered in this session

vars == <<keyring, revoked, token, credential, requested, jobs, sessions, accepted, answered>>
-----------------------------------------------------------------------------
Status == {"Loading", "Missing", "Checking", "Valid", "Invalid", "Offline",
           "StorageUnavailable"}
Kinds == {"load", "save", "check", "delete", "base", "search", "refresh"}

\* A job waits for a worker, for TMDB, or to write the store; the other stages
\* are its outcome on the way back to the UI thread.
Verdicts == {"ok", "rejected", "offline"}
Outcomes == Verdicts \cup {"missing", "unavailable"}

StoreJob == [kind : {"load"}, token : {NoToken}, stage : {"queued", "missing", "unavailable"}]
              \cup [kind : {"delete"}, token : {NoToken}, stage : {"queued", "ok", "unavailable"}]
TmdbJob == [kind : Kinds \ {"save", "delete"}, token : Tokens, stage : Verdicts \cup {"validating"}]
SaveJob == [kind : {"save"}, token : Tokens,
            stage : Verdicts \cup {"validating", "saving", "unavailable"}]
NoJob == [kind |-> "none", token |-> NoToken, stage |-> "none"]
Request(kind, t) == [kind |-> kind, token |-> t, stage |-> "validating"]
Queued(kind) == [kind |-> kind, token |-> NoToken, stage |-> "queued"]

Out(kind) == {s \in Slots : jobs[s].kind = kind}
Done(s, kind) == jobs[s].kind = kind /\ jobs[s].stage \in Outcomes
Free(s) == jobs[s] = NoJob

\* `tmdb_view`: what Settings shows.  Its fields and buttons are disabled while
\* busy; Check again and Remove are there with a token only.
TmdbView ==
  [tone |-> CASE credential = "Valid" -> "ok"
              [] credential = "Offline" -> "warning"
              [] credential \in {"Invalid", "StorageUnavailable"} -> "error"
              [] credential \in {"Loading", "Missing", "Checking"} -> "",
   hasToken |-> token # NoToken,
   busy |-> credential \in {"Loading", "Checking"}]

Busy == TmdbView.busy

\* `from_check`; "Offline" also stands for a rate limit and TMDB's own
\* trouble: the token could not be checked.
FromCheck(verdict) ==
  CASE verdict = "ok" -> "Valid"
    [] verdict = "rejected" -> "Invalid"
    [] verdict = "offline" -> "Offline"
-----------------------------------------------------------------------------
\* What each variable holds; a request to TMDB always carries a token.
TypeOK ==
  /\ keyring \in Tokens \cup {NoToken}
  /\ revoked \subseteq Tokens
  /\ token \in Tokens \cup {NoToken}
  /\ credential \in Status
  /\ requested \in BOOLEAN
  /\ jobs \in [Slots -> {NoJob} \cup StoreJob \cup TmdbJob \cup SaveJob]
  /\ sessions \in 1..MaxSessions
  /\ accepted \subseteq Tokens
  /\ answered \in BOOLEAN

\* `start`: the window opens and the saved token is read in the background.
OnlyLoad(js) == \E s \in Slots : js = [r \in Slots |-> IF r = s THEN Queued("load") ELSE NoJob]

Init ==
  /\ keyring \in Tokens \cup {NoToken}
  /\ revoked = {}
  /\ token = NoToken /\ credential = "Loading"
  /\ requested = FALSE /\ answered = FALSE
  /\ OnlyLoad(jobs)
  /\ sessions = 1
  /\ accepted = {keyring} \ {NoToken}
-----------------------------------------------------------------------------
\* On a worker: `SecretStore::load`.  The token found is validated next.
ReadStore(s) ==
  /\ jobs[s].kind = "load" /\ jobs[s].stage = "queued"
  /\ \/ jobs' = [jobs EXCEPT ![s].stage = "unavailable"]
     \/ /\ keyring = NoToken
        /\ jobs' = [jobs EXCEPT ![s].stage = "missing"]
     \/ /\ keyring # NoToken
        /\ jobs' = [jobs EXCEPT ![s] = Request("load", keyring)]
  /\ UNCHANGED <<keyring, revoked, token, credential, requested, sessions, accepted, answered>>

\* Mutant of AfterVerdict: a token that could not be checked is saved.
SavedUnlessRejected(kind, verdict) ==
  IF kind = "save" /\ verdict # "rejected" THEN "saving" ELSE verdict

\* Only an accepted candidate goes on to the store.
AfterVerdict(kind, verdict) ==
  IF kind = "save" /\ verdict = "ok" THEN "saving" ELSE verdict

\* On a worker: TMDB answers a request made with the job's token, or nothing
\* usable comes back.
Validate(s) ==
  /\ jobs[s].stage = "validating"
  /\ \E verdict \in (IF jobs[s].token \in revoked THEN {"rejected"} ELSE {"ok"})
                       \cup {"offline"} :
       /\ jobs' = [jobs EXCEPT ![s].stage = AfterVerdict(jobs[s].kind, verdict)]
       /\ accepted' = IF verdict = "ok" THEN accepted \cup {jobs[s].token} ELSE accepted
  /\ UNCHANGED <<keyring, revoked, token, credential, requested, sessions, answered>>

\* On a worker: `SecretStore::save` of the validated candidate.
WriteStore(s) ==
  /\ jobs[s].stage = "saving"
  /\ \/ /\ keyring' = jobs[s].token
        /\ jobs' = [jobs EXCEPT ![s].stage = "ok"]
     \/ /\ UNCHANGED keyring
        /\ jobs' = [jobs EXCEPT ![s].stage = "unavailable"]
  /\ UNCHANGED <<revoked, token, credential, requested, sessions, accepted, answered>>

\* On a worker: `SecretStore::delete`.
DeleteEntry(s) ==
  /\ jobs[s].kind = "delete" /\ jobs[s].stage = "queued"
  /\ \/ /\ keyring' = NoToken
        /\ jobs' = [jobs EXCEPT ![s].stage = "ok"]
     \/ /\ UNCHANGED keyring
        /\ jobs' = [jobs EXCEPT ![s].stage = "unavailable"]
  /\ UNCHANGED <<revoked, token, credential, requested, sessions, accepted, answered>>

Work(s) == ReadStore(s) \/ Validate(s) \/ WriteStore(s) \/ DeleteEntry(s)
-----------------------------------------------------------------------------
\* Searches sent before the token changed are answered in vain: their
\* generation is over, so they are forgotten here.
Searchless == [s \in Slots |-> IF jobs[s].kind = "search" THEN NoJob ELSE jobs[s]]

\* `fetch_image_base`, once per session; slot s has just been freed.
FetchImageBase(s, t) ==
  /\ requested' = TRUE
  /\ jobs' = [Searchless EXCEPT ![s] = IF requested THEN NoJob ELSE Request("base", t)]

\* `loaded`: a token that was found is used, whatever TMDB says of it.
Loaded(s) ==
  /\ Done(s, "load")
  /\ IF credential = "Loading" /\ jobs[s].stage \in Verdicts
     THEN /\ token' = jobs[s].token
          /\ credential' = FromCheck(jobs[s].stage)
          /\ IF jobs[s].stage = "ok" THEN FetchImageBase(s, token')
             ELSE jobs' = [Searchless EXCEPT ![s] = NoJob] /\ UNCHANGED requested
     ELSE /\ credential' = IF credential # "Loading" THEN credential
                           ELSE IF jobs[s].stage = "missing" THEN "Missing"
                           ELSE "StorageUnavailable"
          /\ jobs' = [jobs EXCEPT ![s] = NoJob]
          /\ UNCHANGED <<token, requested>>
  /\ UNCHANGED <<keyring, revoked, sessions, accepted, answered>>

\* Mutant of Saved: a refused candidate changes the note only.
SavedOrNoted(s) ==
  /\ Done(s, "save")
  /\ IF jobs[s].stage = "ok"
     THEN /\ token' = jobs[s].token
          /\ credential' = "Valid"
          /\ FetchImageBase(s, token')
     ELSE /\ UNCHANGED <<token, credential, requested>>
          /\ jobs' = [jobs EXCEPT ![s] = NoJob]
  /\ UNCHANGED <<keyring, revoked, sessions, accepted, answered>>

\* `saved`: the candidate is used once it is stored, and only then.
Saved(s) ==
  /\ Done(s, "save")
  /\ IF jobs[s].stage = "ok"
     THEN /\ token' = jobs[s].token
          /\ credential' = "Valid"
          /\ FetchImageBase(s, token')
     ELSE /\ credential' = IF jobs[s].stage = "unavailable" THEN "StorageUnavailable"
                           ELSE FromCheck(jobs[s].stage)
          /\ jobs' = [jobs EXCEPT ![s] = NoJob]
          /\ UNCHANGED <<token, requested>>
  /\ UNCHANGED <<keyring, revoked, sessions, accepted, answered>>

\* Mutant of Checked: the verdict is shown whatever token is in use by now.
CheckedAnyway(s) ==
  /\ Done(s, "check")
  /\ credential' = FromCheck(jobs[s].stage)
  /\ jobs' = [jobs EXCEPT ![s] = NoJob]
  /\ UNCHANGED <<keyring, revoked, token, requested, sessions, accepted, answered>>

\* The end of `check`: a verdict about the token that is still in use.
Checked(s) ==
  /\ Done(s, "check")
  /\ credential' = IF token = jobs[s].token THEN FromCheck(jobs[s].stage) ELSE credential
  /\ jobs' = [jobs EXCEPT ![s] = NoJob]
  /\ UNCHANGED <<keyring, revoked, token, requested, sessions, accepted, answered>>

\* The end of `remove`.
Deleted(s) ==
  /\ Done(s, "delete")
  /\ credential' = IF jobs[s].stage = "ok" THEN credential ELSE "StorageUnavailable"
  /\ jobs' = [jobs EXCEPT ![s] = NoJob]
  /\ UNCHANGED <<keyring, revoked, token, requested, sessions, accepted, answered>>

\* The end of `fetch_image_base`: a failure allows another request.
ImageBase(s) ==
  /\ Done(s, "base")
  /\ requested' = (jobs[s].stage = "ok")
  /\ answered' = (answered \/ jobs[s].stage = "ok")
  /\ jobs' = [jobs EXCEPT ![s] = NoJob]
  /\ UNCHANGED <<keyring, revoked, token, credential, sessions, accepted>>

\* `searched`, for a search of the current generation.
Searched(s) ==
  /\ Done(s, "search")
  /\ credential' = IF jobs[s].stage = "rejected" THEN "Invalid" ELSE credential
  /\ jobs' = [jobs EXCEPT ![s] = NoJob]
  /\ UNCHANGED <<keyring, revoked, token, requested, sessions, accepted, answered>>

\* `check` of the token in use, busy or not.
Check(s) ==
  IF token = NoToken
  THEN jobs' = [jobs EXCEPT ![s] = NoJob] /\ UNCHANGED credential
  ELSE /\ credential' = "Checking"
       /\ jobs' = [jobs EXCEPT ![s] = Request("check", token)]

\* `remote_failure` in refresh.rs: a rejected automatic request, perhaps made
\* with an earlier token, has the current one checked; an unwanted answer
\* changes nothing.
RefreshAnswered(s) ==
  /\ Done(s, "refresh")
  /\ \/ jobs[s].stage = "rejected" /\ Check(s)
     \/ jobs' = [jobs EXCEPT ![s] = NoJob] /\ UNCHANGED credential
  /\ UNCHANGED <<keyring, revoked, token, requested, sessions, accepted, answered>>

Deliver(s) ==
  \/ Loaded(s) \/ Saved(s) \/ Checked(s) \/ Deleted(s) \/ ImageBase(s)
  \/ Searched(s) \/ RefreshAnswered(s)
-----------------------------------------------------------------------------
\* Mutant of Save: the field and the button stay enabled.
SaveAnytime(s, t) ==
  /\ Free(s)
  /\ credential' = "Checking"
  /\ jobs' = [jobs EXCEPT ![s] = Request("save", t)]
  /\ UNCHANGED <<keyring, revoked, token, requested, sessions, accepted, answered>>

\* "Validate and save" with pasted text that looks like a token.
Save(s, t) ==
  /\ Free(s) /\ ~Busy
  /\ credential' = "Checking"
  /\ jobs' = [jobs EXCEPT ![s] = Request("save", t)]
  /\ UNCHANGED <<keyring, revoked, token, requested, sessions, accepted, answered>>

\* "Check again".
CheckAgain(s) ==
  /\ Free(s) /\ ~Busy /\ TmdbView.hasToken
  /\ Check(s)
  /\ UNCHANGED <<keyring, revoked, token, requested, sessions, accepted, answered>>

\* "Remove token": stop using it at once, then delete the entry.
Remove(s) ==
  /\ Free(s) /\ ~Busy /\ TmdbView.hasToken
  /\ token' = NoToken /\ credential' = "Missing"
  /\ jobs' = [Searchless EXCEPT ![s] = Queued("delete")]
  /\ UNCHANGED <<keyring, revoked, requested, sessions, accepted, answered>>

\* Discover or the automatic refresh sends a request; one of each at a time.
SendRequest(s, kind) ==
  /\ Free(s) /\ token # NoToken
  /\ kind \in {"search", "refresh"} /\ Out(kind) = {}
  /\ jobs' = [jobs EXCEPT ![s] = Request(kind, token)]
  /\ UNCHANGED <<keyring, revoked, token, credential, requested, sessions, accepted, answered>>

\* The user revokes a token at TMDB, or it expires.
Revoke(t) ==
  /\ t \notin revoked
  /\ revoked' = revoked \cup {t}
  /\ UNCHANGED <<keyring, token, credential, requested, jobs, sessions, accepted, answered>>

\* The process ends, at any time, and is started again: what is on a worker
\* is abandoned, the entry in the store stays.
Restart ==
  /\ sessions < MaxSessions
  /\ sessions' = sessions + 1
  /\ token' = NoToken /\ credential' = "Loading"
  /\ requested' = FALSE /\ answered' = FALSE
  /\ OnlyLoad(jobs')
  /\ UNCHANGED <<keyring, revoked, accepted>>

Next ==
  \/ \E s \in Slots : Work(s) \/ Deliver(s)
  \/ \E s \in Slots, t \in Tokens : Save(s, t)
  \/ \E s \in Slots : CheckAgain(s)
  \/ \E s \in Slots : Remove(s)
  \/ \E s \in Slots, kind \in {"search", "refresh"} : SendRequest(s, kind)
  \/ \E t \in Tokens : Revoke(t)
  \/ Restart

Spec == Init /\ [][Next]_vars

\* Every store call returns and every request is answered or times out; the
\* event loop delivers each result.
Fairness == \A s \in Slots : WF_vars(Work(s)) /\ WF_vars(Deliver(s))
FairSpec == Spec /\ Fairness
-----------------------------------------------------------------------------
\* The spinner has a reason, so Settings' buttons come back: while the status
\* says it is reading the store, the read is on its way and nothing answers
\* before it; while it says checking, a save or a check of the token in use is
\* on its way, whatever searches and refreshes did to the status meanwhile.
BusyHasReason ==
  /\ credential = "Loading" <=> Out("load") # {}
  /\ credential = "Checking" =>
       Out("save") # {} \/ \E s \in Out("check") : jobs[s].token = token

\* The status agrees with the token in use: "Connected" only with one, "Not
\* connected" and "Reading the saved token" only without, although verdicts
\* about tokens that were replaced or removed keep arriving.
StatusAgrees ==
  /\ TmdbView.tone = "ok" => TmdbView.hasToken
  /\ credential \in {"Missing", "Loading"} => token = NoToken

\* README.md:115-118: only a token TMDB accepted is saved or used, whatever
\* failed or was interrupted on the way.
KeptWasAccepted == {keyring, token} \ {NoToken} \subseteq accepted

\* The image base URL is asked for once per session: never twice at a time,
\* never again after it was answered, though each save may ask.
ImageBaseOnce ==
  /\ \A r, s \in Out("base") : r = s
  /\ Out("base") # {} => requested /\ ~answered

\* Settings is not busy forever.
BusyEnds == Busy ~> ~Busy

-----------------------------------------------------------------------------
\* The inductive invariant.  Until the store was read there is no token, and
\* nothing else has been asked of the pool.
LoadFirst ==
  /\ \A r, s \in Out("load") : r = s
  /\ credential = "Loading" => \A s \in Slots : jobs[s].kind \in {"none", "load"}

\* The tokens on the way to the UI thread as "found" or "saved", too.
AcceptedOnTheWay ==
  \A s \in Slots :
    \/ jobs[s].kind = "load" /\ jobs[s].token # NoToken
    \/ jobs[s].kind = "save" /\ jobs[s].stage \in {"saving", "ok", "unavailable"}
    => jobs[s].token \in accepted

CredentialInv ==
  /\ TypeOK /\ LoadFirst /\ BusyHasReason /\ StatusAgrees
  /\ KeptWasAccepted /\ AcceptedOnTheWay
  /\ ImageBaseOnce /\ (answered => requested)
=============================================================================
