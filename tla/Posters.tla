------------------------------ MODULE Posters ------------------------------
(***************************************************************************)
(* The poster service (poster.rs): a poster goes from TMDB to the disk     *)
(* cache to the RAM cache of decoded pixels to the rows. Rows ask on the   *)
(* UI thread, whenever they are read, and get what is in RAM; network      *)
(* workers read, download and write; each load's outcome is posted back to *)
(* the UI thread. The process may die at any step and be started again.    *)
(*                                                                         *)
(* Temporary files carry a name of their own and are never read: only the  *)
(* files with a poster's final name are modelled. The order in which the   *)
(* four workers take jobs is arbitrary.                                    *)
(***************************************************************************)
EXTENDS Integers, FiniteSets, SequencesExt

CONSTANTS
  Keys,        \* posters
  Size,        \* decoded bytes of each
  Budget,      \* RAM_BUDGET
  RetryAfter,  \* RETRY_AFTER
  MaxTime,     \* bound on the clock
  Referenced,  \* posters some media or season row names
  NoFailure, Never  \* not failed; failed for the rest of the session

ASSUME PostersAssumption ==
  /\ IsFiniteSet(Keys) /\ Size \in [Keys -> Nat \ {0}] /\ Budget \in Nat
  /\ RetryAfter \in Nat \ {0} /\ MaxTime \in Nat
  /\ NoFailure \notin Nat /\ Never \notin Nat /\ NoFailure # Never

VARIABLES
  running,   \* a process is up
  now,       \* the monotonic clock
  ram,       \* Lru::entries, least recently used first
  used,      \* Lru::used
  inFlight,  \* keys that are loading
  failed,    \* per key: NoFailure, Never, or when it may be tried again
  disk,      \* the file with the final name
  load,      \* the worker's side of each load
  last       \* TMDB's last answer in this session: NoFailure, Never, or when it failed

service == <<ram, used, inFlight, failed>>
posterVars == <<running, now, ram, used, inFlight, failed, disk, load, last>>
-----------------------------------------------------------------------------
Times == 0..MaxTime
Outcomes == {"loaded", "transient", "permanent"}

PostersTypeOK ==
  /\ running \in BOOLEAN /\ now \in Times
  /\ ram \in Seq(Keys) /\ used \in Nat
  /\ inFlight \subseteq Keys
  /\ failed \in [Keys -> {NoFailure, Never} \cup (0..(MaxTime + RetryAfter))]
  /\ disk \in [Keys -> {"absent", "whole", "partial", "damaged"}]
  /\ load \in [Keys -> {"idle", "queued", "download", "decoded", "writing", "written"} \cup Outcomes]
  /\ last \in [Keys -> {NoFailure, Never} \cup Times]

AllKeys(value) == [k \in Keys |-> value]

\* The cache folder is as earlier sessions left it.
PostersInit ==
  /\ running = FALSE /\ now = 0
  /\ ram = <<>> /\ used = 0 /\ inFlight = {} /\ failed = AllKeys(NoFailure)
  /\ load = AllKeys("idle") /\ last = AllKeys(NoFailure)
  /\ disk \in [Keys -> {"absent", "whole"}]
-----------------------------------------------------------------------------
Step(k, stage) == load' = [load EXCEPT ![k] = stage]

\* Mutant of Blocked: a poster that is loading is not remembered.
BlockedFailed(k) == failed[k] = Never \/ (failed[k] \in Nat /\ now < failed[k])

\* `image` starts no load for a key that is loading or failed lately.
Blocked(k) == failed[k] = Never \/ (failed[k] \in Nat /\ now < failed[k]) \/ k \in inFlight

\* `Lru::get`: the first entry with the key is removed and pushed again, the
\* most recently used.
Touched(k) ==
  LET index == Min({i \in DOMAIN ram : ram[i] = k})
  IN  Append(RemoveAt(ram, index), ram[index])

\* `Posters::image`, for a row that is read.
Image(k) ==
  /\ running
  /\ IF k \in Range(ram)
     THEN /\ ram' = Touched(k)
          /\ UNCHANGED <<inFlight, load>>
     ELSE /\ ~Blocked(k)
          /\ inFlight' = inFlight \cup {k} /\ Step(k, "queued")
          /\ UNCHANGED ram
  /\ UNCHANGED <<running, now, used, failed, disk, last>>

\* `DiskCache::read`: a file that decodes is the poster; one that does not is
\* removed.
ReadDisk(k) ==
  /\ load[k] = "queued"
  /\ CASE disk[k] = "whole" -> Step(k, "loaded") /\ UNCHANGED disk
       [] disk[k] = "absent" -> Step(k, "download") /\ UNCHANGED disk
       [] OTHER -> /\ disk' = [disk EXCEPT ![k] = "absent"] /\ Step(k, "download")
  /\ UNCHANGED <<running, now, service, last>>

\* The folder or the file cannot be read: the network serves the poster.
ReadFails(k) ==
  /\ load[k] = "queued" /\ Step(k, "download")
  /\ UNCHANGED <<running, now, service, disk, last>>

\* `get_image` and `decode`: an image; or 404, or bytes that are no image
\* (permanent); or any other failure (transient).
Download(k) ==
  /\ load[k] = "download"
  /\ \E result \in Outcomes :
       /\ Step(k, IF result = "loaded" THEN "decoded" ELSE result)
       /\ last' = [last EXCEPT ![k] = CASE result = "loaded" -> NoFailure
                                        [] result = "permanent" -> Never
                                        [] result = "transient" -> now]
  /\ UNCHANGED <<running, now, service, disk>>

\* `DiskCache::write`: a temporary file is created,
CreateTemp(k) ==
  /\ load[k] = "decoded" /\ Step(k, "writing")
  /\ UNCHANGED <<running, now, service, disk, last>>

\* written to the end and synced,
SyncTemp(k) ==
  /\ load[k] = "writing" /\ Step(k, "written")
  /\ UNCHANGED <<running, now, service, disk, last>>

Temp(k) == IF load[k] = "written" THEN "whole" ELSE "partial"

\* Mutant of Rename: the file is renamed as soon as it exists.
RenameEarly(k) ==
  /\ load[k] \in {"writing", "written"} /\ Step(k, "loaded")
  /\ disk' = [disk EXCEPT ![k] = Temp(k)]
  /\ UNCHANGED <<running, now, service, last>>

\* and gets the final name.
Rename(k) ==
  /\ load[k] = "written" /\ Step(k, "loaded")
  /\ disk' = [disk EXCEPT ![k] = Temp(k)]
  /\ UNCHANGED <<running, now, service, last>>

\* The disk is full, or the temporary file was swept: the poster is shown all
\* the same.
WriteFails(k) ==
  /\ load[k] \in {"decoded", "writing", "written"} /\ Step(k, "loaded")
  /\ UNCHANGED <<running, now, service, disk, last>>
-----------------------------------------------------------------------------
Bytes(entries) == LET sum[i \in 0..Len(entries)] == IF i = 0 THEN 0 ELSE sum[i - 1] + Size[entries[i]]
                  IN  sum[Len(entries)]

\* Mutant of Kept: the size of the new entry is left out of the comparison.
KeptUncounted(k) == ram

\* `Lru::insert`: entries go from the front until the new one fits.
Kept(k) ==
  LET fits(n) == Bytes(SubSeq(ram, 1, n)) >= used + Size[k] - Budget
      evicted == CHOOSE n \in 0..Len(ram) : fits(n) /\ \A m \in 0..(n - 1) : ~fits(m)
  IN  SubSeq(ram, evicted + 1, Len(ram))

Insert(k) ==
  IF Size[k] > Budget \/ k \in Range(ram) THEN UNCHANGED <<ram, used>>
  ELSE /\ ram' = Append(Kept(k), k)
       /\ used' = used - (Bytes(ram) - Bytes(Kept(k))) + Size[k]

\* Mutant of Arrived: only a poster that came ends its load.
ArrivedLoaded(k) ==
  /\ running /\ load[k] \in Outcomes
  /\ Step(k, "idle")
  /\ IF load[k] = "loaded"
     THEN Insert(k) /\ failed' = [failed EXCEPT ![k] = NoFailure] /\ inFlight' = inFlight \ {k}
     ELSE /\ failed' = [failed EXCEPT ![k] = IF load[k] = "permanent" THEN Never ELSE now + RetryAfter]
          /\ UNCHANGED <<ram, used, inFlight>>
  /\ UNCHANGED <<running, now, disk, last>>

\* `Posters::arrived`. The rows that show the poster are then read again,
\* which is `Image`.
Arrived(k) ==
  /\ running /\ load[k] \in Outcomes
  /\ Step(k, "idle")
  /\ inFlight' = inFlight \ {k}
  /\ IF load[k] = "loaded"
     THEN Insert(k) /\ failed' = [failed EXCEPT ![k] = NoFailure]
     ELSE /\ failed' = [failed EXCEPT ![k] = IF load[k] = "permanent" THEN Never ELSE now + RetryAfter]
          /\ UNCHANGED <<ram, used>>
  /\ UNCHANGED <<running, now, disk, last>>
-----------------------------------------------------------------------------
\* `Posters::new`. Sweeping old temporary files changes nothing else.
Launch ==
  /\ ~running /\ running' = TRUE
  /\ UNCHANGED <<now, service, disk, load, last>>

\* Quit or crash: loads are abandoned where they are.
Exit ==
  /\ running /\ running' = FALSE
  /\ ram' = <<>> /\ used' = 0 /\ inFlight' = {} /\ failed' = AllKeys(NoFailure)
  /\ load' = AllKeys("idle") /\ last' = AllKeys(NoFailure)
  /\ UNCHANGED <<now, disk>>

\* Posters that no media or season row names.
Unused == Keys \ Referenced

\* Storage cleanup: of the unused files those that nobody read for a month go; a
\* file that cannot be inspected or removed stays.
CleanUnused ==
  /\ running
  /\ \E K \in SUBSET Unused :
       disk' = [k \in Keys |-> IF k \in K THEN "absent" ELSE disk[k]]
  /\ UNCHANGED <<running, now, service, load, last>>

Tick ==
  /\ now < MaxTime /\ now' = now + 1
  /\ UNCHANGED <<running, service, disk, load, last>>

\* Something else damages the file.
Damage(k) ==
  /\ disk[k] = "whole" /\ disk' = [disk EXCEPT ![k] = "damaged"]
  /\ UNCHANGED <<running, now, service, load, last>>

Works(k) == \/ ReadDisk(k) \/ ReadFails(k) \/ Download(k)
            \/ CreateTemp(k) \/ SyncTemp(k) \/ Rename(k) \/ WriteFails(k)

PostersNext ==
  \/ \E k \in Keys : Image(k) \/ Works(k) \/ Arrived(k) \/ Damage(k)
  \/ Launch \/ Exit \/ CleanUnused \/ Tick

\* Workers and the event loop run; requests time out.
Fairness == \A k \in Keys : WF_posterVars(Works(k)) /\ WF_posterVars(Arrived(k))

PostersSpec == PostersInit /\ [][PostersNext]_posterVars /\ Fairness
-----------------------------------------------------------------------------
\* ADR-0012: the decoded pixels never exceed the budget, the running total is
\* exactly what the entries hold, and no poster is held twice, in whatever
\* order posters of any size arrive.
RamIsBounded ==
  /\ used <= Budget /\ used = Bytes(ram)
  /\ Cardinality(Range(ram)) = Len(ram)

\* No file that carries a final name is half-written, wherever the process
\* died (poster.rs:94-95).
FilesAreWhole == \A k \in Keys : disk[k] # "partial"

\* However often its rows are read, a poster is loaded by one worker at a time,
\* and after TMDB failed to give it, it is not asked for it again for a minute,
\* nor in this session after a definite failure. A disk write that failed is no
\* failure of TMDB's: that poster may be asked for again at once, although
\* ADR-0011:48 counts it among the failures retried after a minute.
AskedSparingly ==
  [][\A k \in Keys :
       /\ load[k] # "idle" => load'[k] # "queued" \/ load[k] = "queued"
       /\ load[k] # "download" /\ load'[k] = "download" =>
            last[k] = NoFailure \/ (last[k] \in Nat /\ now >= last[k] + RetryAfter)
    ]_posterVars

\* No key stays in in_flight: a poster that is loading is shown or has failed
\* in the end, or it could never be loaded again in the session.
LoadEnds == \A k \in Keys : k \in inFlight ~> k \notin inFlight
=============================================================================
