------------------------------ MODULE Profile ------------------------------
(***************************************************************************)
(* One user profile: the database file, the lock beside it, and the        *)
(* backups made from it, used by several copies of the program that start, *)
(* stop and crash (profile_lock.rs, database.rs, backup.rs, backup_page.rs *)
(* and the startup in main.rs).                                            *)
(*                                                                         *)
(* A callback runs on the UI thread from start to end, but the process may *)
(* die at any point of it and other processes run meanwhile: opening,      *)
(* exporting and restoring are one action per step that the disk can see.  *)
(* Nobody but this program removes a backup file.                          *)
(***************************************************************************)
EXTENDS Integers

CONSTANTS
  Processes,
  Releases,     \* the schema versions the installed programs support
  Libraries,    \* what the eleven tables may hold
  Empty,        \* the library without any row
  Edits,        \* the pairs <<before, after>> one ordinary change may make
  UserPaths,    \* names the save dialog may return
  SafetyPaths,  \* names of pre-restore copies; each is used once
  Absent, Damaged, Other,  \* no file; an incomplete one; not a backup
  None          \* no process, no transaction, no job, nothing selected

Paths == UserPaths \cup SafetyPaths
Contents == Libraries \cup {Absent, Damaged, Other}

ASSUME ProfileAssumption ==
  /\ Releases \subseteq Nat \ {0}
  /\ Empty \in Libraries /\ Edits \subseteq Libraries \X Libraries
  /\ Libraries \cap {Absent, Damaged, Other, None} = {}
  /\ None \notin Processes \cup [by : Processes, schema : Nat, rows : Libraries]
                           \cup [path : Paths, data : Libraries, restore : BOOLEAN]
  /\ Absent \notin {Damaged, Other} /\ Damaged # Other

VARIABLES
  ours,     \* the file is empty or carries Bingee's application id
  schema,   \* how many migration steps its tables have gone through
  version,  \* its user_version
  rows,     \* the contents of the eleven tables
  tx,       \* the write transaction, None or [by, schema, rows]
  lock,     \* the process that holds bingee.lock
  files,    \* backup files, by path
  at,       \* what each process is doing
  release,  \* the schema version its program supports
  job,      \* the export under way, None or [path, data, restore]
  pending   \* the checked backup that Restore would apply

file == <<ours, schema, version, rows>>
vars == <<ours, schema, version, rows, tx, lock, files, at, release, job, pending>>
-----------------------------------------------------------------------------
Idle == {"off", "closed", "open"}
Saving == {"saving", "saved", "copying"}
Writing == {"migrating", "emptied", "filled"}  \* with the transaction open
Restoring == {"kept", "emptied", "filled"}

\* Each step leaves behind exactly what its successor expects: a transaction
\* or an export is recorded only while its process is at work on it.
TypeOK ==
  /\ ours \in BOOLEAN /\ schema \in Nat /\ version \in Nat /\ rows \in Libraries
  /\ lock \in Processes \cup {None}
  /\ files \in [Paths -> Contents]
  /\ at \in [Processes -> Idle \cup Saving \cup Restoring \cup Writing]
  /\ release \in [Processes -> Releases]
  /\ \/ tx = None
     \/ /\ tx \in [by : Processes, schema : Nat, rows : Libraries]
        /\ at[tx.by] \in Writing
  /\ job \in [Processes -> {None} \cup [path : Paths, data : Libraries, restore : BOOLEAN]]
  /\ pending \in [Processes -> Libraries \cup {None}]
  /\ \A p \in Processes : job[p] = None <=> at[p] \notin Saving \cup Restoring

Init ==
  /\ ours \in BOOLEAN
  /\ version \in {0} \cup Releases /\ schema = version
  /\ rows \in IF version = 0 THEN {Empty} ELSE Libraries
  /\ tx = None /\ lock = None
  /\ files \in {f \in [Paths -> Libraries \cup {Absent}] : \A q \in SafetyPaths : f[q] = Absent}
  /\ at = [p \in Processes |-> "off"]
  /\ release \in [Processes -> Releases]
  /\ job = [p \in Processes |-> None] /\ pending = [p \in Processes |-> None]

Goes(p, place) == at' = [at EXCEPT ![p] = place]
-----------------------------------------------------------------------------
(* Startup and end. *)

\* Any installed release may be the one that is started.
Start(p) ==
  /\ at[p] = "off" /\ Goes(p, "closed")
  /\ \E v \in Releases : release' = [release EXCEPT ![p] = v]
  /\ UNCHANGED <<file, tx, lock, files, job, pending>>

\* Mutant of Lockable: the lock file is opened but not locked.
LockableAlways(p) == TRUE

\* `ProfileLock::acquire`, skipped when an earlier attempt already has it.
Lockable(p) == lock \in {None, p}

\* Mutant of Refused: the version is not compared.
RefusedForeign(p) == ~ours

\* `migrate` refuses the file without writing to it.
Refused(p) == ~ours \/ version > release[p]

\* `load_library` at startup and on Try again. With the lock taken by another
\* process the error page stays and nothing changes.
OpenLibrary(p) ==
  /\ at[p] = "closed" /\ Lockable(p) /\ tx = None
  /\ lock' = p
  /\ \/ Refused(p) /\ UNCHANGED <<tx, at>>
     \/ ~Refused(p) /\ version = release[p] /\ Goes(p, "open") /\ UNCHANGED tx
     \/ /\ ~Refused(p) /\ version # release[p] /\ Goes(p, "migrating")
        /\ tx' = [by |-> p, schema |-> schema, rows |-> rows]
  /\ UNCHANGED <<file, files, release, job, pending>>

MigrateStep(p) ==
  /\ at[p] = "migrating" /\ tx.schema < release[p]
  /\ tx' = [tx EXCEPT !.schema = @ + 1]
  /\ UNCHANGED <<file, lock, files, at, release, job, pending>>

MigrateCommit(p) ==
  /\ at[p] = "migrating" /\ tx.schema >= release[p]
  /\ schema' = tx.schema /\ version' = release[p] /\ rows' = tx.rows
  /\ tx' = None /\ Goes(p, "open")
  /\ UNCHANGED <<ours, lock, files, release, job, pending>>

\* A step or the commit fails: the transaction is dropped, the lock is kept.
MigrateFails(p) ==
  /\ at[p] = "migrating"
  /\ tx' = None /\ Goes(p, "closed")
  /\ UNCHANGED <<file, lock, files, release, job, pending>>

\* Quit, or a crash at any step: the system drops the lock, SQLite rolls the
\* transaction back, files stay as they are.
Leave(p) ==
  /\ at[p] # "off" /\ Goes(p, "off")
  /\ lock' = IF lock = p THEN None ELSE lock
  /\ tx' = IF at[p] \in Writing THEN None ELSE tx
  /\ job' = [job EXCEPT ![p] = None] /\ pending' = [pending EXCEPT ![p] = None]
  /\ UNCHANGED <<file, files, release>>
-----------------------------------------------------------------------------
(* Ordinary use. *)

\* Any other callback that writes, in one transaction.
Change(p) ==
  /\ at[p] = "open" /\ tx = None
  /\ \E r \in Libraries : <<rows, r>> \in Edits /\ rows' = r
  /\ UNCHANGED <<ours, schema, version, tx, lock, files, at, release, job, pending>>

\* Another program creates a file where the user keeps backups.
OtherFile(q) ==
  /\ files[q] = Absent /\ files' = [files EXCEPT ![q] = Other]
  /\ UNCHANGED <<file, tx, lock, at, release, job, pending>>
-----------------------------------------------------------------------------
(* Export: `export_to_path`. *)

\* The path is free; the snapshot is read; the temporary file is created.
ExportTo(p, q, restore) ==
  /\ files[q] = Absent
  /\ job' = [job EXCEPT ![p] = [path |-> q, data |-> rows, restore |-> restore]]
  /\ Goes(p, "saving")
  /\ UNCHANGED <<file, tx, lock, files, release, pending>>

Export(p) == at[p] = "open" /\ \E q \in UserPaths : ExportTo(p, q, FALSE)

\* `confirm`: the copy of the current data first, beside the database.
Confirm(p) ==
  /\ at[p] = "open" /\ pending[p] # None
  /\ \E q \in SafetyPaths : ExportTo(p, q, TRUE)

\* The temporary file is written and synced.
WriteTemp(p) ==
  /\ at[p] = "saving" /\ Goes(p, "saved")
  /\ UNCHANGED <<file, tx, lock, files, release, job, pending>>

\* A step of the export fails, or the name has been taken meanwhile: the
\* temporary file is removed, the selected backup stays selected.
ExportFails(p) ==
  /\ at[p] \in {"saving", "saved"} /\ Goes(p, "open")
  /\ job' = [job EXCEPT ![p] = None]
  /\ UNCHANGED <<file, tx, lock, files, release, pending>>

\* The file has its final name: an export ends, a restore goes on.
Saved(p) ==
  IF job[p].restore THEN Goes(p, "kept") /\ UNCHANGED job
  ELSE Goes(p, "open") /\ job' = [job EXCEPT ![p] = None]

\* `finalize` with hard links.
Link(p) ==
  /\ at[p] = "saved" /\ files[job[p].path] = Absent
  /\ files' = [files EXCEPT ![job[p].path] = job[p].data]
  /\ Saved(p)
  /\ UNCHANGED <<file, tx, lock, release, pending>>

\* `copy_new`, where hard links are not supported: created exclusively, then
\* filled.
CopyStart(p) ==
  /\ at[p] = "saved" /\ files[job[p].path] = Absent
  /\ files' = [files EXCEPT ![job[p].path] = Damaged]
  /\ Goes(p, "copying")
  /\ UNCHANGED <<file, tx, lock, release, job, pending>>

CopyEnd(p) ==
  /\ at[p] = "copying"
  /\ files' = [files EXCEPT ![job[p].path] = job[p].data]
  /\ Saved(p)
  /\ UNCHANGED <<file, tx, lock, release, pending>>

CopyFails(p) ==
  /\ at[p] = "copying" /\ Goes(p, "open")
  /\ files' = [files EXCEPT ![job[p].path] = Absent]
  /\ job' = [job EXCEPT ![p] = None]
  /\ UNCHANGED <<file, tx, lock, release, pending>>
-----------------------------------------------------------------------------
(* Restore. *)

\* `select`: what was selected is forgotten; a file is kept only if it can be
\* read and passes `validate`.
Select(p) ==
  /\ at[p] = "open"
  /\ \E q \in Paths :
       pending' = [pending EXCEPT ![p] = IF files[q] \in Libraries THEN files[q] ELSE None]
  /\ UNCHANGED <<file, tx, lock, files, at, release, job>>

\* `restore` begins its transaction and deletes every row in it.
Delete(p) ==
  /\ at[p] = "kept" /\ tx = None
  /\ tx' = [by |-> p, schema |-> schema, rows |-> Empty]
  /\ Goes(p, "emptied")
  /\ UNCHANGED <<file, lock, files, release, job, pending>>

Insert(p) ==
  /\ at[p] = "emptied" /\ Goes(p, "filled")
  /\ tx' = [tx EXCEPT !.rows = pending[p]]
  /\ UNCHANGED <<file, lock, files, release, job, pending>>

\* Checked and committed; the selection is cleared.
RestoreCommit(p) ==
  /\ at[p] = "filled" /\ Goes(p, "open")
  /\ rows' = tx.rows /\ tx' = None
  /\ job' = [job EXCEPT ![p] = None] /\ pending' = [pending EXCEPT ![p] = None]
  /\ UNCHANGED <<ours, schema, version, lock, files, release>>

\* Mutant of RestoreFails: the error return forgets the transaction.
RestoreFailsOpen(p) ==
  /\ at[p] \in Restoring /\ Goes(p, "open")
  /\ job' = [job EXCEPT ![p] = None]
  /\ UNCHANGED <<file, tx, lock, files, release, pending>>

\* Any statement, check or the commit fails: rolled back, still selected.
RestoreFails(p) ==
  /\ at[p] \in Restoring /\ Goes(p, "open")
  /\ tx' = IF at[p] = "kept" THEN tx ELSE None
  /\ job' = [job EXCEPT ![p] = None]
  /\ UNCHANGED <<file, lock, files, release, pending>>
-----------------------------------------------------------------------------
Startup(p) == \/ Start(p) \/ OpenLibrary(p) \/ Leave(p)
              \/ MigrateStep(p) \/ MigrateCommit(p) \/ MigrateFails(p)
Exports(p) == \/ Export(p) \/ WriteTemp(p) \/ ExportFails(p) \/ Link(p)
              \/ CopyStart(p) \/ CopyEnd(p) \/ CopyFails(p)
Restores(p) == \/ Select(p) \/ Confirm(p) \/ Delete(p) \/ Insert(p)
               \/ RestoreCommit(p) \/ RestoreFails(p)

Next ==
  \/ \E p \in Processes : Startup(p) \/ Change(p) \/ Exports(p) \/ Restores(p)
  \/ \E q \in UserPaths : OtherFile(q)

Spec == Init /\ [][Next]_vars
-----------------------------------------------------------------------------
\* Whatever interrupts a migration, the file's tables are those of the version
\* it claims: all steps and user_version are one transaction.
SchemaIsWhole ==
  /\ schema = version
  /\ \A p \in Processes : at[p] = "migrating" => tx.schema <= release[p] /\ tx.rows = rows

\* Whoever is past the startup page holds the profile lock, and its release may
\* write the file; an open transaction is that process's own. A process that is
\* gone holds no lock.
LockIsHeld ==
  \A p \in Processes :
    /\ at[p] \notin {"off", "closed"} => lock = p /\ ours /\ version <= release[p]
    /\ at[p] = "off" => lock # p
    /\ at[p] \in Writing <=> tx # None /\ tx.by = p

\* From the snapshot to the commit of the restore it precedes, nothing changes
\* the data the copy was taken of; a copy under way is not yet a backup, and
\* when the deletion begins the copy is complete.
CopyIsCurrent ==
  \A p \in Processes :
    /\ at[p] \in Saving \cup Restoring => job[p].data = rows
    /\ at[p] = "copying" => files[job[p].path] = Damaged
    /\ at[p] \in Restoring => job[p].restore /\ files[job[p].path] = rows

\* What would be restored is the contents of a complete backup.
SelectionIsBackup ==
  \A p \in Processes :
    /\ pending[p] # None => \E q \in Paths : files[q] = pending[p]
    /\ at[p] \in Saving \cup Restoring /\ job[p].restore => pending[p] # None
    /\ at[p] = "filled" => tx.rows = pending[p]

\* The state never shows a step half-done: the inductive invariant behind the
\* two properties below.
Consistent == TypeOK /\ SchemaIsWhole /\ LockIsHeld /\ CopyIsCurrent /\ SelectionIsBackup

\* The database file changes only by the hand of the process that holds the
\* profile lock, running a release that knows the file's version: an old
\* release, a foreign file and a second copy of the program leave it alone.
OnlyItsOwner ==
  [][file' # file => ours /\ \E p \in Processes : lock = p /\ version <= release[p]]_file

\* The promise of Custody, for whole files: an interrupted copy does not count.
Whole(c) == IF c = Damaged THEN Absent ELSE c

Promise == INSTANCE Custody WITH data <- rows, archive <- [q \in Paths |-> Whole(files[q])]

\* Through crashes, second copies of the program, failed steps and files that
\* appear meanwhile: an export saves the data as it is, no file is ever
\* overwritten, and a restore replaces the data in one step by a complete
\* backup, when a complete backup of the data it replaces exists.
KeepsCustody == Promise!Spec
=============================================================================
