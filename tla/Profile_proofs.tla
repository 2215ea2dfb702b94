--------------------------- MODULE Profile_proofs ---------------------------
(***************************************************************************)
(* Proofs about Profile: Consistent is inductive, one lemma per action;    *)
(* from it, the database file changes only by its owner's hand, and the    *)
(* module implements Custody.                                              *)
(***************************************************************************)
EXTENDS Profile, TLAPS

\* What the assumption on the constants says, in the form the steps use.
LEMMA Distinct ==
  /\ \A l \in Libraries : l # None /\ l # Absent /\ l # Damaged /\ l # Other
  /\ \A p \in Processes : p # None
  /\ \A t \in [by : Processes, schema : Nat, rows : Libraries] : t # None
  /\ \A j \in [path : Paths, data : Libraries, restore : BOOLEAN] : j # None
  /\ Releases \subseteq Nat /\ Empty \in Libraries /\ Edits \subseteq Libraries \X Libraries
  /\ Absent # Damaged /\ Absent # Other /\ Damaged # Other
BY ProfileAssumption

\* The action Start keeps the profile consistent.
LEMMA StartKeeps ==
  ASSUME Consistent, NEW p \in Processes, Start(p)
  PROVE  Consistent'
<1> USE Distinct DEF Consistent, Goes, file, Idle, Saving, Writing, Restoring, Paths, Contents, Start
<1>0. TypeOK /\ SchemaIsWhole /\ LockIsHeld /\ CopyIsCurrent /\ SelectionIsBackup
  OBVIOUS
<1>1. TypeOK'
  BY <1>0 DEF TypeOK
<1>2. SchemaIsWhole'
  BY <1>0 DEF TypeOK, SchemaIsWhole
<1>3. LockIsHeld'
  BY <1>0 DEF TypeOK, LockIsHeld
<1>4. CopyIsCurrent'
  BY <1>0 DEF TypeOK, CopyIsCurrent
<1>5. SelectionIsBackup'
  BY <1>0 DEF TypeOK, SelectionIsBackup
<1> QED
  BY <1>1, <1>2, <1>3, <1>4, <1>5

\* The action OpenLibrary keeps the profile consistent.
LEMMA OpenLibraryKeeps ==
  ASSUME Consistent, NEW p \in Processes, OpenLibrary(p)
  PROVE  Consistent'
<1> USE Distinct DEF Consistent, Goes, file, Idle, Saving, Writing, Restoring, Paths, Contents, Lockable, Refused, OpenLibrary
<1>0. TypeOK /\ SchemaIsWhole /\ LockIsHeld /\ CopyIsCurrent /\ SelectionIsBackup
  OBVIOUS
<1>1. TypeOK'
  BY <1>0 DEF TypeOK
<1>2. SchemaIsWhole'
  BY <1>0 DEF TypeOK, LockIsHeld, SchemaIsWhole
<1>3. LockIsHeld'
  BY <1>0 DEF TypeOK, LockIsHeld
<1>4. CopyIsCurrent'
  BY <1>0 DEF TypeOK, CopyIsCurrent
<1>5. SelectionIsBackup'
  BY <1>0 DEF TypeOK, LockIsHeld, SelectionIsBackup
<1> QED
  BY <1>1, <1>2, <1>3, <1>4, <1>5

\* The action MigrateStep keeps the profile consistent.
LEMMA MigrateStepKeeps ==
  ASSUME Consistent, NEW p \in Processes, MigrateStep(p)
  PROVE  Consistent'
<1> USE Distinct DEF Consistent, Goes, file, Idle, Saving, Writing, Restoring, Paths, Contents, MigrateStep
<1>0. TypeOK /\ SchemaIsWhole /\ LockIsHeld /\ CopyIsCurrent /\ SelectionIsBackup
  OBVIOUS
<1>t. tx.by = p /\ tx.schema \in Nat /\ tx.rows \in Libraries
  BY <1>0 DEF TypeOK, LockIsHeld
<1>1. TypeOK'
  BY <1>0, <1>t DEF TypeOK, LockIsHeld
<1>2. SchemaIsWhole'
  BY <1>0, <1>t DEF TypeOK, LockIsHeld, SchemaIsWhole
<1>3. LockIsHeld'
  BY <1>0, <1>t DEF TypeOK, LockIsHeld
<1>4. CopyIsCurrent'
  BY <1>0, <1>t DEF TypeOK, CopyIsCurrent
<1>5. SelectionIsBackup'
  BY <1>0, <1>t DEF TypeOK, SelectionIsBackup
<1> QED
  BY <1>1, <1>2, <1>3, <1>4, <1>5

\* The action MigrateCommit keeps the profile consistent.
LEMMA MigrateCommitKeeps ==
  ASSUME Consistent, NEW p \in Processes, MigrateCommit(p)
  PROVE  Consistent'
<1> USE Distinct DEF Consistent, Goes, file, Idle, Saving, Writing, Restoring, Paths, Contents, MigrateCommit
<1>0. TypeOK /\ SchemaIsWhole /\ LockIsHeld /\ CopyIsCurrent /\ SelectionIsBackup
  OBVIOUS
<1>t. tx.by = p /\ tx.schema \in Nat /\ tx.rows \in Libraries
  BY <1>0 DEF TypeOK, LockIsHeld
<1>r. release[p] \in Nat
  BY <1>0 DEF TypeOK
<1>s. tx.schema <= release[p] /\ tx.schema >= release[p] /\ tx.rows = rows
  BY <1>0 DEF SchemaIsWhole
<1>v. tx.schema = release[p] /\ tx.rows = rows /\ release[p] \in Nat
  BY <1>t, <1>r, <1>s
<1>1. TypeOK'
  <2>1. /\ ours' \in BOOLEAN /\ schema' \in Nat /\ version' \in Nat /\ rows' \in Libraries
        /\ lock' \in Processes \cup {None} /\ files' \in [Paths -> Contents]
        /\ release' \in [Processes -> Releases]
    BY <1>0, <1>t, <1>v DEF TypeOK, CopyIsCurrent
  <2>2. at' \in [Processes -> Idle \cup Saving \cup Restoring \cup Writing]
    BY <1>0, <1>t, <1>v DEF TypeOK
  <2>3. \/ tx' = None
        \/ tx' \in [by : Processes, schema : Nat, rows : Libraries] /\ at'[tx'.by] \in Writing
    BY <1>0, <1>t, <1>v DEF TypeOK, LockIsHeld
  <2>4. /\ job' \in [Processes -> {None} \cup [path : Paths, data : Libraries, restore : BOOLEAN]]
        /\ pending' \in [Processes -> Libraries \cup {None}]
    BY <1>0, <1>t, <1>v DEF TypeOK
  <2>5. \A q \in Processes : job'[q] = None <=> at'[q] \notin Saving \cup Restoring
    BY <1>0, <1>t, <1>v DEF TypeOK
  <2> QED
    BY <2>1, <2>2, <2>3, <2>4, <2>5 DEF TypeOK
<1>2. SchemaIsWhole'
  BY <1>0, <1>t, <1>v DEF TypeOK, LockIsHeld, SchemaIsWhole
<1>3. LockIsHeld'
  BY <1>0, <1>t, <1>v DEF TypeOK, LockIsHeld
<1>4. CopyIsCurrent'
  BY <1>0, <1>t, <1>v DEF TypeOK, CopyIsCurrent
<1>5. SelectionIsBackup'
  BY <1>0, <1>t, <1>v DEF TypeOK, LockIsHeld, SelectionIsBackup
<1> QED
  BY <1>1, <1>2, <1>3, <1>4, <1>5

\* The action MigrateFails keeps the profile consistent.
LEMMA MigrateFailsKeeps ==
  ASSUME Consistent, NEW p \in Processes, MigrateFails(p)
  PROVE  Consistent'
<1> USE Distinct DEF Consistent, Goes, file, Idle, Saving, Writing, Restoring, Paths, Contents, MigrateFails
<1>0. TypeOK /\ SchemaIsWhole /\ LockIsHeld /\ CopyIsCurrent /\ SelectionIsBackup
  OBVIOUS
<1>1. TypeOK'
  BY <1>0 DEF TypeOK
<1>2. SchemaIsWhole'
  BY <1>0 DEF TypeOK, LockIsHeld, SchemaIsWhole
<1>3. LockIsHeld'
  BY <1>0 DEF TypeOK, LockIsHeld
<1>4. CopyIsCurrent'
  BY <1>0 DEF TypeOK, CopyIsCurrent
<1>5. SelectionIsBackup'
  BY <1>0 DEF TypeOK, LockIsHeld, SelectionIsBackup
<1> QED
  BY <1>1, <1>2, <1>3, <1>4, <1>5

\* The action Leave keeps the profile consistent.
LEMMA LeaveKeeps ==
  ASSUME Consistent, NEW p \in Processes, Leave(p)
  PROVE  Consistent'
<1> USE Distinct DEF Consistent, Goes, file, Idle, Saving, Writing, Restoring, Paths, Contents, Leave
<1>0. TypeOK /\ SchemaIsWhole /\ LockIsHeld /\ CopyIsCurrent /\ SelectionIsBackup
  OBVIOUS
<1>1. TypeOK'
  <2>1. /\ ours' \in BOOLEAN /\ schema' \in Nat /\ version' \in Nat /\ rows' \in Libraries
        /\ lock' \in Processes \cup {None} /\ files' \in [Paths -> Contents]
        /\ release' \in [Processes -> Releases]
    BY <1>0 DEF TypeOK, CopyIsCurrent
  <2>2. at' \in [Processes -> Idle \cup Saving \cup Restoring \cup Writing]
    BY <1>0 DEF TypeOK
  <2>3. \/ tx' = None
        \/ tx' \in [by : Processes, schema : Nat, rows : Libraries] /\ at'[tx'.by] \in Writing
    BY <1>0 DEF TypeOK, LockIsHeld
  <2>4. /\ job' \in [Processes -> {None} \cup [path : Paths, data : Libraries, restore : BOOLEAN]]
        /\ pending' \in [Processes -> Libraries \cup {None}]
    BY <1>0 DEF TypeOK
  <2>5. \A q \in Processes : job'[q] = None <=> at'[q] \notin Saving \cup Restoring
    BY <1>0 DEF TypeOK
  <2> QED
    BY <2>1, <2>2, <2>3, <2>4, <2>5 DEF TypeOK
<1>2. SchemaIsWhole'
  BY <1>0 DEF TypeOK, LockIsHeld, SchemaIsWhole
<1>3. LockIsHeld'
  BY <1>0 DEF TypeOK, LockIsHeld
<1>4. CopyIsCurrent'
  BY <1>0 DEF TypeOK, CopyIsCurrent
<1>5. SelectionIsBackup'
  BY <1>0 DEF TypeOK, LockIsHeld, SelectionIsBackup
<1> QED
  BY <1>1, <1>2, <1>3, <1>4, <1>5

\* The action Change keeps the profile consistent.
LEMMA ChangeKeeps ==
  ASSUME Consistent, NEW p \in Processes, Change(p)
  PROVE  Consistent'
<1> USE Distinct DEF Consistent, Goes, file, Idle, Saving, Writing, Restoring, Paths, Contents, Change
<1>0. TypeOK /\ SchemaIsWhole /\ LockIsHeld /\ CopyIsCurrent /\ SelectionIsBackup
  OBVIOUS
<1>1. TypeOK'
  BY <1>0 DEF TypeOK
<1>2. SchemaIsWhole'
  BY <1>0 DEF TypeOK, LockIsHeld, SchemaIsWhole
<1>3. LockIsHeld'
  BY <1>0 DEF TypeOK, LockIsHeld
<1>4. CopyIsCurrent'
  BY <1>0 DEF TypeOK, LockIsHeld, CopyIsCurrent
<1>5. SelectionIsBackup'
  BY <1>0 DEF TypeOK, SelectionIsBackup
<1> QED
  BY <1>1, <1>2, <1>3, <1>4, <1>5

\* The action Export keeps the profile consistent.
LEMMA ExportKeeps ==
  ASSUME Consistent, NEW p \in Processes, Export(p)
  PROVE  Consistent'
<1> USE Distinct DEF Consistent, Goes, file, Idle, Saving, Writing, Restoring, Paths, Contents, ExportTo, Export
<1>0. TypeOK /\ SchemaIsWhole /\ LockIsHeld /\ CopyIsCurrent /\ SelectionIsBackup
  OBVIOUS
<1>j. PICK q \in UserPaths : ExportTo(p, q, FALSE)
  OBVIOUS
<1>k. job'[p] = [path |-> q, data |-> rows, restore |-> FALSE] /\ at'[p] = "saving"
  BY <1>0, <1>j DEF TypeOK
<1>l. job'[p] # None
  BY <1>0, <1>k DEF TypeOK
<1>1. TypeOK'
  <2>1. /\ ours' \in BOOLEAN /\ schema' \in Nat /\ version' \in Nat /\ rows' \in Libraries
        /\ lock' \in Processes \cup {None} /\ files' \in [Paths -> Contents]
        /\ release' \in [Processes -> Releases]
    BY <1>0, <1>k, <1>l DEF TypeOK, CopyIsCurrent
  <2>2. at' \in [Processes -> Idle \cup Saving \cup Restoring \cup Writing]
    BY <1>0, <1>k, <1>l DEF TypeOK
  <2>3. \/ tx' = None
        \/ tx' \in [by : Processes, schema : Nat, rows : Libraries] /\ at'[tx'.by] \in Writing
    BY <1>0, <1>k, <1>l DEF TypeOK, LockIsHeld
  <2>4. /\ job' \in [Processes -> {None} \cup [path : Paths, data : Libraries, restore : BOOLEAN]]
        /\ pending' \in [Processes -> Libraries \cup {None}]
    BY <1>0, <1>k, <1>l DEF TypeOK
  <2>5. \A other \in Processes : job'[other] = None <=> at'[other] \notin Saving \cup Restoring
    BY <1>0, <1>k, <1>l DEF TypeOK
  <2> QED
    BY <2>1, <2>2, <2>3, <2>4, <2>5 DEF TypeOK
<1>2. SchemaIsWhole'
  BY <1>0, <1>k, <1>l DEF TypeOK, SchemaIsWhole
<1>3. LockIsHeld'
  BY <1>0, <1>k, <1>l DEF TypeOK, LockIsHeld
<1>4. CopyIsCurrent'
  BY <1>0, <1>k, <1>l DEF TypeOK, CopyIsCurrent
<1>5. SelectionIsBackup'
  BY <1>0, <1>k, <1>l DEF TypeOK, SelectionIsBackup
<1> QED
  BY <1>1, <1>2, <1>3, <1>4, <1>5

\* The action Confirm keeps the profile consistent.
LEMMA ConfirmKeeps ==
  ASSUME Consistent, NEW p \in Processes, Confirm(p)
  PROVE  Consistent'
<1> USE Distinct DEF Consistent, Goes, file, Idle, Saving, Writing, Restoring, Paths, Contents, ExportTo, Confirm
<1>0. TypeOK /\ SchemaIsWhole /\ LockIsHeld /\ CopyIsCurrent /\ SelectionIsBackup
  OBVIOUS
<1>j. PICK q \in SafetyPaths : ExportTo(p, q, TRUE)
  OBVIOUS
<1>k. job'[p] = [path |-> q, data |-> rows, restore |-> TRUE] /\ at'[p] = "saving"
  BY <1>0, <1>j DEF TypeOK
<1>l. job'[p] # None
  BY <1>0, <1>k DEF TypeOK
<1>1. TypeOK'
  <2>1. /\ ours' \in BOOLEAN /\ schema' \in Nat /\ version' \in Nat /\ rows' \in Libraries
        /\ lock' \in Processes \cup {None} /\ files' \in [Paths -> Contents]
        /\ release' \in [Processes -> Releases]
    BY <1>0, <1>k, <1>l DEF TypeOK, CopyIsCurrent
  <2>2. at' \in [Processes -> Idle \cup Saving \cup Restoring \cup Writing]
    BY <1>0, <1>k, <1>l DEF TypeOK
  <2>3. \/ tx' = None
        \/ tx' \in [by : Processes, schema : Nat, rows : Libraries] /\ at'[tx'.by] \in Writing
    BY <1>0, <1>k, <1>l DEF TypeOK, LockIsHeld
  <2>4. /\ job' \in [Processes -> {None} \cup [path : Paths, data : Libraries, restore : BOOLEAN]]
        /\ pending' \in [Processes -> Libraries \cup {None}]
    BY <1>0, <1>k, <1>l DEF TypeOK
  <2>5. \A other \in Processes : job'[other] = None <=> at'[other] \notin Saving \cup Restoring
    BY <1>0, <1>k, <1>l DEF TypeOK
  <2> QED
    BY <2>1, <2>2, <2>3, <2>4, <2>5 DEF TypeOK
<1>2. SchemaIsWhole'
  BY <1>0, <1>k, <1>l DEF TypeOK, SchemaIsWhole
<1>3. LockIsHeld'
  BY <1>0, <1>k, <1>l DEF TypeOK, LockIsHeld
<1>4. CopyIsCurrent'
  BY <1>0, <1>k, <1>l DEF TypeOK, CopyIsCurrent
<1>5. SelectionIsBackup'
  BY <1>0, <1>k, <1>l DEF TypeOK, SelectionIsBackup
<1> QED
  BY <1>1, <1>2, <1>3, <1>4, <1>5

\* The action WriteTemp keeps the profile consistent.
LEMMA WriteTempKeeps ==
  ASSUME Consistent, NEW p \in Processes, WriteTemp(p)
  PROVE  Consistent'
<1> USE Distinct DEF Consistent, Goes, file, Idle, Saving, Writing, Restoring, Paths, Contents, WriteTemp
<1>0. TypeOK /\ SchemaIsWhole /\ LockIsHeld /\ CopyIsCurrent /\ SelectionIsBackup
  OBVIOUS
<1>1. TypeOK'
  BY <1>0 DEF TypeOK
<1>2. SchemaIsWhole'
  BY <1>0 DEF TypeOK, SchemaIsWhole
<1>3. LockIsHeld'
  BY <1>0 DEF TypeOK, LockIsHeld
<1>4. CopyIsCurrent'
  BY <1>0 DEF TypeOK, CopyIsCurrent
<1>5. SelectionIsBackup'
  BY <1>0 DEF TypeOK, SelectionIsBackup
<1> QED
  BY <1>1, <1>2, <1>3, <1>4, <1>5

\* The action ExportFails keeps the profile consistent.
LEMMA ExportFailsKeeps ==
  ASSUME Consistent, NEW p \in Processes, ExportFails(p)
  PROVE  Consistent'
<1> USE Distinct DEF Consistent, Goes, file, Idle, Saving, Writing, Restoring, Paths, Contents, ExportFails
<1>0. TypeOK /\ SchemaIsWhole /\ LockIsHeld /\ CopyIsCurrent /\ SelectionIsBackup
  OBVIOUS
<1>1. TypeOK'
  <2>1. /\ ours' \in BOOLEAN /\ schema' \in Nat /\ version' \in Nat /\ rows' \in Libraries
        /\ lock' \in Processes \cup {None} /\ files' \in [Paths -> Contents]
        /\ release' \in [Processes -> Releases]
    BY <1>0 DEF TypeOK, CopyIsCurrent
  <2>2. at' \in [Processes -> Idle \cup Saving \cup Restoring \cup Writing]
    BY <1>0 DEF TypeOK
  <2>3. \/ tx' = None
        \/ tx' \in [by : Processes, schema : Nat, rows : Libraries] /\ at'[tx'.by] \in Writing
    BY <1>0 DEF TypeOK, LockIsHeld
  <2>4. /\ job' \in [Processes -> {None} \cup [path : Paths, data : Libraries, restore : BOOLEAN]]
        /\ pending' \in [Processes -> Libraries \cup {None}]
    BY <1>0 DEF TypeOK
  <2>5. \A q \in Processes : job'[q] = None <=> at'[q] \notin Saving \cup Restoring
    BY <1>0 DEF TypeOK
  <2> QED
    BY <2>1, <2>2, <2>3, <2>4, <2>5 DEF TypeOK
<1>2. SchemaIsWhole'
  BY <1>0 DEF TypeOK, SchemaIsWhole
<1>3. LockIsHeld'
  BY <1>0 DEF TypeOK, LockIsHeld
<1>4. CopyIsCurrent'
  BY <1>0 DEF TypeOK, CopyIsCurrent
<1>5. SelectionIsBackup'
  BY <1>0 DEF TypeOK, SelectionIsBackup
<1> QED
  BY <1>1, <1>2, <1>3, <1>4, <1>5

\* The action Link keeps the profile consistent.
LEMMA LinkKeeps ==
  ASSUME Consistent, NEW p \in Processes, Link(p)
  PROVE  Consistent'
<1> USE Distinct DEF Consistent, Goes, file, Idle, Saving, Writing, Restoring, Paths, Contents, Saved, Link
<1>0. TypeOK /\ SchemaIsWhole /\ LockIsHeld /\ CopyIsCurrent /\ SelectionIsBackup
  OBVIOUS
<1>1. TypeOK'
  <2>1. /\ ours' \in BOOLEAN /\ schema' \in Nat /\ version' \in Nat /\ rows' \in Libraries
        /\ lock' \in Processes \cup {None} /\ files' \in [Paths -> Contents]
        /\ release' \in [Processes -> Releases]
    BY <1>0 DEF TypeOK, CopyIsCurrent
  <2>2. at' \in [Processes -> Idle \cup Saving \cup Restoring \cup Writing]
    BY <1>0 DEF TypeOK
  <2>3. \/ tx' = None
        \/ tx' \in [by : Processes, schema : Nat, rows : Libraries] /\ at'[tx'.by] \in Writing
    BY <1>0 DEF TypeOK, LockIsHeld
  <2>4. /\ job' \in [Processes -> {None} \cup [path : Paths, data : Libraries, restore : BOOLEAN]]
        /\ pending' \in [Processes -> Libraries \cup {None}]
    BY <1>0 DEF TypeOK
  <2>5. \A q \in Processes : job'[q] = None <=> at'[q] \notin Saving \cup Restoring
    BY <1>0 DEF TypeOK
  <2> QED
    BY <2>1, <2>2, <2>3, <2>4, <2>5 DEF TypeOK
<1>2. SchemaIsWhole'
  BY <1>0 DEF TypeOK, SchemaIsWhole
<1>3. LockIsHeld'
  BY <1>0 DEF TypeOK, LockIsHeld
<1>4. CopyIsCurrent'
  BY <1>0 DEF TypeOK, CopyIsCurrent
<1>5. SelectionIsBackup'
  BY <1>0 DEF TypeOK, SelectionIsBackup
<1> QED
  BY <1>1, <1>2, <1>3, <1>4, <1>5

\* The action CopyStart keeps the profile consistent.
LEMMA CopyStartKeeps ==
  ASSUME Consistent, NEW p \in Processes, CopyStart(p)
  PROVE  Consistent'
<1> USE Distinct DEF Consistent, Goes, file, Idle, Saving, Writing, Restoring, Paths, Contents, CopyStart
<1>0. TypeOK /\ SchemaIsWhole /\ LockIsHeld /\ CopyIsCurrent /\ SelectionIsBackup
  OBVIOUS
<1>1. TypeOK'
  BY <1>0 DEF TypeOK
<1>2. SchemaIsWhole'
  BY <1>0 DEF TypeOK, SchemaIsWhole
<1>3. LockIsHeld'
  BY <1>0 DEF TypeOK, LockIsHeld
<1>4. CopyIsCurrent'
  BY <1>0 DEF TypeOK, CopyIsCurrent
<1>5. SelectionIsBackup'
  BY <1>0 DEF TypeOK, SelectionIsBackup
<1> QED
  BY <1>1, <1>2, <1>3, <1>4, <1>5

\* The action CopyEnd keeps the profile consistent.
LEMMA CopyEndKeeps ==
  ASSUME Consistent, NEW p \in Processes, CopyEnd(p)
  PROVE  Consistent'
<1> USE Distinct DEF Consistent, Goes, file, Idle, Saving, Writing, Restoring, Paths, Contents, Saved, CopyEnd
<1>0. TypeOK /\ SchemaIsWhole /\ LockIsHeld /\ CopyIsCurrent /\ SelectionIsBackup
  OBVIOUS
<1>1. TypeOK'
  <2>1. /\ ours' \in BOOLEAN /\ schema' \in Nat /\ version' \in Nat /\ rows' \in Libraries
        /\ lock' \in Processes \cup {None} /\ files' \in [Paths -> Contents]
        /\ release' \in [Processes -> Releases]
    BY <1>0 DEF TypeOK, CopyIsCurrent
  <2>2. at' \in [Processes -> Idle \cup Saving \cup Restoring \cup Writing]
    BY <1>0 DEF TypeOK
  <2>3. \/ tx' = None
        \/ tx' \in [by : Processes, schema : Nat, rows : Libraries] /\ at'[tx'.by] \in Writing
    BY <1>0 DEF TypeOK, LockIsHeld
  <2>4. /\ job' \in [Processes -> {None} \cup [path : Paths, data : Libraries, restore : BOOLEAN]]
        /\ pending' \in [Processes -> Libraries \cup {None}]
    BY <1>0 DEF TypeOK
  <2>5. \A q \in Processes : job'[q] = None <=> at'[q] \notin Saving \cup Restoring
    BY <1>0 DEF TypeOK
  <2> QED
    BY <2>1, <2>2, <2>3, <2>4, <2>5 DEF TypeOK
<1>2. SchemaIsWhole'
  BY <1>0 DEF TypeOK, SchemaIsWhole
<1>3. LockIsHeld'
  BY <1>0 DEF TypeOK, LockIsHeld
<1>4. CopyIsCurrent'
  BY <1>0 DEF TypeOK, LockIsHeld, CopyIsCurrent
<1>5. SelectionIsBackup'
  BY <1>0 DEF TypeOK, SchemaIsWhole, LockIsHeld, CopyIsCurrent, SelectionIsBackup
<1> QED
  BY <1>1, <1>2, <1>3, <1>4, <1>5

\* The action CopyFails keeps the profile consistent.
LEMMA CopyFailsKeeps ==
  ASSUME Consistent, NEW p \in Processes, CopyFails(p)
  PROVE  Consistent'
<1> USE Distinct DEF Consistent, Goes, file, Idle, Saving, Writing, Restoring, Paths, Contents, CopyFails
<1>0. TypeOK /\ SchemaIsWhole /\ LockIsHeld /\ CopyIsCurrent /\ SelectionIsBackup
  OBVIOUS
<1>1. TypeOK'
  <2>1. /\ ours' \in BOOLEAN /\ schema' \in Nat /\ version' \in Nat /\ rows' \in Libraries
        /\ lock' \in Processes \cup {None} /\ files' \in [Paths -> Contents]
        /\ release' \in [Processes -> Releases]
    BY <1>0 DEF TypeOK, CopyIsCurrent
  <2>2. at' \in [Processes -> Idle \cup Saving \cup Restoring \cup Writing]
    BY <1>0 DEF TypeOK
  <2>3. \/ tx' = None
        \/ tx' \in [by : Processes, schema : Nat, rows : Libraries] /\ at'[tx'.by] \in Writing
    BY <1>0 DEF TypeOK, LockIsHeld
  <2>4. /\ job' \in [Processes -> {None} \cup [path : Paths, data : Libraries, restore : BOOLEAN]]
        /\ pending' \in [Processes -> Libraries \cup {None}]
    BY <1>0 DEF TypeOK
  <2>5. \A q \in Processes : job'[q] = None <=> at'[q] \notin Saving \cup Restoring
    BY <1>0 DEF TypeOK
  <2> QED
    BY <2>1, <2>2, <2>3, <2>4, <2>5 DEF TypeOK
<1>2. SchemaIsWhole'
  BY <1>0 DEF TypeOK, SchemaIsWhole
<1>3. LockIsHeld'
  BY <1>0 DEF TypeOK, LockIsHeld
<1>4. CopyIsCurrent'
  BY <1>0 DEF TypeOK, LockIsHeld, CopyIsCurrent
<1>5. SelectionIsBackup'
  BY <1>0 DEF TypeOK, SchemaIsWhole, LockIsHeld, CopyIsCurrent, SelectionIsBackup
<1> QED
  BY <1>1, <1>2, <1>3, <1>4, <1>5

\* The action Select keeps the profile consistent.
LEMMA SelectKeeps ==
  ASSUME Consistent, NEW p \in Processes, Select(p)
  PROVE  Consistent'
<1> USE Distinct DEF Consistent, Goes, file, Idle, Saving, Writing, Restoring, Paths, Contents, Select
<1>0. TypeOK /\ SchemaIsWhole /\ LockIsHeld /\ CopyIsCurrent /\ SelectionIsBackup
  OBVIOUS
<1>1. TypeOK'
  BY <1>0 DEF TypeOK
<1>2. SchemaIsWhole'
  BY <1>0 DEF TypeOK, SchemaIsWhole
<1>3. LockIsHeld'
  BY <1>0 DEF TypeOK, LockIsHeld
<1>4. CopyIsCurrent'
  BY <1>0 DEF TypeOK, CopyIsCurrent
<1>5. SelectionIsBackup'
  BY <1>0 DEF TypeOK, SelectionIsBackup
<1> QED
  BY <1>1, <1>2, <1>3, <1>4, <1>5

\* The action Delete keeps the profile consistent.
LEMMA DeleteKeeps ==
  ASSUME Consistent, NEW p \in Processes, Delete(p)
  PROVE  Consistent'
<1> USE Distinct DEF Consistent, Goes, file, Idle, Saving, Writing, Restoring, Paths, Contents, Delete
<1>0. TypeOK /\ SchemaIsWhole /\ LockIsHeld /\ CopyIsCurrent /\ SelectionIsBackup
  OBVIOUS
<1>1. TypeOK'
  BY <1>0 DEF TypeOK
<1>2. SchemaIsWhole'
  BY <1>0 DEF TypeOK, LockIsHeld, SchemaIsWhole
<1>3. LockIsHeld'
  BY <1>0 DEF TypeOK, LockIsHeld
<1>4. CopyIsCurrent'
  BY <1>0 DEF TypeOK, CopyIsCurrent
<1>5. SelectionIsBackup'
  BY <1>0 DEF TypeOK, LockIsHeld, SelectionIsBackup
<1> QED
  BY <1>1, <1>2, <1>3, <1>4, <1>5

\* The action Insert keeps the profile consistent.
LEMMA InsertKeeps ==
  ASSUME Consistent, NEW p \in Processes, Insert(p)
  PROVE  Consistent'
<1> USE Distinct DEF Consistent, Goes, file, Idle, Saving, Writing, Restoring, Paths, Contents, Insert
<1>0. TypeOK /\ SchemaIsWhole /\ LockIsHeld /\ CopyIsCurrent /\ SelectionIsBackup
  OBVIOUS
<1>t. tx.by = p /\ tx.schema \in Nat /\ tx.rows \in Libraries
  BY <1>0 DEF TypeOK, LockIsHeld
<1>1. TypeOK'
  BY <1>0, <1>t DEF TypeOK, SchemaIsWhole, LockIsHeld, CopyIsCurrent, SelectionIsBackup
<1>2. SchemaIsWhole'
  BY <1>0, <1>t DEF TypeOK, LockIsHeld, SchemaIsWhole
<1>3. LockIsHeld'
  BY <1>0, <1>t DEF TypeOK, SchemaIsWhole, LockIsHeld, CopyIsCurrent, SelectionIsBackup
<1>4. CopyIsCurrent'
  BY <1>0, <1>t DEF TypeOK, CopyIsCurrent
<1>5. SelectionIsBackup'
  BY <1>0, <1>t DEF TypeOK, LockIsHeld, SelectionIsBackup
<1> QED
  BY <1>1, <1>2, <1>3, <1>4, <1>5

\* The action RestoreCommit keeps the profile consistent.
LEMMA RestoreCommitKeeps ==
  ASSUME Consistent, NEW p \in Processes, RestoreCommit(p)
  PROVE  Consistent'
<1> USE Distinct DEF Consistent, Goes, file, Idle, Saving, Writing, Restoring, Paths, Contents, RestoreCommit
<1>0. TypeOK /\ SchemaIsWhole /\ LockIsHeld /\ CopyIsCurrent /\ SelectionIsBackup
  OBVIOUS
<1>t. tx.by = p /\ tx.schema \in Nat /\ tx.rows \in Libraries
  BY <1>0 DEF TypeOK, LockIsHeld
<1>1. TypeOK'
  <2>1. /\ ours' \in BOOLEAN /\ schema' \in Nat /\ version' \in Nat /\ rows' \in Libraries
        /\ lock' \in Processes \cup {None} /\ files' \in [Paths -> Contents]
        /\ release' \in [Processes -> Releases]
    BY <1>0, <1>t DEF TypeOK, CopyIsCurrent
  <2>2. at' \in [Processes -> Idle \cup Saving \cup Restoring \cup Writing]
    BY <1>0, <1>t DEF TypeOK
  <2>3. \/ tx' = None
        \/ tx' \in [by : Processes, schema : Nat, rows : Libraries] /\ at'[tx'.by] \in Writing
    BY <1>0, <1>t DEF TypeOK, LockIsHeld
  <2>4. /\ job' \in [Processes -> {None} \cup [path : Paths, data : Libraries, restore : BOOLEAN]]
        /\ pending' \in [Processes -> Libraries \cup {None}]
    BY <1>0, <1>t DEF TypeOK
  <2>5. \A q \in Processes : job'[q] = None <=> at'[q] \notin Saving \cup Restoring
    BY <1>0, <1>t DEF TypeOK
  <2> QED
    BY <2>1, <2>2, <2>3, <2>4, <2>5 DEF TypeOK
<1>2. SchemaIsWhole'
  BY <1>0, <1>t DEF TypeOK, LockIsHeld, SchemaIsWhole
<1>3. LockIsHeld'
  BY <1>0, <1>t DEF TypeOK, LockIsHeld
<1>4. CopyIsCurrent'
  BY <1>0, <1>t DEF TypeOK, LockIsHeld, CopyIsCurrent
<1>5. SelectionIsBackup'
  BY <1>0, <1>t DEF TypeOK, LockIsHeld, SelectionIsBackup
<1> QED
  BY <1>1, <1>2, <1>3, <1>4, <1>5

\* The action RestoreFails keeps the profile consistent.
LEMMA RestoreFailsKeeps ==
  ASSUME Consistent, NEW p \in Processes, RestoreFails(p)
  PROVE  Consistent'
<1> USE Distinct DEF Consistent, Goes, file, Idle, Saving, Writing, Restoring, Paths, Contents, RestoreFails
<1>0. TypeOK /\ SchemaIsWhole /\ LockIsHeld /\ CopyIsCurrent /\ SelectionIsBackup
  OBVIOUS
<1>1. TypeOK'
  <2>1. /\ ours' \in BOOLEAN /\ schema' \in Nat /\ version' \in Nat /\ rows' \in Libraries
        /\ lock' \in Processes \cup {None} /\ files' \in [Paths -> Contents]
        /\ release' \in [Processes -> Releases]
    BY <1>0 DEF TypeOK, CopyIsCurrent
  <2>2. at' \in [Processes -> Idle \cup Saving \cup Restoring \cup Writing]
    BY <1>0 DEF TypeOK
  <2>3. \/ tx' = None
        \/ tx' \in [by : Processes, schema : Nat, rows : Libraries] /\ at'[tx'.by] \in Writing
    BY <1>0 DEF TypeOK, LockIsHeld
  <2>4. /\ job' \in [Processes -> {None} \cup [path : Paths, data : Libraries, restore : BOOLEAN]]
        /\ pending' \in [Processes -> Libraries \cup {None}]
    BY <1>0 DEF TypeOK
  <2>5. \A q \in Processes : job'[q] = None <=> at'[q] \notin Saving \cup Restoring
    BY <1>0 DEF TypeOK
  <2> QED
    BY <2>1, <2>2, <2>3, <2>4, <2>5 DEF TypeOK
<1>2. SchemaIsWhole'
  BY <1>0 DEF TypeOK, LockIsHeld, SchemaIsWhole
<1>3. LockIsHeld'
  BY <1>0 DEF TypeOK, LockIsHeld
<1>4. CopyIsCurrent'
  BY <1>0 DEF TypeOK, CopyIsCurrent
<1>5. SelectionIsBackup'
  BY <1>0 DEF TypeOK, LockIsHeld, SelectionIsBackup
<1> QED
  BY <1>1, <1>2, <1>3, <1>4, <1>5

\* A file of another program appears at a name no export has taken.
LEMMA OtherFileKeeps ==
  ASSUME Consistent, NEW n \in UserPaths, OtherFile(n)
  PROVE  Consistent'
<1> USE Distinct DEF Consistent, OtherFile, file, Saving, Restoring, Paths, Contents
<1>1. TypeOK'
  BY DEF TypeOK
<1>2. SchemaIsWhole'
  BY DEF SchemaIsWhole
<1>3. LockIsHeld'
  BY DEF LockIsHeld
<1>4. CopyIsCurrent'
  BY DEF TypeOK, CopyIsCurrent
<1>5. SelectionIsBackup'
  BY DEF TypeOK, SelectionIsBackup
<1> QED
  BY <1>1, <1>2, <1>3, <1>4, <1>5

\* The profile as earlier sessions left it is consistent.
LEMMA StartsConsistent == Init => Consistent
<1> SUFFICES ASSUME Init PROVE Consistent
  OBVIOUS
<1> USE Distinct DEF Init, Idle, Saving, Restoring, Writing, Paths, Contents
<1>1. TypeOK
  BY DEF TypeOK
<1>2. SchemaIsWhole
  BY DEF SchemaIsWhole
<1>3. LockIsHeld
  BY DEF LockIsHeld
<1>4. CopyIsCurrent /\ SelectionIsBackup
  BY DEF CopyIsCurrent, SelectionIsBackup
<1> QED
  BY <1>1, <1>2, <1>3, <1>4 DEF Consistent

\* Every step keeps the profile consistent.
LEMMA StaysConsistent == Consistent /\ [Next]_vars => Consistent'
<1> SUFFICES ASSUME Consistent, [Next]_vars PROVE Consistent'
  OBVIOUS
<1>1. CASE UNCHANGED vars
  BY <1>1 DEF vars, Consistent, TypeOK, SchemaIsWhole, LockIsHeld, CopyIsCurrent, SelectionIsBackup
<1>2. ASSUME NEW p \in Processes, Startup(p) \/ Change(p) PROVE Consistent'
  BY <1>2, StartKeeps, OpenLibraryKeeps, LeaveKeeps, MigrateStepKeeps, MigrateCommitKeeps,
     MigrateFailsKeeps, ChangeKeeps DEF Startup
<1>3. ASSUME NEW p \in Processes, Exports(p) PROVE Consistent'
  BY <1>3, ExportKeeps, WriteTempKeeps, ExportFailsKeeps, LinkKeeps, CopyStartKeeps,
     CopyEndKeeps, CopyFailsKeeps DEF Exports
<1>4. ASSUME NEW p \in Processes, Restores(p) PROVE Consistent'
  BY <1>4, SelectKeeps, ConfirmKeeps, DeleteKeeps, InsertKeeps, RestoreCommitKeeps,
     RestoreFailsKeeps DEF Restores
<1>5. ASSUME NEW n \in UserPaths, OtherFile(n) PROVE Consistent'
  BY <1>5, OtherFileKeeps
<1> QED
  BY <1>1, <1>2, <1>3, <1>4, <1>5 DEF Next

\* For any number of processes, releases, backup names and libraries: each
\* export and each safety copy is a copy of the data as it is now, the lock
\* has one holder and the file's tables are those of its version.
THEOREM AlwaysConsistent == Spec => []Consistent
<1>1. Init => Consistent
  BY StartsConsistent
<1>2. Consistent /\ [Next]_vars => Consistent'
  BY StaysConsistent
<1> QED
  BY <1>1, <1>2, PTL DEF Spec
-----------------------------------------------------------------------------
\* Only the commit of a migration, of a change and of a restore write the file.
LEMMA OwnerWrites ==
  ASSUME Consistent, [Next]_vars, file' # file
  PROVE  ours /\ \E p \in Processes : lock = p /\ version <= release[p]
<1> USE DEF Goes, file
<1>1. ~UNCHANGED vars
  BY DEF vars
<1>2. PICK p \in Processes : MigrateCommit(p) \/ Change(p) \/ RestoreCommit(p)
  <2>1. ASSUME NEW q \in Processes, Startup(q) \/ Change(q) \/ Exports(q) \/ Restores(q)
        PROVE  MigrateCommit(q) \/ Change(q) \/ RestoreCommit(q)
    <3>1. CASE Startup(q)
      BY <3>1 DEF Startup, Start, OpenLibrary, Leave, MigrateStep, MigrateFails
    <3>2. CASE Exports(q)
      BY <3>2 DEF Exports, Export, ExportTo, WriteTemp, ExportFails, Link, CopyStart, CopyEnd,
                  CopyFails
    <3>3. CASE Restores(q)
      BY <3>3 DEF Restores, Select, Confirm, ExportTo, Delete, Insert, RestoreFails
    <3> QED
      BY <2>1, <3>1, <3>2, <3>3
  <2>2. ASSUME NEW n \in UserPaths, OtherFile(n) PROVE FALSE
    BY <2>2 DEF OtherFile
  <2> QED
    BY <1>1, <2>1, <2>2 DEF Next
<1>3. at[p] \notin {"off", "closed"}
  BY <1>2 DEF MigrateCommit, Change, RestoreCommit
<1> QED
  BY <1>3 DEF Consistent, LockIsHeld

\* An old release, a foreign file, a second copy of the program: none of them
\* writes to the database file.
THEOREM OwnerOnly == Spec => OnlyItsOwner
<1>1. Consistent /\ [Next]_vars
        => [file' # file => ours /\ \E p \in Processes : lock = p /\ version <= release[p]]_file
  BY OwnerWrites
<1> QED
  BY <1>1, AlwaysConsistent, PTL DEF Spec, OnlyItsOwner
-----------------------------------------------------------------------------
\* The complete files, as Custody sees them.
Archive == [q \in Paths |-> Whole(files[q])]

\* The profile starts where Custody may start.
LEMMA PromiseInit == Init => Promise!Init
<1> SUFFICES ASSUME Init PROVE Promise!Init
  OBVIOUS
<1>1. rows \in Libraries
  BY Distinct DEF Init
<1>2. files \in [Paths -> Libraries \cup {Absent}]
  BY DEF Init
<1>3. Archive \in [Paths -> Libraries \cup {Absent, Other}]
  BY <1>2, Distinct DEF Archive, Whole
<1> QED
  BY <1>1, <1>3 DEF Promise!Init, Archive

\* One file changes from c to d: in the archive, if both are what they seem.
LEMMA ArchiveChange ==
  ASSUME NEW n \in Paths, files \in [Paths -> Contents], NEW d,
         files' = [files EXCEPT ![n] = d]
  PROVE  Archive' = [Archive EXCEPT ![n] = Whole(d)] /\ Archive[n] = Whole(files[n])
BY DEF Archive, Whole

\* The steps that write no name and no row.
LEMMA Silent ==
  ASSUME NEW p \in Processes,
         Start(p) \/ OpenLibrary(p) \/ Leave(p) \/ MigrateStep(p) \/ MigrateFails(p) \/ Export(p)
         \/ WriteTemp(p) \/ ExportFails(p) \/ Select(p) \/ Confirm(p) \/ Delete(p) \/ Insert(p)
         \/ RestoreFails(p)
  PROVE  UNCHANGED <<rows, files>>
BY DEF Start, OpenLibrary, Leave, MigrateStep, MigrateFails, Export, ExportTo, WriteTemp,
       ExportFails, Select, Confirm, Delete, Insert, RestoreFails, file

\* A complete copy of the data appears under a free name.
LEMMA PublishSaves ==
  ASSUME Consistent, NEW p \in Processes, Link(p) \/ CopyEnd(p)
  PROVE  rows' = rows /\ \E n \in Paths : Archive[n] = Absent /\ Archive' = [Archive EXCEPT ![n] = rows]
<1>1. at[p] \in Saving /\ job[p].path \in Paths /\ files \in [Paths -> Contents] /\ rows \in Libraries
  <2>1. at[p] \in Saving
    BY DEF Link, CopyEnd, Saving
  <2>2. job[p] # None /\ job[p] \in {None} \cup [path : Paths, data : Libraries, restore : BOOLEAN]
    BY <2>1 DEF Consistent, TypeOK
  <2> QED
    BY <2>1, <2>2 DEF Consistent, TypeOK
<1>2. job[p].data = rows
  BY <1>1 DEF Consistent, CopyIsCurrent
<1>3. files' = [files EXCEPT ![job[p].path] = rows] /\ rows' = rows
  BY <1>2 DEF Link, CopyEnd, file
<1>4. Whole(files[job[p].path]) = Absent
  BY DEF Consistent, CopyIsCurrent, Link, CopyEnd, Whole
<1>5. Whole(rows) = rows
  BY <1>1, Distinct DEF Whole
<1>6. /\ Archive' = [Archive EXCEPT ![job[p].path] = Whole(rows)]
      /\ Archive[job[p].path] = Whole(files[job[p].path])
  BY <1>1, <1>3, ArchiveChange
<1> QED
  BY <1>1, <1>3, <1>4, <1>5, <1>6

\* An interrupted copy, or the end of one that failed, is no backup.
LEMMA PartialIsSilent ==
  ASSUME Consistent, NEW p \in Processes, CopyStart(p) \/ CopyFails(p)
  PROVE  rows' = rows /\ Archive' = Archive
<1>1. at[p] \in Saving
  BY DEF CopyStart, CopyFails, Saving
<1>2. job[p] # None /\ job[p] \in {None} \cup [path : Paths, data : Libraries, restore : BOOLEAN]
  BY <1>1 DEF Consistent, TypeOK
<1>3. job[p].path \in Paths /\ files \in [Paths -> Contents]
  BY <1>2 DEF Consistent, TypeOK
<1>4. Whole(files[job[p].path]) = Absent
  BY DEF Consistent, CopyIsCurrent, CopyStart, CopyFails, Whole
<1>5. PICK d : (d = Absent \/ d = Damaged) /\ files' = [files EXCEPT ![job[p].path] = d]
  BY DEF CopyStart, CopyFails
<1>6. Whole(d) = Absent
  BY <1>5 DEF Whole
<1>7. Archive' = [Archive EXCEPT ![job[p].path] = Absent] /\ Archive[job[p].path] = Absent
  BY <1>3, <1>4, <1>5, <1>6, ArchiveChange
<1> QED
  BY <1>7 DEF CopyStart, CopyFails, file, Archive

\* The data is replaced by a complete backup, and is itself in one.
LEMMA CommitReplaces ==
  ASSUME Consistent, NEW p \in Processes, RestoreCommit(p)
  PROVE  /\ Archive' = Archive
         /\ \E n \in Paths : Archive[n] = rows
         /\ rows' \in Libraries /\ \E n \in Paths : Archive[n] = rows'
<1>1. at[p] \in Restoring /\ at[p] = "filled" /\ rows' = tx.rows /\ files' = files
  BY DEF RestoreCommit, Restoring
<1>2. job[p] # None /\ job[p] \in {None} \cup [path : Paths, data : Libraries, restore : BOOLEAN]
  BY <1>1 DEF Consistent, TypeOK
<1>3. job[p].path \in Paths /\ files[job[p].path] = rows /\ job[p].restore
  BY <1>1, <1>2 DEF Consistent, CopyIsCurrent
<1>4. pending[p] # None /\ rows' = pending[p] /\ \E n \in Paths : files[n] = pending[p]
  BY <1>1, <1>3 DEF Consistent, SelectionIsBackup
<1>5. rows \in Libraries /\ pending[p] \in Libraries
  BY <1>4 DEF Consistent, TypeOK
<1> QED
  BY <1>1, <1>3, <1>4, <1>5, Distinct DEF Archive, Whole

\* Every step of the profile is a step of Custody or changes nothing it sees.
LEMMA PromiseStep ==
  ASSUME Consistent, [Next]_vars
  PROVE  [Promise!Next]_<<rows, Archive>>
<1>1. CASE UNCHANGED <<rows, files>>
  BY <1>1 DEF Archive
<1>2. ASSUME NEW p \in Processes, MigrateCommit(p)
      PROVE  UNCHANGED <<rows, files>>
  BY <1>2 DEF MigrateCommit, Consistent, SchemaIsWhole
<1>3. ASSUME NEW p \in Processes, Change(p)
      PROVE  Promise!Edit
  BY <1>3 DEF Change, Promise!Edit
<1>4. ASSUME NEW p \in Processes, Link(p) \/ CopyEnd(p)
      PROVE  \E n \in Paths : Promise!Save(n)
  BY <1>4, PublishSaves DEF Promise!Save, Archive
<1>5. ASSUME NEW p \in Processes, CopyStart(p) \/ CopyFails(p)
      PROVE  UNCHANGED <<rows, Archive>>
  BY <1>5, PartialIsSilent
<1>6. ASSUME NEW p \in Processes, RestoreCommit(p)
      PROVE  Promise!Replace
  <2>1. /\ Archive' = Archive
        /\ \E n \in Paths : Archive[n] = rows
        /\ rows' \in Libraries /\ \E n \in Paths : Archive[n] = rows'
    BY <1>6, CommitReplaces
  <2> QED
    BY <2>1 DEF Promise!Replace, Promise!Range, Archive
<1>7. ASSUME NEW n \in UserPaths, OtherFile(n)
      PROVE  Promise!Arrive(n) /\ n \in Paths
  <2>1. files \in [Paths -> Contents] /\ n \in Paths /\ files[n] = Absent /\ rows' = rows
        /\ files' = [files EXCEPT ![n] = Other]
    BY <1>7 DEF OtherFile, Consistent, TypeOK, Paths, file
  <2>2. Whole(Absent) = Absent /\ Whole(Other) = Other
    BY Distinct DEF Whole
  <2> QED
    BY <2>1, <2>2, ArchiveChange DEF Promise!Arrive, Archive
<1>8. ASSUME NEW p \in Processes, Startup(p) \/ Change(p) \/ Exports(p) \/ Restores(p)
      PROVE  [Promise!Next]_<<rows, Archive>>
  BY <1>1, <1>2, <1>3, <1>4, <1>5, <1>6, <1>8, Silent
     DEF Startup, Exports, Restores, Promise!Next
<1> QED
  BY <1>1, <1>7, <1>8 DEF Next, Promise!Next, vars

\* However its processes start, stop, crash and fail, the profile keeps the
\* promise of Custody: nothing overwritten, restored only from a complete
\* backup, and only when the replaced data is in one.
THEOREM CustodyKept == Spec => KeepsCustody
<1>1. Init => Promise!Init
  BY PromiseInit
<1>2. Consistent /\ [Next]_vars => [Promise!Next]_<<rows, Archive>>
  BY PromiseStep
<1>3. Consistent /\ [Next]_vars => [Promise!Next]_<<rows, [q \in Paths |-> Whole(files[q])]>>
  BY <1>2 DEF Archive
<1> QED
  BY <1>1, <1>3, AlwaysConsistent, PTL DEF Spec, KeepsCustody, Promise!Spec
=============================================================================
