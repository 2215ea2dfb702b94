------------------------------ MODULE Custody ------------------------------
(***************************************************************************)
(* What Bingee Desktop promises about the user's data: ordinary use edits  *)
(* it, an export saves what it is at that moment under a name that was     *)
(* free, and a restore replaces it by the contents of a complete backup,   *)
(* but only once a complete backup of what it replaces exists. No file is  *)
(* ever overwritten. The module Profile implements this.                   *)
(***************************************************************************)
EXTENDS Functions

CONSTANTS
  Libraries,  \* what the eleven tables may hold
  Edits,      \* the pairs <<before, after>> one ordinary change may make
  Paths,      \* the files backups may be written to
  Absent,     \* no complete file has that name
  Other       \* a file that is not a backup this program can restore

VARIABLES
  data,     \* the library as it is on disk
  archive   \* the complete files, by path
-----------------------------------------------------------------------------
Init ==
  /\ data \in Libraries
  /\ archive \in [Paths -> Libraries \cup {Absent, Other}]

Edit ==
  /\ <<data, data'>> \in Edits
  /\ UNCHANGED archive

Save(q) ==
  /\ archive[q] = Absent
  /\ archive' = [archive EXCEPT ![q] = data]
  /\ UNCHANGED data

\* Another program creates a file.
Arrive(q) ==
  /\ archive[q] = Absent
  /\ archive' = [archive EXCEPT ![q] = Other]
  /\ UNCHANGED data

Replace ==
  /\ data \in Range(archive)
  /\ data' \in Range(archive) \cap Libraries
  /\ UNCHANGED archive

Next == Edit \/ Replace \/ \E q \in Paths : Save(q) \/ Arrive(q)

Spec == Init /\ [][Next]_<<data, archive>>
=============================================================================
