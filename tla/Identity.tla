------------------------------ MODULE Identity ------------------------------
(***************************************************************************)
(* How a title keeps its local id (library.rs, tmdb.rs, metadata.rs,       *)
(* database.rs, backup.rs).                                                *)
(*                                                                         *)
(* A title is known to TMDB by its media type and a number, and to the     *)
(* database by a local id that everything personal refers to. Requests for *)
(* details carry both, and the answer is saved under the local id, however *)
(* much happened since: the title removed, cleaned away and added again, a *)
(* backup restored. A text is told apart only by the title TMDB sent it    *)
(* for: `title` holds the identity of that title.                          *)
(***************************************************************************)
EXTENDS Integers, FiniteSets, Functions

CONSTANTS
  Numbers,   \* TMDB's numbers; 0 is none
  None,      \* an absent text
  Blank,     \* a text of white space
  Foreign,   \* backups of other profiles
  MaxId,     \* bound on the local ids given out
  MaxAsked,  \* bound on the requests under way
  MaxFiles   \* bound on the backup files

VARIABLES
  media,    \* local id -> row
  refs,     \* identity -> local id: external_refs
  library,  \* local ids in the Library
  tracked,  \* local ids with something personal
  lastId,   \* the highest local id ever given out: sqlite_sequence
  asked,    \* requests for details under way
  files     \* backup files: libraries

vars == <<media, refs, library, tracked, lastId, asked, files>>
-----------------------------------------------------------------------------
Kinds == {"movie", "tv"}
Identities == Kinds \X (Numbers \ {0})
Row == [kind : Kinds, title : Identities, original : Identities \cup {None}]
Request == [id : 1..lastId, of : Identities]

\* What TMDB may send of a title: its own texts, none, or blank ones.
Sent(k, n) == [kind : {k}, number : {n}, title : {<<k, n>>, Blank, None},
               original : {<<k, n>>, Blank, None}]

\* `text`: a blank text is none.
Told(v) == IF v = Blank THEN None ELSE v

\* The title, or the original title in its place.
TitleOf(dto) == IF Told(dto.title) # None THEN Told(dto.title) ELSE Told(dto.original)

\* `result`: a hit without number or any title is no result.
IsResult(dto) == dto.number # 0 /\ TitleOf(dto) # None

RowOf(dto) == [kind |-> dto.kind, title |-> TitleOf(dto), original |-> Told(dto.original)]

Without(f, S) == [x \in DOMAIN f \ S |-> f[x]]
With(f, x, v) == [y \in DOMAIN f \cup {x} |-> IF y = x THEN v ELSE f[y]]

\* The identities a local id is stored for.
StoredFor(id) == {j \in DOMAIN refs : refs[j] = id}

\* `media_for` and `local_id`: the row an identity has.
MediaForByNumber(j) == {refs[k] : k \in {k \in DOMAIN refs : k[2] = j[2]}}
MediaFor(j) == {refs[k] : k \in {k \in DOMAIN refs : k = j}}

\* The sequence AUTOINCREMENT keeps, after rows with these ids were inserted: it
\* never goes back, and a new row gets the next number.
SequenceOfRows(ids) == IF ids = {} THEN 0 ELSE CHOOSE m \in ids : \A n \in ids : n <= m
Sequence(ids) ==
  IF \E m \in ids : m > lastId THEN CHOOSE m \in ids : \A n \in ids : n <= m ELSE lastId
NewId == lastId + 1
-----------------------------------------------------------------------------
\* `add` for a title with a row: the title is the one sent, a text that was not
\* sent stays.
AddToRow(id, dto) ==
  /\ media' = [media EXCEPT ![id] =
                 [kind |-> @.kind, title |-> TitleOf(dto),
                  original |-> IF Told(dto.original) = None THEN @.original
                                                            ELSE Told(dto.original)]]
  /\ library' = library \cup {id}
  /\ UNCHANGED <<refs, lastId>>

\* `add` for a title without one.
AddNew(j, dto) ==
  /\ lastId < MaxId
  /\ media' = With(media, NewId, RowOf(dto))
  /\ refs' = With(refs, j, NewId)
  /\ library' = library \cup {NewId}
  /\ lastId' = Sequence({NewId})

\* A search result is added to the Library, in one transaction.
Add(k, n) ==
  /\ \E dto \in Sent(k, n) :
       /\ IsResult(dto)
       /\ IF MediaFor(<<k, n>>) = {} THEN AddNew(<<k, n>>, dto)
          ELSE \E id \in MediaFor(<<k, n>>) : AddToRow(id, dto)
  /\ UNCHANGED <<tracked, asked, files>>

\* `remove`: only the membership goes.
Remove(id) ==
  /\ id \in library
  /\ library' = library \ {id}
  /\ UNCHANGED <<media, refs, tracked, lastId, asked, files>>

\* Watching or rating makes a personal record of the title.
Track(id) ==
  /\ id \in DOMAIN media \ tracked
  /\ tracked' = tracked \cup {id}
  /\ UNCHANGED <<media, refs, library, lastId, asked, files>>

\* `clean_orphan_metadata`: rows nothing personal refers to go, and their
\* identities with them.
Clean ==
  LET orphans == DOMAIN media \ (library \cup tracked) IN
    /\ orphans # {}
    /\ media' = Without(media, orphans)
    /\ refs' = Without(refs, {j \in DOMAIN refs : refs[j] \in orphans})
    /\ UNCHANGED <<library, tracked, lastId, asked, files>>
-----------------------------------------------------------------------------
\* The pane asks for details: the request goes to the identity the row has now.
AskDetails(id) ==
  /\ Cardinality(asked) < MaxAsked
  /\ \E j \in StoredFor(id) : asked' = asked \cup {[id |-> id, of |-> j]}
  /\ UNCHANGED <<media, refs, library, tracked, lastId, files>>

\* `save`: the row of that id and media type, whichever title it is now. The
\* schema refuses a row without a title, and no row is an error.
Saved(r, dto) ==
  IF r.id \in DOMAIN media /\ media[r.id].kind = dto.kind /\ TitleOf(dto) # None
    THEN [media EXCEPT ![r.id] = RowOf(dto)]
    ELSE media

DetailsArrive(r) ==
  /\ \E dto \in Sent(r.of[1], r.of[2]) : media' = Saved(r, dto)
  /\ asked' = asked \ {r}
  /\ UNCHANGED <<refs, library, tracked, lastId, files>>

\* The request fails, or the window closes before its answer is there.
DetailsFail(r) ==
  /\ asked' = asked \ {r}
  /\ UNCHANGED <<media, refs, library, tracked, lastId, files>>
-----------------------------------------------------------------------------
Snapshot == [media |-> media, refs |-> refs, library |-> library, tracked |-> tracked]

\* `export`: the library as it is, local ids included.
Export ==
  /\ Cardinality(files) < MaxFiles
  /\ files' = files \cup {Snapshot}
  /\ UNCHANGED <<media, refs, library, tracked, lastId, asked>>

\* `restore`: every row is deleted, then inserted with the id the backup has.
\* Requests under way go on.
Restore(f) ==
  /\ media' = f.media
  /\ refs' = f.refs
  /\ library' = f.library
  /\ tracked' = f.tracked
  /\ lastId' = Sequence(DOMAIN f.media)
  /\ UNCHANGED <<asked, files>>

Init ==
  /\ media = << >> /\ refs = << >>
  /\ library = {} /\ tracked = {} /\ asked = {}
  /\ lastId = 0
  /\ files = Foreign

Next ==
  \/ \E k \in Kinds, n \in Numbers : Add(k, n)
  \/ \E id \in DOMAIN media : Remove(id) \/ Track(id) \/ AskDetails(id)
  \/ Clean
  \/ \E r \in asked : DetailsArrive(r) \/ DetailsFail(r)
  \/ Export
  \/ \E f \in files : Restore(f)

Spec == Init /\ [][Next]_vars
-----------------------------------------------------------------------------
\* Rows and identities of a library that belong together.
Theirs(l) ==
  /\ DOMAIN l.refs \subseteq Identities
  /\ Range(l.refs) = DOMAIN l.media
  /\ l.library \cup l.tracked \subseteq DOMAIN l.media
  /\ \A j, k \in DOMAIN l.refs : l.refs[j] = l.refs[k] => j = k
  /\ \A j \in DOMAIN l.refs :
       LET row == l.media[l.refs[j]] IN
         row.kind = j[1] /\ row.title = j /\ row.original \in {j, None}

\* Every row belongs to one title of TMDB and holds that title's texts: a movie
\* and a series with the same number are two rows, a title that comes back has
\* one row, and no answer is saved under another title (library.rs `add`,
\* metadata.rs `save`).
RowsAreTheirs == Theirs(Snapshot)

\* A local id that a request carries still means the title the request asks
\* for, or nothing (database.rs:29 `a local id is never reused after a delete`).
RequestsAreTheirs == \A r \in asked : StoredFor(r.id) \subseteq {r.of}
=============================================================================
