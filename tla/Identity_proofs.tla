-------------------------- MODULE Identity_proofs --------------------------
(***************************************************************************)
(* Identity: without a backup of another profile, a local id means one     *)
(* title of TMDB for ever. The invariant compares everything that holds    *)
(* local ids: the database, every backup file, and every request.          *)
(***************************************************************************)
EXTENDS Identity, TLAPS

\* The database and the backup files.
AllLibraries == {Snapshot} \cup files

\* A library whose ids were given out by the time of `last`.
Sound(l, last) ==
  /\ l \in [media : [DOMAIN l.media -> Row], refs : [DOMAIN l.refs -> DOMAIN l.media],
            library : SUBSET DOMAIN l.media, tracked : SUBSET DOMAIN l.media]
  /\ DOMAIN l.media \subseteq 1..last
  /\ Theirs(l)

\* Two libraries mean the same title by an id they both have.
Same(l, m) == \A j \in DOMAIN l.refs, k \in DOMAIN m.refs : l.refs[j] = m.refs[k] => j = k

\* A request means what a library means by its id.
Meant(r, l) == \A j \in DOMAIN l.refs : l.refs[j] = r.id => j = r.of

IInv ==
  /\ lastId \in Nat
  /\ asked \subseteq Request
  /\ \A l \in AllLibraries : Sound(l, lastId)
  /\ \A l, m \in AllLibraries : Same(l, m)
  /\ \A r \in asked, l \in AllLibraries : Meant(r, l)

\* What a library calls its rows was called so before, or is new.
Known(l) == \A j \in DOMAIN l.refs :
              \/ l.refs[j] > lastId
              \/ \E m \in AllLibraries : j \in DOMAIN m.refs /\ m.refs[j] = l.refs[j]
-----------------------------------------------------------------------------
\* What TMDB sends of a title are that title's texts, or none.
LEMMA TextsAreOwn ==
  ASSUME NEW k \in Kinds, NEW n, NEW dto \in Sent(k, n)
  PROVE  /\ dto.kind = k /\ dto.number = n
         /\ TitleOf(dto) \in {<<k, n>>, None}
         /\ Told(dto.original) \in {<<k, n>>, None}
  BY DEF Sent, Told, TitleOf

\* The sequence follows the row just inserted.
LEMMA SequenceFollows == ASSUME lastId \in Nat PROVE Sequence({NewId}) = lastId + 1
  <1>1. NewId = lastId + 1 /\ NewId > lastId
    BY DEF NewId
  <1>2. (CHOOSE m \in {NewId} : \A n \in {NewId} : n <= m) = NewId
    BY <1>1
  <1> QED BY <1>1, <1>2 DEF Sequence

\* The sequence stays when every row inserted had its id from it.
LEMMA SequenceStays ==
  ASSUME lastId \in Nat, NEW ids, ids \subseteq 1..lastId
  PROVE  Sequence(ids) = lastId
  <1>1. ~ \E m \in ids : m > lastId
    OBVIOUS
  <1> QED BY <1>1 DEF Sequence

\* Ids in a sound library were given out.
LEMMA IdsGivenOut ==
  ASSUME NEW l, NEW last \in Nat, NEW j, j \in DOMAIN l.refs, Sound(l, last)
  PROVE  l.refs[j] \in DOMAIN l.media /\ l.refs[j] \in 1..last
  BY DEF Sound

\* A step that takes no new meaning for an old id keeps the invariant.
LEMMA MeaningStays ==
  ASSUME IInv, lastId' \in Nat, lastId' >= lastId, asked' \subseteq asked,
         files' \subseteq AllLibraries, Sound(Snapshot', lastId'), Known(Snapshot')
  PROVE  IInv'
  <1> DEFINE New == Snapshot'
  <1>1. \A l \in AllLibraries' : l = New \/ l \in AllLibraries
    BY DEF AllLibraries
  <1>2. \A l \in AllLibraries : Sound(l, lastId')
    BY DEF IInv, Sound
  <1>3. \A j \in DOMAIN New.refs, l \in AllLibraries : \A k \in DOMAIN l.refs :
          New.refs[j] = l.refs[k] => j = k
    <2> SUFFICES ASSUME NEW j \in DOMAIN New.refs, NEW l \in AllLibraries,
                        NEW k \in DOMAIN l.refs, New.refs[j] = l.refs[k]
                 PROVE  j = k
      OBVIOUS
    <2>1. l.refs[k] \in 1..lastId
      BY IdsGivenOut DEF IInv
    <2>2. \E m \in AllLibraries : j \in DOMAIN m.refs /\ m.refs[j] = New.refs[j]
      BY <2>1 DEF Known, IInv
    <2> QED BY <2>2 DEF IInv, Same
  <1>4. \A l, m \in AllLibraries' : Same(l, m)
    <2>1. Same(New, New)
      BY DEF Sound, Theirs, Same
    <2>2. \A l \in AllLibraries : Same(New, l) /\ Same(l, New)
      BY <1>3 DEF Same
    <2> HIDE DEF New
    <2> QED BY <1>1, <2>1, <2>2 DEF IInv
  <1>5. \A r \in asked', l \in AllLibraries' : Meant(r, l)
    <2> SUFFICES ASSUME NEW r \in asked, NEW l \in AllLibraries' PROVE Meant(r, l)
      OBVIOUS
    <2>1. CASE l \in AllLibraries
      BY <2>1 DEF IInv
    <2>2. CASE l = New
      <3> SUFFICES ASSUME NEW j \in DOMAIN New.refs, New.refs[j] = r.id PROVE j = r.of
        BY <2>2 DEF Meant
      <3>1. r.id \in 1..lastId
        BY DEF IInv, Request
      <3>2. PICK m \in AllLibraries : j \in DOMAIN m.refs /\ m.refs[j] = New.refs[j]
        BY <3>1 DEF Known, IInv
      <3> QED BY <3>2 DEF IInv, Meant
    <2> QED BY <1>1, <2>1, <2>2
  <1>6. asked' \subseteq Request'
    BY DEF IInv, Request
  <1>7. \A l \in AllLibraries' : Sound(l, lastId')
    <2> HIDE DEF New
    <2> QED BY <1>1, <1>2 DEF New
  <1> QED BY <1>4, <1>5, <1>6, <1>7 DEF IInv
-----------------------------------------------------------------------------
LEMMA InitHolds == ASSUME Foreign = {}, Init PROVE IInv
  <1>1. AllLibraries = {Snapshot}
    BY DEF AllLibraries, Init
  <1>2. DOMAIN media = {} /\ DOMAIN refs = {}
    BY DEF Init
  <1>3. Sound(Snapshot, 0)
    BY <1>2 DEF Init, Sound, Snapshot, Theirs, Range
  <1>4. Same(Snapshot, Snapshot)
    BY <1>2 DEF Same, Snapshot
  <1> QED BY <1>1, <1>3, <1>4 DEF IInv, Init

\* A library whose parts changed in place knows its rows by what they were called.
LEMMA KnownAsBefore ==
  ASSUME DOMAIN refs' \subseteq DOMAIN refs, \A j \in DOMAIN refs' : refs'[j] = refs[j]
  PROVE  Known(Snapshot')
  <1>1. Snapshot \in AllLibraries /\ Snapshot.refs = refs /\ Snapshot'.refs = refs'
    BY DEF AllLibraries, Snapshot
  <1> QED BY <1>1 DEF Known

\* The database is sound.
LEMMA DatabaseSound ==
  ASSUME IInv
  PROVE  /\ lastId \in Nat
         /\ media \in [DOMAIN media -> Row] /\ DOMAIN media \subseteq 1..lastId
         /\ refs \in [DOMAIN refs -> DOMAIN media]
         /\ library \subseteq DOMAIN media /\ tracked \subseteq DOMAIN media
         /\ DOMAIN refs \subseteq Identities /\ Range(refs) = DOMAIN media
         /\ \A j, k \in DOMAIN refs : refs[j] = refs[k] => j = k
         /\ \A j \in DOMAIN refs : /\ media[refs[j]].kind = j[1]
                                   /\ media[refs[j]].title = j
                                   /\ media[refs[j]].original \in {j, None}
  <1>1. lastId \in Nat /\ Sound(Snapshot, lastId)
    BY DEF IInv, AllLibraries
  <1>2. /\ Snapshot.media = media /\ Snapshot.refs = refs
        /\ Snapshot.library = library /\ Snapshot.tracked = tracked
    BY DEF Snapshot
  <1>3. /\ Snapshot.media \in [DOMAIN Snapshot.media -> Row]
        /\ Snapshot.refs \in [DOMAIN Snapshot.refs -> DOMAIN Snapshot.media]
        /\ Snapshot.library \subseteq DOMAIN Snapshot.media
        /\ Snapshot.tracked \subseteq DOMAIN Snapshot.media
        /\ DOMAIN Snapshot.media \subseteq 1..lastId
        /\ Theirs(Snapshot)
    BY <1>1 DEF Sound
  <1> QED BY <1>1, <1>2, <1>3 DEF Theirs

\* A database with these parts is sound.
LEMMA SoundParts ==
  ASSUME lastId' \in Nat,
         media' \in [DOMAIN media' -> Row], DOMAIN media' \subseteq 1..lastId',
         refs' \in [DOMAIN refs' -> DOMAIN media'],
         library' \subseteq DOMAIN media', tracked' \subseteq DOMAIN media',
         DOMAIN refs' \subseteq Identities, Range(refs)' = DOMAIN media',
         \A j, k \in DOMAIN refs' : refs'[j] = refs'[k] => j = k,
         \A j \in DOMAIN refs' : /\ media'[refs'[j]].kind = j[1]
                                 /\ media'[refs'[j]].title = j
                                 /\ media'[refs'[j]].original \in {j, None}
  PROVE  Sound(Snapshot', lastId')
  BY DEF Snapshot, Sound, Theirs, Range

\* A row is rewritten with texts of the title it belongs to.
LEMMA RewriteKeeps ==
  ASSUME IInv, NEW j \in Identities, NEW id, NEW title \in {j, None},
         NEW original \in {j, None},
         id \in DOMAIN media => \A k \in DOMAIN refs : refs[k] = id => k = j,
         id \in DOMAIN media => media[id].kind = j[1], title # None,
         media' = [media EXCEPT ![id] = [kind |-> j[1], title |-> title, original |-> original]],
         refs' = refs, lastId' = lastId, tracked' = tracked,
         library' \subseteq DOMAIN media
  PROVE  Sound(Snapshot', lastId')
  <1>1. [kind |-> j[1], title |-> title, original |-> original] \in Row
    BY DEF Row, Identities
  <1>2. media' \in [DOMAIN media -> Row] /\ DOMAIN media' = DOMAIN media
    BY <1>1, DatabaseSound
  <1>3. \A k \in DOMAIN refs : refs[k] \in DOMAIN media
    BY DatabaseSound
  <1>4. \A k \in DOMAIN refs : /\ media'[refs[k]].kind = k[1]
                               /\ media'[refs[k]].title = k
                               /\ media'[refs[k]].original \in {k, None}
    BY <1>3, DatabaseSound
  <1> QED BY <1>2, <1>4, DatabaseSound, SoundParts DEF Range
-----------------------------------------------------------------------------
LEMMA AddKeeps == ASSUME IInv, NEW k \in Kinds, NEW n \in Numbers, Add(k, n) PROVE IInv'
  <1> DEFINE j == <<k, n>>
  <1>1. PICK dto \in Sent(k, n) :
          /\ IsResult(dto)
          /\ IF MediaFor(j) = {} THEN AddNew(j, dto)
             ELSE \E id \in MediaFor(j) : AddToRow(id, dto)
    BY DEF Add
  <1>2. /\ dto.kind = k /\ dto.number = n /\ TitleOf(dto) = j
        /\ Told(dto.original) \in {j, None} /\ j \in Identities
    BY <1>1, TextsAreOwn DEF IsResult, Identities
  <1>3. tracked' = tracked /\ asked' = asked /\ files' = files
    BY DEF Add
  <1>4. CASE MediaFor(j) = {}
    <2>1. AddNew(j, dto)
      BY <1>1, <1>4
    <2>2. j \notin DOMAIN refs
      BY <1>4 DEF MediaFor
    <2>3. lastId \in Nat /\ NewId = lastId + 1 /\ lastId' = lastId + 1
      BY <2>1, DatabaseSound, SequenceFollows DEF AddNew, NewId
    <2>4. NewId \notin DOMAIN media
      BY <2>3, DatabaseSound
    <2>5. RowOf(dto) \in Row
      BY <1>2 DEF RowOf, Row
    <2>6. /\ DOMAIN media' = DOMAIN media \cup {NewId}
          /\ DOMAIN refs' = DOMAIN refs \cup {j}
          /\ media' \in [DOMAIN media' -> Row]
          /\ refs' \in [DOMAIN refs' -> DOMAIN media']
      BY <2>1, <2>5, DatabaseSound DEF AddNew, With
    <2>7. /\ refs'[j] = NewId /\ media'[NewId] = RowOf(dto)
          /\ \A i \in DOMAIN refs : refs'[i] = refs[i] /\ refs[i] \in DOMAIN media
          /\ \A i \in DOMAIN media : media'[i] = media[i]
      BY <2>1, <2>2, <2>4, DatabaseSound DEF AddNew, With
    <2>8. Range(refs)' = DOMAIN media'
      BY <2>6, <2>7, DatabaseSound DEF Range
    <2>9. \A i, l \in DOMAIN refs' : refs'[i] = refs'[l] => i = l
      BY <2>4, <2>6, <2>7, DatabaseSound
    <2>10. \A i \in DOMAIN refs' : /\ media'[refs'[i]].kind = i[1]
                                   /\ media'[refs'[i]].title = i
                                   /\ media'[refs'[i]].original \in {i, None}
      <3>1. RowOf(dto).kind = j[1] /\ RowOf(dto).title = j /\ RowOf(dto).original \in {j, None}
        BY <1>2 DEF RowOf
      <3> HIDE DEF j
      <3> QED BY <3>1, <2>6, <2>7, DatabaseSound
    <2>11. DOMAIN media' \subseteq 1..lastId' /\ DOMAIN refs' \subseteq Identities
      BY <1>2, <2>3, <2>6, DatabaseSound
    <2>12. library' \subseteq DOMAIN media' /\ tracked' \subseteq DOMAIN media'
      BY <1>3, <2>1, <2>6, DatabaseSound DEF AddNew
    <2>13. Sound(Snapshot', lastId')
      BY <2>3, <2>6, <2>8, <2>9, <2>10, <2>11, <2>12, SoundParts
    <2>14. Known(Snapshot')
      <3>1. Snapshot \in AllLibraries /\ Snapshot.refs = refs /\ Snapshot'.refs = refs'
        BY DEF AllLibraries, Snapshot
      <3> QED BY <3>1, <2>3, <2>6, <2>7 DEF Known
    <2> QED BY <1>3, <2>3, <2>13, <2>14, MeaningStays DEF AllLibraries
  <1>5. CASE MediaFor(j) # {}
    <2>1. PICK id \in MediaFor(j) : AddToRow(id, dto)
      BY <1>1, <1>5
    <2>2. j \in DOMAIN refs /\ id = refs[j] /\ id \in DOMAIN media
      BY <2>1, DatabaseSound DEF MediaFor
    <2> DEFINE original == IF Told(dto.original) = None THEN media[id].original
                                                        ELSE Told(dto.original)
    <2>3. original \in {j, None} /\ media[id].kind = j[1]
      BY <1>2, <2>2, DatabaseSound
    <2>4. /\ media' = [media EXCEPT ![id] = [kind |-> j[1], title |-> j, original |-> original]]
          /\ refs' = refs /\ lastId' = lastId /\ library' \subseteq DOMAIN media
      BY <1>2, <2>1, <2>2, <2>3, DatabaseSound DEF AddToRow
    <2>5. \A i \in DOMAIN refs : refs[i] = id => i = j
      BY <2>2, DatabaseSound
    <2>6. j # None
      BY <1>1, <1>2 DEF IsResult
    <2> HIDE DEF original, j
    <2>7. Sound(Snapshot', lastId')
      BY <1>2, <1>3, <2>2, <2>3, <2>4, <2>5, <2>6, RewriteKeeps
    <2> QED BY <1>3, <2>4, <2>7, KnownAsBefore, MeaningStays, DatabaseSound DEF AllLibraries
  <1> QED BY <1>4, <1>5

LEMMA MembershipKeeps ==
  ASSUME IInv, library' \subseteq DOMAIN media, tracked' \subseteq DOMAIN media,
         UNCHANGED <<media, refs, lastId, asked, files>>
  PROVE  IInv'
  <1>1. Sound(Snapshot', lastId')
    BY DatabaseSound, SoundParts DEF Range
  <1> QED BY <1>1, KnownAsBefore, MeaningStays, DatabaseSound DEF AllLibraries

LEMMA RemoveKeeps == ASSUME IInv, NEW id, Remove(id) PROVE IInv'
  BY MembershipKeeps, DatabaseSound DEF Remove

LEMMA TrackKeeps == ASSUME IInv, NEW id, Track(id) PROVE IInv'
  BY MembershipKeeps, DatabaseSound DEF Track

LEMMA CleanKeeps == ASSUME IInv, Clean PROVE IInv'
  <1> DEFINE orphans == DOMAIN media \ (library \cup tracked)
             gone == {j \in DOMAIN refs : refs[j] \in orphans}
  <1>1. /\ media' = Without(media, orphans) /\ refs' = Without(refs, gone)
        /\ UNCHANGED <<library, tracked, lastId, asked, files>>
    BY DEF Clean
  <1>2. /\ DOMAIN media' = DOMAIN media \ orphans /\ DOMAIN refs' = DOMAIN refs \ gone
        /\ \A i \in DOMAIN media' : media'[i] = media[i]
        /\ \A j \in DOMAIN refs' : refs'[j] = refs[j]
    BY <1>1 DEF Without
  <1>3. library' \subseteq DOMAIN media' /\ tracked' \subseteq DOMAIN media'
    BY <1>1, <1>2, DatabaseSound
  <1>4. \A j \in DOMAIN refs' : refs'[j] \in DOMAIN media'
    BY <1>2, DatabaseSound
  <1>5. media' \in [DOMAIN media' -> Row] /\ refs' \in [DOMAIN refs' -> DOMAIN media']
    BY <1>1, <1>2, <1>4, DatabaseSound DEF Without
  <1>6. Range(refs)' = DOMAIN media'
    <2>1. \A i \in DOMAIN media' : \E j \in DOMAIN refs' : refs'[j] = i
      <3> SUFFICES ASSUME NEW i \in DOMAIN media' PROVE \E j \in DOMAIN refs' : refs'[j] = i
        OBVIOUS
      <3>1. PICK j \in DOMAIN refs : refs[j] = i
        BY <1>2, DatabaseSound DEF Range
      <3> QED BY <1>2, <3>1
    <2> QED BY <2>1, <1>4 DEF Range
  <1>7. /\ \A j, k \in DOMAIN refs' : refs'[j] = refs'[k] => j = k
        /\ \A j \in DOMAIN refs' : /\ media'[refs'[j]].kind = j[1]
                                   /\ media'[refs'[j]].title = j
                                   /\ media'[refs'[j]].original \in {j, None}
    <2> HIDE DEF orphans, gone
    <2> QED BY <1>2, <1>4, DatabaseSound
  <1>8. DOMAIN media' \subseteq 1..lastId' /\ DOMAIN refs' \subseteq Identities /\ lastId' \in Nat
    BY <1>1, <1>2, DatabaseSound
  <1> HIDE DEF orphans, gone
  <1>9. Sound(Snapshot', lastId')
    BY <1>3, <1>5, <1>6, <1>7, <1>8, SoundParts
  <1>10. Known(Snapshot')
    BY <1>2, KnownAsBefore
  <1> QED BY <1>1, <1>9, <1>10, MeaningStays, DatabaseSound DEF AllLibraries
-----------------------------------------------------------------------------
LEMMA AskDetailsKeeps == ASSUME IInv, NEW id, AskDetails(id) PROVE IInv'
  <1>1. PICK j \in StoredFor(id) : asked' = asked \cup {[id |-> id, of |-> j]}
    BY DEF AskDetails
  <1> DEFINE r == [id |-> id, of |-> j]
  <1>2. UNCHANGED <<media, refs, library, tracked, lastId, files>>
    BY DEF AskDetails
  <1>3. AllLibraries' = AllLibraries
    BY <1>2 DEF AllLibraries, Snapshot
  <1>4. j \in DOMAIN refs /\ refs[j] = id /\ r \in Request
    BY <1>1, DatabaseSound DEF StoredFor, Request
  <1>5. \A l \in AllLibraries : Meant(r, l)
    <2> SUFFICES ASSUME NEW l \in AllLibraries, NEW k \in DOMAIN l.refs, l.refs[k] = id
                 PROVE  k = j
      BY DEF Meant
    <2>1. Snapshot \in AllLibraries /\ Snapshot.refs = refs
      BY DEF AllLibraries, Snapshot
    <2> QED BY <1>4, <2>1 DEF IInv, Same
  <1>6. asked' \subseteq Request'
    BY <1>1, <1>2, <1>4 DEF IInv, Request
  <1> HIDE DEF r
  <1> QED BY <1>1, <1>2, <1>3, <1>5, <1>6 DEF IInv, r

\* An answer is saved under the title it was asked for.
LEMMA DetailsArriveKeeps == ASSUME IInv, NEW r \in asked, DetailsArrive(r) PROVE IInv'
  <1>1. PICK dto \in Sent(r.of[1], r.of[2]) : media' = Saved(r, dto)
    BY DEF DetailsArrive
  <1>2. /\ asked' = asked \ {r} /\ UNCHANGED <<refs, library, tracked, lastId, files>>
    BY DEF DetailsArrive
  <1> DEFINE j == r.of
  <1>3. r \in Request
    BY DEF IInv
  <1>4. j \in Identities /\ j[1] \in Kinds /\ j = <<j[1], j[2]>>
    BY <1>3 DEF Request, Identities
  <1>5. /\ dto.kind = j[1] /\ TitleOf(dto) \in {j, None} /\ Told(dto.original) \in {j, None}
    BY <1>1, <1>4, TextsAreOwn
  <1>6. \A k \in DOMAIN refs : refs[k] = r.id => k = j
    <2>1. Snapshot \in AllLibraries /\ Snapshot.refs = refs
      BY DEF AllLibraries, Snapshot
    <2> QED BY <2>1 DEF IInv, Meant
  <1>7. library' \subseteq DOMAIN media
    BY <1>2, DatabaseSound
  <1> HIDE DEF j
  <1>8. CASE r.id \in DOMAIN media /\ media[r.id].kind = dto.kind /\ TitleOf(dto) # None
    <2>1. media' = [media EXCEPT ![r.id] = [kind |-> j[1], title |-> TitleOf(dto),
                                            original |-> Told(dto.original)]]
      BY <1>1, <1>5, <1>8 DEF Saved, RowOf
    <2>2. Sound(Snapshot', lastId')
      BY <1>2, <1>4, <1>5, <1>6, <1>7, <1>8, <2>1, RewriteKeeps
    <2> QED BY <1>2, <2>2, KnownAsBefore, MeaningStays, DatabaseSound DEF AllLibraries
  <1>9. CASE ~ (r.id \in DOMAIN media /\ media[r.id].kind = dto.kind /\ TitleOf(dto) # None)
    <2>1. media' = media
      BY <1>1, <1>9 DEF Saved
    <2>2. Sound(Snapshot', lastId')
      BY <1>2, <2>1, DatabaseSound, SoundParts DEF Range
    <2> QED BY <1>2, <2>1, <2>2, KnownAsBefore, MeaningStays, DatabaseSound DEF AllLibraries
  <1> QED BY <1>8, <1>9

LEMMA DetailsFailKeeps == ASSUME IInv, NEW r \in asked, DetailsFail(r) PROVE IInv'
  <1>1. asked' \subseteq asked /\ UNCHANGED <<media, refs, library, tracked, lastId, files>>
    BY DEF DetailsFail
  <1>2. Sound(Snapshot', lastId')
    BY <1>1, DatabaseSound, SoundParts DEF Range
  <1> QED BY <1>1, <1>2, KnownAsBefore, MeaningStays, DatabaseSound DEF AllLibraries
-----------------------------------------------------------------------------
LEMMA ExportKeeps == ASSUME IInv, Export PROVE IInv'
  <1>1. files' = files \cup {Snapshot} /\ UNCHANGED <<media, refs, library, tracked, lastId, asked>>
    BY DEF Export
  <1>2. Sound(Snapshot', lastId')
    BY <1>1, DatabaseSound, SoundParts DEF Range
  <1> QED BY <1>1, <1>2, KnownAsBefore, MeaningStays, DatabaseSound DEF AllLibraries

\* A backup of this profile gives no id another meaning.
LEMMA RestoreKeeps == ASSUME IInv, NEW f \in files, Restore(f) PROVE IInv'
  <1>1. /\ media' = f.media /\ refs' = f.refs /\ library' = f.library /\ tracked' = f.tracked
        /\ lastId' = Sequence(DOMAIN f.media) /\ UNCHANGED <<asked, files>>
    BY DEF Restore
  <1>2. f \in AllLibraries /\ Sound(f, lastId) /\ lastId \in Nat
    BY DEF AllLibraries, IInv
  <1>3. lastId' = lastId
    BY <1>1, <1>2, SequenceStays DEF Sound
  <1>4. f = Snapshot'
    BY <1>1, <1>2 DEF Sound, Snapshot
  <1>5. Known(Snapshot')
    BY <1>2, <1>4 DEF Known
  <1> QED BY <1>1, <1>2, <1>3, <1>4, <1>5, MeaningStays DEF AllLibraries

LEMMA NextKeeps == ASSUME IInv, [Next]_vars PROVE IInv'
  <1>1. CASE UNCHANGED vars
    <2>1. Sound(Snapshot', lastId')
      BY <1>1, DatabaseSound, SoundParts DEF vars, Range
    <2> QED BY <1>1, <2>1, KnownAsBefore, MeaningStays, DatabaseSound DEF AllLibraries, vars
  <1>2. CASE \E k \in Kinds, n \in Numbers : Add(k, n)
    BY <1>2, AddKeeps
  <1>3. CASE \E id \in DOMAIN media : Remove(id) \/ Track(id) \/ AskDetails(id)
    BY <1>3, RemoveKeeps, TrackKeeps, AskDetailsKeeps
  <1>4. CASE Clean
    BY <1>4, CleanKeeps
  <1>5. CASE \E r \in asked : DetailsArrive(r) \/ DetailsFail(r)
    BY <1>5, DetailsArriveKeeps, DetailsFailKeeps
  <1>6. CASE Export
    BY <1>6, ExportKeeps
  <1>7. CASE \E f \in files : Restore(f)
    BY <1>7, RestoreKeeps
  <1> QED BY <1>1, <1>2, <1>3, <1>4, <1>5, <1>6, <1>7 DEF Next
-----------------------------------------------------------------------------
\* Without a backup of another profile, ids and titles agree for ever.
LEMMA AlwaysAgree == ASSUME Foreign = {} PROVE Spec => []IInv
  <1>1. Init => IInv
    BY InitHolds
  <1>2. IInv /\ [Next]_vars => IInv'
    BY NextKeeps
  <1> QED BY <1>1, <1>2, PTL DEF Spec

\* Every row holds the texts of the one title of TMDB it belongs to, whatever was
\* removed, cleaned away, added again or restored while requests were under way
\* (library.rs `add`, metadata.rs `save`, backup.rs `restore`).
THEOREM RowsStayTheirs == ASSUME Foreign = {} PROVE Spec => []RowsAreTheirs
  <1>1. IInv => RowsAreTheirs
    BY DEF IInv, AllLibraries, Sound, RowsAreTheirs
  <1> QED BY <1>1, AlwaysAgree, PTL

\* No local id a request carries ever means another title (database.rs:29).
THEOREM RequestsStayTheirs == ASSUME Foreign = {} PROVE Spec => []RequestsAreTheirs
  <1>1. IInv => RequestsAreTheirs
    <2> SUFFICES ASSUME IInv, NEW r \in asked, NEW j \in DOMAIN refs, refs[j] = r.id
                 PROVE  j = r.of
      BY DEF RequestsAreTheirs, StoredFor
    <2>1. Snapshot \in AllLibraries /\ Snapshot.refs = refs
      BY DEF AllLibraries, Snapshot
    <2> QED BY <2>1 DEF IInv, Meant
  <1> QED BY <1>1, AlwaysAgree, PTL
=============================================================================
