------------------------ MODULE VideoThumbnailsProofs -----------------------
(***************************************************************************)
(* Proofs about VideoThumbnails, for any videos and any number of acts.    *)
(***************************************************************************)
EXTENDS VideoThumbnails, FiniteSetTheorems, TLAPS

Picture(r) == [id |-> r.id, video |-> r.video]
AtItem == loader \in {"make", "save", "update", "time"}

\* No id has been two videos', and every id is known.
IdsAreOld ==
  /\ \A r \in rows : r.id <= lastId
  /\ \A i \in items : i.id <= lastId
  /\ \A c \in cache : c.id <= lastId
  /\ AtItem => item.id <= lastId

IdsAgree ==
  /\ \A r, s \in rows : r.id = s.id => r = s
  /\ \A i \in items, r \in rows : i.id = r.id => i.video = r.video
  /\ \A c \in cache, r \in rows : c.id = r.id => c.video = r.video
  /\ AtItem => \A r \in rows : r.id = item.id => r.video = item.video

\* A picture that the table names is there.
OwnIsThere ==
  /\ \A r \in rows : r.picture = "own" => Picture(r) \in cache
  /\ loader = "update" => \A r \in rows : r.id = item.id => Picture(r) \in cache

IInv == IdsAreOld /\ IdsAgree /\ OwnIsThere

\* And one that the list shows.
ListHasFiles ==
  /\ screen # "folders" => default
  /\ pending \/ (loader # "none" /\ ~cancelled) => screen = "list"
  /\ screen # "list" => items = {}
  /\ \A i \in items : i.picture = "own" => \E c \in cache : c.id = i.id
  /\ loader = "update" /\ ~cancelled => \E c \in cache : c.id = item.id

-----------------------------------------------------------------------------
\* What the new rows are: Inserted(stay) holds after Insert(new, stay).
Inserted(stay) ==
  /\ lastId' \in 0..MaxId /\ lastId <= lastId'
  /\ rows' \subseteq Rows /\ stay \subseteq rows'
  /\ \A r \in rows' : r \notin stay => r.id > lastId /\ r.id <= lastId' /\ r.picture = "none"
  /\ \A r, s \in rows' : r \notin stay /\ s \notin stay /\ r.id = s.id => r = s

LEMMA InsertIsFresh ==
  ASSUME TypeOK, NEW new \in SUBSET Videos, NEW stay \in SUBSET rows, Insert(new, stay)
  PROVE  Inserted(stay)
<1> DEFINE n == Cardinality(new)
<1>1. n \in Nat
  BY ThumbnailAssumption, FS_Subset, FS_CardinalityType
<1>2. lastId \in Nat /\ lastId <= MaxId /\ MaxId \in Nat
  BY ThumbnailAssumption DEF TypeOK
<1> HIDE DEF n
<1>3. PICK ids \in [new -> (lastId + 1)..(lastId + n)] :
        /\ \A v, w \in new : v # w => ids[v] # ids[w]
        /\ lastId + n <= MaxId
        /\ rows' = stay \cup {Row(ids[v], v) : v \in new}
        /\ lastId' = lastId + n
  BY DEF Insert, AfterLast, n
<1>4. \A v \in new : ids[v] \in Ids /\ ids[v] > lastId /\ ids[v] <= lastId'
  BY <1>1, <1>2, <1>3 DEF Ids
<1>5. lastId' \in 0..MaxId /\ lastId <= lastId'
  BY <1>1, <1>2, <1>3
<1>6. \A v \in new : Row(ids[v], v) \in Rows
  BY <1>4 DEF Row, Rows
<1>7. \A v \in new : Row(ids[v], v).id = ids[v] /\ Row(ids[v], v).picture = "none"
  BY DEF Row
<1>8. rows' \subseteq Rows /\ stay \subseteq rows'
  BY <1>3, <1>6 DEF TypeOK
<1>9. ASSUME NEW r \in rows', r \notin stay
      PROVE  \E v \in new : r = Row(ids[v], v)
  BY <1>3, <1>9
<1>10. \A r \in rows' : r \notin stay => r.id > lastId /\ r.id <= lastId' /\ r.picture = "none"
  BY <1>4, <1>7, <1>9
<1>11. \A r, s \in rows' : r \notin stay /\ s \notin stay /\ r.id = s.id => r = s
  BY <1>3, <1>7, <1>9
<1> QED
  BY <1>5, <1>8, <1>10, <1>11 DEF Inserted

\* The names that the actions share.
LEMMA ChangedRows ==
  ASSUME NEW S \in SUBSET Rows, NEW p \in {"none", "default", "own"}, NEW t \in BOOLEAN
  PROVE  WithPicture(S, p) \subseteq Rows /\ WithTime(S, t) \subseteq Rows
BY DEF WithPicture, WithTime, Rows

(* The rows, the list, the files and the loader keep their types.           *)
THEOREM TypeCorrect == Spec => []TypeOK
<1>1. Init => TypeOK
  <2>1. 0 \in 0..MaxId /\ MaxActs \in 0..MaxActs
    BY ThumbnailAssumption
  <2> QED
    BY <2>1 DEF Init, TypeOK
<1>2. TypeOK /\ [Next]_vars => TypeOK'
  <2> SUFFICES ASSUME TypeOK, [Next]_vars PROVE TypeOK'
    OBVIOUS
  <2>0. acts \in 0..MaxActs /\ MaxActs \in Nat /\ (Act => acts' \in 0..MaxActs)
    BY ThumbnailAssumption DEF TypeOK, Act
  <2>1. ASSUME NEW stay \in SUBSET rows, DeletePictures(stay)
        PROVE  cache' \subseteq [id : Ids, video : Videos] /\ default' \in BOOLEAN
    BY <2>1 DEF DeletePictures, TypeOK
  <2>2. CASE AddFolder
    <3>1. Inserted(rows)
      BY <2>2, InsertIsFresh DEF AddFolder, TypeOK
    <3> QED
      BY <2>0, <2>2, <3>1 DEF AddFolder, OnFolders, Inserted, TypeOK, card, files, shown, job
  <2>3. CASE Refresh \/ Back
    <3> DEFINE gone == {r \in rows : r.video \notin disk}
    <3>1. DeletePictures(gone) /\ Inserted(rows \ gone)
      BY <2>3, InsertIsFresh DEF Refresh, Back, deleteVideoNotExist, TypeOK
    <3>2. cache' \subseteq [id : Ids, video : Videos] /\ default' \in BOOLEAN
      BY <2>1, <3>1
    <3> HIDE DEF gone
    <3>3. CASE Refresh
      BY <2>0, <3>1, <3>2, <3>3 DEF Refresh, OnFolders, Inserted, TypeOK, card, shown, job
    <3>4. CASE Back
      BY <2>0, <3>1, <3>2, <3>4 DEF Back, onPause, ItemKept, Inserted, TypeOK, card
    <3> QED
      BY <2>3, <3>3, <3>4
  <2>4. CASE DeleteFolder
    <3>1. cache' \subseteq [id : Ids, video : Videos] /\ default' \in BOOLEAN
      BY <2>1, <2>4 DEF DeleteFolder
    <3> QED
      BY <2>0, <2>4, <3>1 DEF DeleteFolder, OnFolders, TypeOK, shown, job
  <2>5. CASE OpenList
    BY <2>0, <2>5 DEF OpenList, OnFolders, saveDefaultThumbnail, StartLoader, TypeOK, card, library
  <2>6. CASE Return
    BY <2>0, <2>6 DEF Return, StartLoader, TypeOK, card, library, files
  <2>7. CASE Cover
    BY <2>0, <2>7 DEF Cover, onPause, ItemKept, TypeOK, card, files
  <2>8. CASE DeleteVideo
    BY <2>0, <2>8 DEF DeleteVideo, TypeOK, files
  <2>9. CASE Begin
    BY <2>9 DEF Begin, TypeOK, card, library, files, shown, Rows
  <2>10. CASE NextItem
    BY <2>10 DEF NextItem, AtWork, TypeOK, card, files
  <2>11. ASSUME NEW p \in {"default", "own"}, SetPicture(p), item \in Rows
         PROVE  rows' \subseteq Rows /\ items' \subseteq Rows /\ item' \in Rows
    <3>1. WithPicture(rows, p) \subseteq Rows /\ WithPicture(items, p) \subseteq Rows
      BY ChangedRows DEF TypeOK
    <3>2. item' \in Rows
      BY <2>11 DEF SetPicture, Rows
    <3> QED
      BY <2>11, <3>1, <3>2 DEF SetPicture, TypeOK
  <2>12. CASE MakePicture
    <3>1. item \in Rows
      BY <2>12 DEF MakePicture, TypeOK
    <3>2. rows' \subseteq Rows /\ items' \subseteq Rows /\ item' \in Rows
      BY <2>11, <2>12, <3>1 DEF MakePicture, TypeOK
    <3>3. loader' \in {"save", "next", "time"}
      BY <2>12 DEF MakePicture, Then
    <3> QED
      BY <2>12, <3>2, <3>3 DEF MakePicture, AtWork, TypeOK, card, files
  <2>13. CASE SaveBitmap
    <3>1. item \in Rows
      BY <2>13 DEF SaveBitmap, TypeOK
    <3>2. [id |-> item.id, video |-> item.video] \in [id : Ids, video : Videos]
      BY <3>1 DEF Rows
    <3> QED
      BY <2>13, <3>1, <3>2 DEF SaveBitmap, AtWork, TypeOK, card
  <2>14. CASE UpdatePicture
    <3>1. item \in Rows
      BY <2>14 DEF UpdatePicture, TypeOK
    <3>2. rows' \subseteq Rows /\ items' \subseteq Rows /\ item' \in Rows
      BY <2>11, <2>14, <3>1 DEF UpdatePicture
    <3>3. loader' \in {"next", "time"}
      BY <2>14 DEF UpdatePicture, Then
    <3> QED
      BY <2>14, <3>2, <3>3 DEF UpdatePicture, AtWork, TypeOK, card, files
  <2>15. CASE SetDuration
    <3>1. item \in Rows
      BY <2>15 DEF SetDuration, TypeOK
    <3>2. PICK known \in BOOLEAN :
            /\ rows' = WithTime(rows, known)
            /\ items' = IF cancelled THEN items ELSE WithTime(items, known)
            /\ item' = [item EXCEPT !.timed = known]
      BY <2>15 DEF SetDuration
    <3>3. WithTime(rows, known) \subseteq Rows /\ WithTime(items, known) \subseteq Rows
      BY ChangedRows DEF TypeOK
    <3>4. item' \in Rows
      BY <3>1, <3>2 DEF Rows
    <3> QED
      BY <2>15, <3>2, <3>3, <3>4 DEF SetDuration, AtWork, TypeOK, card, files
  <2>16. CASE End
    BY <2>16 DEF End, AtWork, TypeOK, card, files
  <2>17. CASE Die /\ acts' \in 0..MaxActs
    BY <2>17 DEF Die, TypeOK, card, library, files
  <2>18. CASE LoaderThrows
    BY <2>0, <2>17, <2>18 DEF LoaderThrows
  <2>19. CASE Others
    <3>1. CASE Die
      BY <2>0, <2>17, <2>19, <3>1 DEF Others
    <3>2. CASE ~Die
      BY <2>0, <2>19, <3>2 DEF Others, TypeOK, library, files, shown, job
    <3> QED
      BY <3>1, <3>2
  <2>20. CASE UNCHANGED vars
    BY <2>20 DEF vars, TypeOK, card, library, files, shown, job
  <2> QED
    BY <2>2, <2>3, <2>4, <2>5, <2>6, <2>7, <2>8, <2>9, <2>10, <2>12, <2>13, <2>14, <2>15,
       <2>16, <2>18, <2>19, <2>20 DEF Next, Loader
<1> QED
  BY <1>1, <1>2, PTL DEF Spec

-----------------------------------------------------------------------------
(* The step lemmas take the types before and after for granted.            *)

\* Where rows only go, and pictures go with their rows.
RowsGo ==
  /\ rows' \subseteq rows /\ items' \subseteq items /\ cache' \subseteq cache
  /\ \A r \in rows' : Picture(r) \in cache => Picture(r) \in cache'
  /\ lastId' = lastId /\ item' = item /\ loader' = loader

LEMMA DeletedWithRows ==
  ASSUME TypeOK, IdsAgree, NEW gone \in SUBSET rows, DeletePictures(gone)
  PROVE  /\ cache' \subseteq cache
         /\ \A r \in rows \ gone : Picture(r) \in cache => Picture(r) \in cache'
BY DEF DeletePictures, Picture, IdsAgree

LEMMA GoneKeepsIInv ==
  ASSUME TypeOK, TypeOK', IInv, RowsGo
  PROVE  IInv'
BY DEF RowsGo, IInv, IdsAreOld, IdsAgree, OwnIsThere, AtItem, Picture

LEMMA InsertKeepsIInv ==
  ASSUME TypeOK, TypeOK', IInv, NEW stay \in SUBSET rows, Inserted(stay),
         cache' \subseteq cache, items' \subseteq items,
         \A r \in stay : Picture(r) \in cache => Picture(r) \in cache',
         item' = item, loader' = loader
  PROVE  IInv'
<1> USE DEF IInv
<1>1. \A r \in rows' : r \in stay \/ (r.id > lastId /\ r.id <= lastId' /\ r.picture = "none")
  BY DEF Inserted
<1>2. lastId \in Nat /\ lastId' \in Nat /\ lastId <= lastId'
  BY ThumbnailAssumption DEF Inserted, TypeOK
<1>3. \A r \in Rows : r.id \in Int
  BY DEF Rows, Ids
<1>4. rows \subseteq Rows /\ items \subseteq Rows /\ \A c \in cache : c.id \in Int
  BY DEF TypeOK, Ids
<1>5. AtItem => item \in Rows
  BY DEF AtItem, TypeOK
<1>6. IdsAreOld'
  BY <1>1, <1>2, <1>3, <1>4, <1>5 DEF IdsAreOld, AtItem
<1>7. IdsAgree'
  <2>1. \A r, s \in rows' : r.id = s.id => r = s
    <3> SUFFICES ASSUME NEW r \in rows', NEW s \in rows', r.id = s.id PROVE r = s
      OBVIOUS
    <3>1. CASE r \in stay /\ s \in stay
      BY <3>1 DEF IdsAgree
    <3>2. CASE r \notin stay /\ s \notin stay
      BY <3>2 DEF Inserted
    <3>3. CASE r \in stay /\ s \notin stay
      BY <1>1, <1>2, <1>3, <1>4, <3>3 DEF IdsAreOld
    <3>4. CASE r \notin stay /\ s \in stay
      BY <1>1, <1>2, <1>3, <1>4, <3>4 DEF IdsAreOld
    <3> QED
      BY <3>1, <3>2, <3>3, <3>4
  <2>2. \A i \in items', r \in rows' : i.id = r.id => i.video = r.video
    BY <1>1, <1>2, <1>3, <1>4 DEF IdsAreOld, IdsAgree
  <2>3. \A c \in cache', r \in rows' : c.id = r.id => c.video = r.video
    BY <1>1, <1>2, <1>3, <1>4 DEF IdsAreOld, IdsAgree
  <2>4. AtItem' => \A r \in rows' : r.id = item'.id => r.video = item'.video
    BY <1>1, <1>2, <1>3, <1>4, <1>5 DEF IdsAreOld, IdsAgree, AtItem
  <2> QED
    BY <2>1, <2>2, <2>3, <2>4 DEF IdsAgree
<1>8. OwnIsThere'
  BY <1>1, <1>2, <1>3, <1>4, <1>5 DEF OwnIsThere, IdsAreOld, AtItem, Picture
<1> QED
  BY <1>6, <1>7, <1>8

LEMMA SetPictureKeepsIInv ==
  ASSUME TypeOK, TypeOK', IInv, AtItem, NEW p \in {"default", "own"}, SetPicture(p),
         p = "own" => loader = "update",
         cache' = cache, lastId' = lastId, loader' \in {"next", "time"}
  PROVE  IInv'
<1> USE DEF IInv
<1>1. item \in Rows /\ item' \in [id : {item.id}, video : {item.video}, picture : {p}, timed : BOOLEAN]
  BY DEF AtItem, TypeOK, SetPicture, Rows
<1>2. ASSUME NEW S \in SUBSET Rows, NEW r \in WithPicture(S, p)
      PROVE  \E o \in S : /\ r.id = o.id /\ r.video = o.video
                          /\ r.id = item.id => r.picture = p
                          /\ r.id # item.id => r = o
  BY <1>2 DEF WithPicture, Rows
<1>3. rows \subseteq Rows /\ items \subseteq Rows
  BY DEF TypeOK
<1>4. ASSUME NEW r \in rows'
      PROVE  \E o \in rows : /\ r.id = o.id /\ r.video = o.video
                             /\ r.id = item.id => r.picture = p
                             /\ r.id # item.id => r = o
  BY <1>2, <1>3 DEF SetPicture
<1>5. ASSUME NEW i \in items'
      PROVE  \E o \in items : i.id = o.id /\ i.video = o.video
  BY <1>2, <1>3 DEF SetPicture
<1>6. IdsAreOld'
  BY <1>1, <1>4, <1>5 DEF IdsAreOld, AtItem
<1>7. IdsAgree'
  <2>1. \A r, s \in rows' : r.id = s.id => r = s
    BY <1>3 DEF IdsAgree, SetPicture, WithPicture, Rows
  <2>2. \A i \in items', r \in rows' : i.id = r.id => i.video = r.video
    BY <1>4, <1>5 DEF IdsAgree
  <2>3. \A c \in cache', r \in rows' : c.id = r.id => c.video = r.video
    BY <1>4 DEF IdsAgree
  <2>4. AtItem' => \A r \in rows' : r.id = item'.id => r.video = item'.video
    BY <1>1, <1>4 DEF IdsAgree
  <2> QED
    BY <2>1, <2>2, <2>3, <2>4 DEF IdsAgree
<1>8. OwnIsThere'
  BY <1>4 DEF OwnIsThere, Picture
<1> QED
  BY <1>6, <1>7, <1>8

LEMMA SetDurationKeepsIInv ==
  ASSUME TypeOK, TypeOK', IInv, SetDuration
  PROVE  IInv'
<1> USE DEF IInv
<1>1. PICK known \in BOOLEAN :
        /\ rows' = WithTime(rows, known)
        /\ items' = IF cancelled THEN items ELSE WithTime(items, known)
        /\ item' = [item EXCEPT !.timed = known]
  BY DEF SetDuration
<1>2. cache' = cache /\ lastId' = lastId /\ loader' = "next"
  BY DEF SetDuration, AtWork, files
<1>3. rows \subseteq Rows /\ items \subseteq Rows
  BY DEF TypeOK
<1>4. ASSUME NEW S \in SUBSET Rows, NEW r \in WithTime(S, known)
      PROVE  \E o \in S : r.id = o.id /\ r.video = o.video /\ r.picture = o.picture
  BY <1>4 DEF WithTime, Rows
<1>5. ASSUME NEW r \in rows'
      PROVE  \E o \in rows : r.id = o.id /\ r.video = o.video /\ r.picture = o.picture
  BY <1>1, <1>3, <1>4
<1>6. ASSUME NEW i \in items'
      PROVE  \E o \in items : i.id = o.id /\ i.video = o.video
  BY <1>1, <1>3, <1>4
<1>7. IdsAreOld'
  BY <1>2, <1>5, <1>6 DEF IdsAreOld, AtItem
<1>8. IdsAgree'
  <2>1. \A r, s \in rows' : r.id = s.id => r = s
    BY <1>1, <1>3 DEF IdsAgree, WithTime, Rows
  <2> QED
    BY <2>1, <1>2, <1>5, <1>6 DEF IdsAgree, AtItem
<1>9. OwnIsThere'
  BY <1>2, <1>5 DEF OwnIsThere, Picture
<1> QED
  BY <1>7, <1>8, <1>9

LEMMA SaveKeepsIInv ==
  ASSUME TypeOK, TypeOK', IInv, SaveBitmap
  PROVE  IInv'
<1> DEFINE new == [id |-> item.id, video |-> item.video]
<1>1. /\ cache' = {c \in cache : c.id # item.id} \cup {new}
      /\ new.id = item.id /\ new.video = item.video
      /\ AtItem /\ AtItem' /\ loader' = "update"
      /\ UNCHANGED <<rows, items, item, lastId>>
  BY DEF SaveBitmap, AtWork, AtItem
<1>2. ASSUME NEW r \in rows, Picture(r) \in cache \/ r.id = item.id
      PROVE  Picture(r) \in cache'
  <2>1. CASE r.id = item.id
    <3>1. Picture(r) = new
      BY <1>1, <2>1 DEF Picture, IInv, IdsAgree
    <3> QED
      BY <1>1, <3>1
  <2>2. CASE r.id # item.id
    <3>1. Picture(r).id = r.id
      BY DEF Picture
    <3> QED
      BY <1>1, <1>2, <2>2, <3>1
  <2> QED
    BY <2>1, <2>2
<1> HIDE DEF new
<1>3. IdsAreOld'
  BY <1>1 DEF IInv, IdsAreOld
<1>4. IdsAgree'
  BY <1>1 DEF IInv, IdsAgree
<1>5. OwnIsThere'
  BY <1>1, <1>2 DEF IInv, OwnIsThere
<1> QED
  BY <1>3, <1>4, <1>5 DEF IInv

LEMMA StepKeepsIInv ==
  TypeOK /\ TypeOK' /\ IInv /\ [Next]_vars => IInv'
<1> SUFFICES ASSUME TypeOK, TypeOK', IInv, [Next]_vars PROVE IInv'
  OBVIOUS
<1>1. CASE AddFolder
  <2>1. Inserted(rows)
    BY <1>1, InsertIsFresh DEF AddFolder, TypeOK
  <2> QED
    BY <1>1, <2>1, InsertKeepsIInv DEF AddFolder, files, shown, job
<1>2. CASE Refresh \/ Back
  <2> DEFINE gone == {r \in rows : r.video \notin disk}
  <2>1. DeletePictures(gone) /\ Inserted(rows \ gone)
    BY <1>2, InsertIsFresh DEF Refresh, Back, deleteVideoNotExist, TypeOK
  <2>2. /\ cache' \subseteq cache
        /\ \A r \in rows \ gone : Picture(r) \in cache => Picture(r) \in cache'
    BY <2>1, DeletedWithRows DEF IInv
  <2>3. items' \subseteq items /\ item' = item /\ loader' = loader
    BY <1>2 DEF Refresh, Back, onPause, ItemKept, shown, job
  <2> QED
    BY <2>1, <2>2, <2>3, InsertKeepsIInv
<1>3. CASE DeleteFolder
  <2>1. cache' \subseteq cache
    BY <1>3 DEF DeleteFolder, DeletePictures
  <2> QED
    BY <1>3, <2>1, GoneKeepsIInv DEF DeleteFolder, RowsGo, shown, job
<1>4. CASE OpenList \/ Return
  <2>1. items' = rows /\ UNCHANGED <<rows, cache, lastId, loader, item>>
    BY <1>4 DEF OpenList, Return, library, files
  <2> QED
    BY <2>1 DEF IInv, IdsAreOld, IdsAgree, OwnIsThere, AtItem, Picture
<1>5. CASE Cover
  BY <1>5, GoneKeepsIInv DEF Cover, onPause, ItemKept, RowsGo, files
<1>6. CASE DeleteVideo
  BY <1>6, GoneKeepsIInv DEF DeleteVideo, RowsGo, files
<1>7. CASE Begin \/ End
  <2>1. UNCHANGED <<rows, items, cache, lastId>> /\ loader' \in {"none", "next"}
    BY <1>7 DEF Begin, End, AtWork, library, files, shown
  <2> QED
    BY <2>1 DEF IInv, IdsAreOld, IdsAgree, OwnIsThere, AtItem, Picture
<1>8. CASE NextItem
  <2>1. item' \in items /\ loader' # "update" /\ UNCHANGED <<rows, items, cache, lastId>>
    BY <1>8 DEF NextItem, AtWork, files
  <2> QED
    BY <2>1 DEF IInv, IdsAreOld, IdsAgree, OwnIsThere, Picture
<1>9. CASE MakePicture
  <2>1. CASE SetPicture("default") /\ Then
    BY <1>9, <2>1, SetPictureKeepsIInv DEF MakePicture, AtItem, AtWork, Then, files
  <2>2. CASE loader' = "save" /\ UNCHANGED <<rows, items, item>>
    <3>1. AtItem /\ loader' # "update" /\ UNCHANGED <<cache, lastId>>
      BY <1>9, <2>2 DEF MakePicture, AtItem, AtWork, files
    <3> QED
      BY <2>2, <3>1 DEF IInv, IdsAreOld, IdsAgree, OwnIsThere, Picture
  <2> QED
    BY <1>9, <2>1, <2>2 DEF MakePicture
<1>10. CASE SaveBitmap
  BY <1>10, SaveKeepsIInv
<1>11. CASE UpdatePicture
  BY <1>11, SetPictureKeepsIInv DEF UpdatePicture, AtItem, AtWork, Then, files
<1>12. CASE SetDuration
  BY <1>12, SetDurationKeepsIInv
<1>13. CASE Die
  BY <1>13 DEF Die, library, files, IInv, IdsAreOld, IdsAgree, OwnIsThere, AtItem, Picture
<1>14. CASE UNCHANGED <<rows, items, cache, lastId, item, loader>>
  BY <1>14, GoneKeepsIInv DEF RowsGo
<1>15. CASE Others
  BY <1>13, <1>14, <1>15 DEF Others, library, files, shown, job
<1>16. CASE UNCHANGED vars
  BY <1>14, <1>16 DEF vars, library, files, shown, job
<1> QED
  BY <1>1, <1>2, <1>3, <1>4, <1>5, <1>6, <1>7, <1>8, <1>9, <1>10, <1>11, <1>12, <1>13,
     <1>15, <1>16 DEF Next, Loader, LoaderThrows

(* Ids are never used again, so what they name never changes hands.         *)
THEOREM Invariance == Spec => []IInv
<1>1. Init => IInv
  BY DEF Init, IInv, IdsAreOld, IdsAgree, OwnIsThere, AtItem
<1> QED
  BY <1>1, TypeCorrect, StepKeepsIInv, PTL DEF Spec

(* Whatever was deleted, inserted and cancelled, a video that has a picture *)
(* of its own has the picture of that video and no other.                   *)
THEOREM PicturesBelong == Spec => []PicturesAreTheirOwn
<1>1. TypeOK /\ IInv => PicturesAreTheirOwn
  <2> SUFFICES ASSUME TypeOK, IInv, NEW r \in rows, r.picture = "own",
                      NEW c \in [id : {r.id}, video : Videos]
               PROVE  c \in cache <=> c.video = r.video
    BY DEF PicturesAreTheirOwn
  <2>1. c \in cache => c.video = r.video
    BY DEF IInv, IdsAgree
  <2>2. c.video = r.video => c = Picture(r)
    BY DEF Picture
  <2>3. Picture(r) \in cache
    BY DEF IInv, OwnIsThere
  <2> QED
    BY <2>1, <2>2, <2>3
<1> QED
  BY <1>1, TypeCorrect, Invariance, PTL

-----------------------------------------------------------------------------
LEMMA StepKeepsListHasFiles ==
  TypeOK /\ TypeOK' /\ IInv /\ ListHasFiles /\ [Next]_vars => ListHasFiles'
<1> SUFFICES ASSUME TypeOK, TypeOK', IInv, ListHasFiles, [Next]_vars PROVE ListHasFiles'
  OBVIOUS
<1> USE DEF ListHasFiles
<1>1. CASE AddFolder \/ Refresh \/ DeleteFolder
  <2>1. /\ screen = "folders" /\ items = {} /\ ~pending /\ (loader = "none" \/ cancelled)
        /\ UNCHANGED <<screen, items, pending, loader, cancelled>>
    BY <1>1 DEF AddFolder, Refresh, DeleteFolder, OnFolders, shown, job
  <2> QED
    BY <2>1
<1>2. CASE OpenList \/ Return
  <2>1. \A r \in rows : r.picture = "own" => \E c \in cache : c.id = r.id
    BY DEF IInv, OwnIsThere, Picture
  <2> QED
    BY <1>2, <2>1 DEF OpenList, Return, OnFolders, saveDefaultThumbnail, StartLoader, files
<1>3. CASE Cover \/ Back
  BY <1>3 DEF Cover, Back, onPause, files
<1>4. CASE DeleteVideo
  BY <1>4 DEF DeleteVideo, files
<1>5. CASE Begin \/ End
  BY <1>5 DEF Begin, End, AtWork, library, files, shown
<1>6. CASE NextItem
  BY <1>6 DEF NextItem, AtWork, files
<1>7. ASSUME NEW p \in {"default", "own"}, SetPicture(p), item \in Rows, NEW i \in items',
             i.picture = "own"
      PROVE  (p = "own" /\ ~cancelled /\ i.id = item.id) \/ \E o \in items : o.id = i.id /\ o.picture = "own"
  <2>1. CASE cancelled
    BY <1>7, <2>1 DEF SetPicture
  <2>2. CASE ~cancelled
    <3>1. PICK o \in items : i = IF o.id = item.id THEN [o EXCEPT !.picture = p] ELSE o
      BY <1>7, <2>2 DEF SetPicture, WithPicture
    <3>2. o \in Rows
      BY DEF TypeOK
    <3> QED
      BY <1>7, <2>2, <3>1, <3>2 DEF Rows
  <2> QED
    BY <2>1, <2>2
<1>8. CASE MakePicture
  <2>1. item \in Rows /\ loader' # "update" /\ loader # "none"
        /\ UNCHANGED <<screen, default, pending, cancelled, cache>>
    BY <1>8 DEF MakePicture, Then, AtWork, files, TypeOK
  <2>2. CASE UNCHANGED items
    BY <2>1, <2>2
  <2>3. CASE SetPicture("default")
    BY <1>7, <2>1, <2>3 DEF SetPicture, WithPicture
  <2> QED
    BY <1>8, <2>2, <2>3 DEF MakePicture
<1>9. CASE SaveBitmap
  <2>1. /\ \A c \in cache : c.id # item.id => c \in cache'
        /\ \E c \in cache' : c.id = item.id
        /\ loader # "none"
        /\ UNCHANGED <<screen, default, pending, cancelled, items, item>>
    <3>1. [id |-> item.id, video |-> item.video] \in cache'
      BY <1>9 DEF SaveBitmap
    <3> QED
      BY <1>9, <3>1 DEF SaveBitmap, AtWork
  <2> QED
    BY <2>1
<1>10. CASE UpdatePicture
  <2>1. item \in Rows /\ loader' # "update" /\ loader = "update"
        /\ UNCHANGED <<screen, default, pending, cancelled, cache>>
    BY <1>10 DEF UpdatePicture, Then, AtWork, files, TypeOK
  <2>2. SetPicture("own")
    BY <1>10 DEF UpdatePicture
  <2>3. screen # "list" => items' = {}
    BY <2>1, <2>2 DEF SetPicture
  <2> QED
    BY <1>7, <2>1, <2>2, <2>3
<1>11. CASE SetDuration
  <2>1. PICK known \in BOOLEAN : items' = IF cancelled THEN items ELSE WithTime(items, known)
    BY <1>11 DEF SetDuration
  <2>2. loader' # "update" /\ loader = "time"
        /\ UNCHANGED <<screen, default, pending, cancelled, cache>>
    BY <1>11 DEF SetDuration, AtWork, files
  <2>3. ASSUME NEW i \in items' PROVE \E o \in items : o.id = i.id /\ o.picture = i.picture
    BY <2>1, <2>3 DEF WithTime, TypeOK, Rows
  <2> QED
    BY <2>1, <2>2, <2>3 DEF WithTime
<1>12. CASE Die
  BY <1>12 DEF Die, files
<1>13. CASE UNCHANGED <<library, files, shown, job>>
  BY <1>13 DEF library, files, shown, job
<1>14. CASE Others
  BY <1>12, <1>13, <1>14 DEF Others
<1>15. CASE UNCHANGED vars
  BY <1>13, <1>15 DEF vars
<1> QED
  BY <1>1, <1>2, <1>3, <1>4, <1>5, <1>6, <1>8, <1>9, <1>10, <1>11, <1>12,
     <1>14, <1>15 DEF Next, Loader, LoaderThrows

(* The list never shows a picture whose file is not there.                  *)
THEOREM ShownFilesExist == Spec => []ShownPicturesExist
<1>1. Init => ListHasFiles
  BY DEF Init, ListHasFiles
<1>2. ListHasFiles => ShownPicturesExist
  BY DEF ListHasFiles, ShownPicturesExist
<1> QED
  BY <1>1, <1>2, TypeCorrect, Invariance, StepKeepsListHasFiles, PTL DEF Spec
=============================================================================
