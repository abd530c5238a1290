-------------------------- MODULE VideoThumbnails --------------------------
(***************************************************************************)
(* The pictures of the video list: VideoListActivity with its              *)
(* VideoInfoLoader, a background task that makes a picture for each video  *)
(* and enters its file in the table of videos, while the user deletes      *)
(* videos, leaves, comes back, and refreshes or deletes the folder (the    *)
(* methods of VideoDatabase).                                              *)
(*                                                                         *)
(* One folder is enough: pictures are named by the id of the video, and    *)
(* the picture that is shared is shared by videos of one folder already.   *)
(* The loaders run one after the other (API 11 and later).                 *)
(***************************************************************************)
EXTENDS Integers, FiniteSets

CONSTANTS
  Videos,       \* the videos that can be in the folder
  DeletesOne,   \* the user deletes single videos
  Outside,      \* other programs add and delete videos, the system kills the app
  MaxId, MaxActs

ASSUME ThumbnailAssumption ==
  /\ IsFiniteSet(Videos)
  /\ DeletesOne \in BOOLEAN /\ Outside \in BOOLEAN /\ MaxId \in Nat /\ MaxActs \in Nat

Ids == 1..MaxId

VARIABLES
  disk,     \* the videos in the folder
  saved,    \* whether the folder is in the library
  rows,     \* the table of videos
  lastId,   \* the largest id that any row has had
  cache,    \* the pictures: whose file, and what it shows
  default,  \* whether the file of the default picture is there
  screen,   \* "folders", "list", "covered"
  items,    \* what the list shows
  pending,  \* a loader waits for its turn
  loader,   \* where the running loader is: "none", "next", "make", "save", "update", "time"
  todo,     \* the ids its iterator has not returned
  item,     \* the item it works at
  cancelled,
  modified, \* the list has changed behind its iterator
  acts

card    == disk
library == <<saved, rows, lastId>>
files   == <<cache, default>>
shown   == <<screen, items>>
job     == <<pending, loader, todo, item, cancelled, modified>>
vars == <<card, library, files, shown, job, acts>>

\* A row of the table, and an item of the list.
Row(i, v) == [id |-> i, video |-> v, picture |-> "none", timed |-> FALSE]
NoItem == [id |-> 0]

Rows == [id : Ids, video : Videos, picture : {"none", "default", "own"}, timed : BOOLEAN]

Init ==
  /\ disk \in SUBSET Videos /\ saved = FALSE /\ rows = {} /\ lastId = 0
  /\ cache = {} /\ default = FALSE
  /\ screen = "folders" /\ items = {}
  /\ pending = FALSE /\ loader = "none" /\ todo = {} /\ item = NoItem
  /\ cancelled = FALSE /\ modified = FALSE
  /\ acts = MaxActs

Act == acts > 0 /\ acts' = acts - 1

-----------------------------------------------------------------------------
(* The folder screen.                                                      *)

OnFolders == screen = "folders" /\ Act

\* AUTOINCREMENT goes on after the last id ever; without it the ids go on
\* after the largest in the table.
AfterLargest ==
  CHOOSE i \in {0} \cup {r.id : r \in rows} : \A r \in rows : r.id <= i
AfterLast == lastId

\* Rows for new videos, beside those that stay.
Insert(new, stay) ==
  \E ids \in [new -> (AfterLast + 1)..(AfterLast + Cardinality(new))] :
    /\ \A v, w \in new : v # w => ids[v] # ids[w]
    /\ AfterLast + Cardinality(new) <= MaxId
    /\ rows' = stay \cup {Row(ids[v], v) : v \in new}
    /\ lastId' = AfterLast + Cardinality(new)

\* The pictures of rows that go are deleted, a shared one too.
DeletePictures(gone) ==
  /\ cache' = {c \in cache : \A r \in gone : r.picture = "own" => c.id # r.id}
  /\ default' = (default /\ \A r \in gone : r.picture # "default")

\* SaveAsyncTask, in the order of the tasks.
AddFolder ==
  /\ OnFolders /\ ~saved /\ loader = "none"
  /\ saved' = TRUE
  /\ Insert(disk, rows)
  /\ UNCHANGED <<card, files, shown, job>>

\* A row goes with its file, a new file gets a row.
deleteVideoNotExist ==
  LET gone == {r \in rows : r.video \notin disk}
  IN  /\ DeletePictures(gone)
      /\ Insert({v \in disk : \A r \in rows : r.video # v}, rows \ gone)

Refresh ==
  /\ OnFolders /\ saved
  /\ deleteVideoNotExist
  /\ UNCHANGED <<card, saved, shown, job>>

\* deleteByParentPath, and the files of the folder if the user wants it.
DeleteFolder ==
  /\ OnFolders /\ saved
  /\ saved' = FALSE /\ rows' = {}
  /\ DeletePictures(rows)
  /\ disk' \in {disk, {}}
  /\ UNCHANGED <<lastId, shown, job>>

-----------------------------------------------------------------------------
(* The list.                                                               *)

\* onCreate writes the default picture; once would not be enough.
SaveUnlessUsed == default' = (default \/ \A r \in rows : r.picture # "default")
saveDefaultThumbnail == default' = TRUE

\* onResume: loadData, and a loader when there are videos; whatever the
\* loader before is doing.
StartUnlessRunning == pending' = (rows # {} /\ loader = "none")
StartLoader == pending' = (rows # {})

OpenList ==
  /\ OnFolders /\ saved
  /\ screen' = "list" /\ items' = rows
  /\ saveDefaultThumbnail
  /\ StartLoader
  /\ UNCHANGED <<card, library, cache, loader, todo, item, cancelled, modified>>

Return ==
  /\ screen = "covered" /\ Act
  /\ screen' = "list" /\ items' = rows
  /\ StartLoader
  /\ UNCHANGED <<card, library, files, loader, todo, item, cancelled, modified>>

\* A loader that is cancelled still has the item that it works at.
ItemKept == UNCHANGED item

\* onPause cancels the loader.  What it still writes to its items is never
\* seen: onResume makes other ones.
onPause ==
  /\ screen = "list" /\ Act
  /\ items' = {} /\ pending' = FALSE /\ cancelled' = (loader # "none")
  /\ ItemKept
  /\ UNCHANGED <<card, saved, loader, todo, modified>>

Cover ==
  /\ onPause /\ screen' = "covered"
  /\ UNCHANGED <<rows, lastId, files>>

\* The folder screen refreshes when it comes back.
Back ==
  /\ onPause /\ screen' = "folders"
  /\ deleteVideoNotExist

\* deleteVideo; renaming and properties do it when the file is gone.
DeleteVideo ==
  /\ DeletesOne /\ screen = "list" /\ Act
  /\ \E i \in items :
       /\ rows' = {r \in rows : r.id # i.id}
       /\ items' = items \ {i}
       /\ disk' = disk \ {i.video}
  /\ modified' = (modified \/ (loader # "none" /\ ~cancelled))
  /\ UNCHANGED <<saved, lastId, files, screen, pending, loader, todo, item, cancelled>>

-----------------------------------------------------------------------------
(* VideoInfoLoader.                                                        *)

AtWork == UNCHANGED <<card, saved, lastId, screen, pending, cancelled, modified, acts>>

Begin ==
  /\ pending /\ loader = "none"
  /\ pending' = FALSE /\ loader' = "next"
  /\ todo' = {i.id : i \in items}
  /\ cancelled' = FALSE /\ modified' = FALSE
  /\ UNCHANGED <<card, library, files, shown, item, acts>>

\* A cancelled loader only runs through the rest of its iterator; an exception
\* there has no effect any more.
NextItem ==
  /\ loader = "next" /\ todo # {} /\ ~cancelled /\ ~modified
  /\ \E i \in items :
       /\ i.id \in todo /\ \A n \in todo : i.id <= n
       /\ item' = i /\ todo' = todo \ {i.id}
       /\ loader' = IF i.picture = "none" THEN "make" ELSE IF i.timed THEN "next" ELSE "time"
  /\ AtWork /\ UNCHANGED <<rows, files, items>>

\* The row, if it is still there, and the item get a picture or a duration.
WithPicture(S, p) == {IF r.id = item.id THEN [r EXCEPT !.picture = p] ELSE r : r \in S}
WithTime(S, t) == {IF r.id = item.id THEN [r EXCEPT !.timed = t] ELSE r : r \in S}

SetPicture(p) ==
  /\ rows' = WithPicture(rows, p)
  /\ items' = IF cancelled THEN items ELSE WithPicture(items, p)
  /\ item' = [item EXCEPT !.picture = p]

Then == loader' = IF item.timed THEN "next" ELSE "time"

\* createVideoThumbnail, and what is done when it cannot.
MakePicture ==
  /\ loader = "make"
  /\ \/ item.video \in disk /\ loader' = "save" /\ UNCHANGED <<rows, items, item>>
     \/ SetPicture("default") /\ Then
  /\ AtWork /\ UNCHANGED <<files, todo>>

\* saveBitmap: the file is named by the id.
SaveBitmap ==
  /\ loader = "save"
  /\ cache' = {c \in cache : c.id # item.id} \cup {[id |-> item.id, video |-> item.video]}
  /\ loader' = "update"
  /\ AtWork /\ UNCHANGED <<rows, default, items, todo, item>>

UpdatePicture ==
  /\ loader = "update"
  /\ SetPicture("own") /\ Then
  /\ AtWork /\ UNCHANGED <<files, todo>>

\* getDuration answers 0 when it cannot tell.
SetDuration ==
  /\ loader = "time"
  /\ \E known \in BOOLEAN :
       /\ known => item.video \in disk
       /\ rows' = WithTime(rows, known)
       /\ items' = IF cancelled THEN items ELSE WithTime(items, known)
       /\ item' = [item EXCEPT !.timed = known]
  /\ loader' = "next"
  /\ AtWork /\ UNCHANGED <<files, todo>>

End ==
  /\ loader = "next" /\ (todo = {} \/ cancelled)
  /\ loader' = "none" /\ todo' = {} /\ item' = NoItem
  /\ AtWork /\ UNCHANGED <<rows, files, items>>

\* The process is gone, and starts again on the folder screen.
Die ==
  /\ screen' = "folders" /\ items' = {}
  /\ pending' = FALSE /\ loader' = "none" /\ todo' = {} /\ item' = NoItem
  /\ cancelled' = FALSE /\ modified' = FALSE
  /\ UNCHANGED <<card, library, files>>

\* next() of the iterator: ConcurrentModificationException.
Throws == loader = "next" /\ todo # {} /\ modified /\ ~cancelled
LoaderThrows == Throws /\ Die /\ UNCHANGED acts

Loader ==
  \/ Begin \/ NextItem \/ MakePicture \/ SaveBitmap \/ UpdatePicture \/ SetDuration
  \/ End \/ LoaderThrows

-----------------------------------------------------------------------------
Others ==
  /\ Outside /\ Act
  /\ \/ /\ \E v \in Videos : disk' \in {disk \cup {v}, disk \ {v}}
        /\ UNCHANGED <<library, files, shown, job>>
     \/ Die

Next ==
  \/ AddFolder \/ Refresh \/ DeleteFolder
  \/ OpenList \/ Return \/ Cover \/ Back \/ DeleteVideo
  \/ Loader \/ Others

Spec == Init /\ [][Next]_vars

\* The thread of the tasks goes on.
FairSpec == Spec /\ WF_vars(Loader)

-----------------------------------------------------------------------------
(* Properties.                                                             *)

TypeOK ==
  /\ disk \subseteq Videos /\ saved \in BOOLEAN /\ default \in BOOLEAN
  /\ rows \subseteq Rows /\ items \subseteq Rows /\ lastId \in 0..MaxId
  /\ cache \subseteq [id : Ids, video : Videos]
  /\ screen \in {"folders", "list", "covered"} /\ pending \in BOOLEAN
  /\ loader \in {"none", "next", "make", "save", "update", "time"}
  /\ todo \subseteq Ids /\ item \in Rows \cup {NoItem}
  /\ loader \in {"make", "save", "update", "time"} => item \in Rows
  /\ cancelled \in BOOLEAN /\ modified \in BOOLEAN /\ acts \in 0..MaxActs

(* A video whose row has a picture of its own has the picture of that video,*)
(* although files of deleted videos stay behind and a loader that was       *)
(* cancelled still writes: an id is never given to a second video.          *)
PicturesAreTheirOwn ==
  \A r \in rows : r.picture = "own" =>
    \A c \in [id : {r.id}, video : Videos] : c \in cache <=> c.video = r.video

(* The list has the file of every picture that it shows, although deleting  *)
(* the rows of other videos deletes the file of the shared picture.         *)
ShownPicturesExist ==
  screen = "list" =>
    \A i \in items : /\ i.picture = "default" => default
                     /\ i.picture = "own" => \E c \in cache : c.id = i.id

(* Every video of a list that stays on the screen gets a picture, also when *)
(* the loader before it had not ended.                                      *)
EveryVideoGetsPicture ==
  screen = "list" ~> screen # "list" \/ \A i \in items : i.picture # "none"

(* Deleting a video of the list refreshes the screen ("the file does not    *)
(* exist any more: delete the record and refresh", VideoListActivity.java:  *)
(* 178), and does not end the loader and the process with it.               *)
(* The code does not keep this: README.md, section 4.                       *)
LoaderSurvives == ~Throws

(* With the rows of a folder their pictures are deleted ("delete the records*)
(* of the folder and the cached pictures too", VideoDatabase.java:97): none *)
(* is left when no loader is at work.                                       *)
(* The code does not keep this: README.md, section 4.                       *)
NoPictureIsLeft == loader = "none" /\ rows = {} => cache = {}
=============================================================================
