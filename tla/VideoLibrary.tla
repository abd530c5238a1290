---------------------------- MODULE VideoLibrary ----------------------------
(***************************************************************************)
(* The library: the tables of folders and videos (FolderListDatabase,      *)
(* VideoDatabase), the files of the card, and the screens and AsyncTasks   *)
(* that change them (VideoFolderListActivity, FileListActivity,            *)
(* VideoListActivity, VideoActivity).                                      *)
(*                                                                         *)
(* A handler of the UI thread is one action.  The AsyncTasks run one after *)
(* the other (API 11 and later) beside it.  An id is any number that       *)
(* nothing refers to: AUTOINCREMENT does not use one twice.  A directory   *)
(* is the sequence of names on the way to it.                              *)
(***************************************************************************)
EXTENDS Integers, FiniteSets, Sequences, SequencesExt

CONSTANTS
  Labels,    \* the names of directories
  Paths,     \* the directories there may be
  Starts,    \* the sets of directories that a card may have at first
  Names,     \* the names of videos
  Nowhere,   \* no directory: null, or the path of a video
  Uses,      \* the ways to use the library that are looked at
  MaxId, MaxActs

\* Videos found by search, or played as the last one; other programs change
\* the card; folders above other folders of the library are renamed or erased;
\* the process is killed; the user does not wait for the list of folders to be
\* reloaded.
Habits == {"search", "last", "outside", "above", "killed", "quick"}

ASSUME LibraryAssumption ==
  /\ Paths \subseteq Seq(Labels) /\ IsFiniteSet(Paths) /\ Starts \subseteq SUBSET Paths
  /\ IsFiniteSet(Names) /\ Nowhere \notin Paths
  /\ Uses \subseteq SUBSET Habits /\ MaxId \in Nat /\ MaxActs \in Nat

Ids == 1..MaxId
NoId == 0

VARIABLES
  use,              \* the way this library is used, one of Uses
  exists, disk,     \* the directories there are, the videos in each
  folders, videos,  \* the tables
  screen,           \* "folders", "files", "list", "video", "paused"
  listed,           \* the items of the folder screen
  listing,          \* what the video screen lists
  items,            \* its items, which the player gets too
  current,          \* the id of the video that plays
  ending,           \* the ids in the VideoActivities that are to be destroyed
  lastPlay,         \* the id saved when the last one was
  tasks,            \* the AsyncTasks in their order
  values,           \* the videos that the running SaveAsyncTask will insert
  acts

Does(habit) == habit \in use

card   == <<exists, disk>>
tables == <<folders, videos>>
ui     == <<screen, listed, listing, items, current, ending, lastPlay>>
jobs   == <<tasks, values>>
vars == <<use, card, tables, ui, jobs, acts>>

Video(i, n, p)  == [id |-> i, name |-> n, parent |-> p, recent |-> 0]

Listing(by, of) == [by |-> by, of |-> of]
Nothing == Listing("nothing", Nowhere)

\* loadData, queryData and playLastVideo: dir is where the file is sought,
\* parent what the item has for its parent path.
PathOfVideo(l, v) == Nowhere
ParentPath(l, v) == IF l.by = "folder" THEN v.parent ELSE Nowhere
Items(l, rows) ==
  {[id |-> v.id, name |-> v.name, dir |-> v.parent, parent |-> ParentPath(l, v)] :
      v \in {w \in rows : IF l.by = "search" THEN w.name = l.of ELSE w.parent = l.of}}

List     == [kind |-> "list", paths |-> {}]
Save(ps) == [kind |-> "save", paths |-> ps]
Erase(p) == [kind |-> "erase", paths |-> {p}]

\* p is the directory d, or in it; where p goes when d becomes to.
Within(p, d) == IsPrefix(d, p)
Relocated(p, d, to) == to \o SubSeq(p, Len(d) + 1, Len(p))

HasFile(item) == item.dir \in Paths /\ item.name \in disk[item.dir]

\* A bound: fewer acts are looked at where a habit adds many states.
Spared ==
  IF Does("outside") THEN 2 ELSE IF use \subseteq {"last"} THEN 0 ELSE 1

Init ==
  /\ use \in Uses
  /\ exists \in Starts
  /\ disk \in {d \in [Paths -> SUBSET Names] : \A p \in Paths \ exists : d[p] = {}}
  /\ folders = {} /\ videos = {}
  /\ screen = "folders" /\ listed = {} /\ listing = Nothing /\ items = {}
  /\ current = NoId /\ ending = <<>> /\ lastPlay = NoId
  /\ tasks = <<>> /\ values = {}
  /\ acts = MaxActs - Spared

-----------------------------------------------------------------------------
(* The tables.                                                             *)

UsedVideoIds ==
  {v.id : v \in videos} \cup {i.id : i \in items}
    \cup ToSet(ending) \cup {current, lastPlay}

\* Rows for the pairs of a directory and a name in new.
Numbered(new) ==
  LET s == SetToSeq(new)
      fresh == SetToSeq(Ids \ UsedVideoIds)
  IN  {Video(fresh[i], s[i][2], s[i][1]) : i \in DOMAIN s}

Room(new) == Cardinality(new) <= Cardinality(Ids \ UsedVideoIds)

\* delete(id) and deleteByParentPath of some folder items.
DeleteFolders(gone) ==
  /\ folders' = {f \in folders : f.id \notin {i.id : i \in gone}}
  /\ videos' = {v \in videos : v.parent \notin {i.path : i \in gone}}

\* All rows are cleared, then the played one is marked; and variants.
MarkThenClear(rows, played) == {[r EXCEPT !.recent = 0] : r \in rows}
CountPlays(rows, played) ==
  {[r EXCEPT !.recent = IF r \in played THEN @ + 1 ELSE 0] : r \in rows}
UpdateRecent(rows, played) ==
  {[r EXCEPT !.recent = IF r \in played THEN 1 ELSE 0] : r \in rows}

\* VideoActivity.updatePlayedTime, and a variant that forgets the folder.
OnlyVideoPlayed(item) ==
  /\ videos' = UpdateRecent(videos, {v \in videos : v.id = item.id})
  /\ UNCHANGED folders
updatePlayedTime(item) ==
  /\ videos' = UpdateRecent(videos, {v \in videos : v.id = item.id})
  /\ folders' = UpdateRecent(folders, {f \in folders : f.path = item.parent})

-----------------------------------------------------------------------------
(* The folder screen.                                                      *)

\* Going to the files and coming back to the folders is not counted.
Act == acts > 0 /\ acts' = acts - 1
Settled == tasks = <<>>
Execute(task) == tasks' = Append(tasks, task) /\ UNCHANGED values

OnFolders == screen = "folders" /\ Act /\ (Does("quick") \/ Settled)

CountRows(p) == Cardinality({v \in videos : v.parent = p})
getVideoCount(p) == Cardinality(disk[p])

\* refreshList(true), also at every return to the screen: items whose folder
\* is gone are deleted, the rows of the others become what the card holds.
RefreshList ==
  LET gone  == {i \in listed : i.path \notin exists}
      here  == {i.path : i \in listed \ gone}
      stays == {v \in videos : /\ v.parent \notin {i.path : i \in gone}
                               /\ v.parent \in here => v.name \in disk[v.parent]}
      new == {x \in here \X Names : /\ x[2] \in disk[x[1]]
                                    /\ ~\E v \in stays : v.parent = x[1] /\ v.name = x[2]}
  IN  /\ Room(new)
      /\ folders' = {IF f.id \in {i.id : i \in listed}
                     THEN [f EXCEPT !.count =
                             getVideoCount((CHOOSE i \in listed : i.id = f.id).path)]
                     ELSE f : f \in {g \in folders : g.id \notin {i.id : i \in gone}}}
      /\ videos' = stays \cup Numbered(new)
      /\ Execute(List)

Refresh ==
  /\ OnFolders /\ RefreshList
  /\ UNCHANGED <<card, ui>>

ReturnToFolders ==
  /\ acts > 0 /\ UNCHANGED acts
  /\ screen \in {"files", "list"}
  /\ screen' = "folders" /\ listing' = Nothing /\ items' = {}
  /\ RefreshList
  /\ UNCHANGED <<card, listed, current, ending, lastPlay>>

ToFiles ==
  /\ acts > 0 /\ screen = "folders" /\ (Does("quick") \/ Settled)
  /\ screen' = "files"
  /\ UNCHANGED <<card, tables, listed, listing, items, current, ending, lastPlay, jobs, acts>>

\* A list is shown by l.
Show(l) == listing' = l /\ items' = Items(l, videos)

OpenFolder ==
  /\ OnFolders
  /\ \E i \in listed : i.path \in exists /\ Show(Listing("folder", i.path))
  /\ screen' = "list"
  /\ UNCHANGED <<card, tables, listed, current, ending, lastPlay, jobs>>

\* Another folder of the library lies in p.
Above(p) == \E f \in folders : IsStrictPrefix(p, f.path)
MayChange(p) == Does("above") \/ ~Above(p)

\* What opening, renaming and the properties do to a folder that is not there.
FolderNotExist ==
  /\ OnFolders
  /\ \E i \in listed : i.path \notin exists /\ DeleteFolders({i})
  /\ Execute(List)
  /\ UNCHANGED <<card, ui>>

DeleteFolder ==
  /\ OnFolders
  /\ \E i \in listed :
       /\ DeleteFolders({i})
       /\ \/ Execute(List)
          \/ /\ i.path # <<>> /\ MayChange(i.path)
             /\ tasks' = tasks \o <<Erase(i.path), List>> /\ UNCHANGED values
  /\ UNCHANGED <<card, ui>>

\* updateParentPath, and a variant that leaves the videos behind.
NotMoved(from, to) == videos
Moved(from, to) == {IF v.parent = from THEN [v EXCEPT !.parent = to] ELSE v : v \in videos}

\* Of the row only name and path are written.
MovedFolder(f, to) == [f EXCEPT !.path = to]

\* renameTo moves all that is in the directory; the rows are sought by its path.
MoveDirectory(from, to) ==
  LET was(p) == Relocated(p, to, from)
      moved  == {p \in Paths : Within(p, to) /\ was(p) \in exists}
  IN  /\ \A p \in exists : Within(p, from) => Relocated(p, from, to) \in Paths
      /\ exists' = {p \in exists : ~Within(p, from)} \cup moved
      /\ disk' = [p \in Paths |-> IF p \in moved THEN disk[was(p)]
                                 ELSE IF Within(p, from) THEN {} ELSE disk[p]]

\* Another name in the same directory, that nothing has; the card keeps its own.
NewNames(p) ==
  {q \in Paths \ {<<>>} : Front(q) = Front(p) /\ \A r \in exists : ~Within(r, q)}

RenameFolder ==
  /\ OnFolders
  /\ \E i \in listed :
       /\ i.path \in exists \ {<<>>} /\ MayChange(i.path)
       /\ \E new \in NewNames(i.path) :
            /\ MoveDirectory(i.path, new)
            /\ folders' = {IF f.id = i.id THEN MovedFolder(f, new) ELSE f : f \in folders}
            /\ videos' = Moved(i.path, new)
  /\ Execute(List)
  /\ UNCHANGED ui

FolderScreen ==
  \/ Refresh \/ ReturnToFolders \/ ToFiles \/ OpenFolder
  \/ FolderNotExist \/ DeleteFolder \/ RenameFolder

-----------------------------------------------------------------------------
(* The file browser, and the search.                                       *)

\* The directory that is open, and those in it.
Checkable(d) == {p \in exists : p = d \/ (p # <<>> /\ Front(p) = d)}

SaveFolders ==
  /\ screen = "files" /\ Act
  /\ \E d \in exists \cup {<<>>} : \E ps \in SUBSET Checkable(d) : ps # {} /\ Execute(Save(ps))
  /\ UNCHANGED <<card, tables, ui>>

\* queryByKeyword; the items get the path of the video for their parent's.
Search ==
  /\ Does("search") /\ OnFolders
  /\ \E n \in Names : Show(Listing("search", n))
  /\ screen' = "list"
  /\ UNCHANGED <<card, tables, listed, current, ending, lastPlay, jobs>>

-----------------------------------------------------------------------------
(* The video screen.                                                       *)

OnList == screen = "list" /\ Act

\* A file that is gone loses its row only.
DeleteVideo ==
  /\ OnList
  /\ \E i \in items :
       /\ videos' = {v \in videos : v.id # i.id}
       /\ items' = items \ {i}
       /\ disk' = IF HasFile(i) THEN [disk EXCEPT ![i.dir] = @ \ {i.name}] ELSE disk
  /\ UNCHANGED <<exists, folders, screen, listed, listing, current, ending, lastPlay, jobs>>

\* The new file is sought, and made, in the item's parent; the result of
\* renameTo is not looked at.
RenameVideo ==
  /\ OnList
  /\ \E i \in items, n \in Names :
       /\ HasFile(i)
       /\ i.parent \in Paths => n \notin disk[i.parent]
       /\ disk' = IF i.parent \in Paths
                  THEN [disk EXCEPT ![i.dir] = (@ \ {i.name}) \cup {n}] ELSE disk
       /\ videos' = {IF v.id = i.id THEN [v EXCEPT !.name = n] ELSE v : v \in videos}
       /\ items' = (items \ {i}) \cup {[i EXCEPT !.name = n, !.dir = i.parent]}
  /\ UNCHANGED <<exists, folders, screen, listed, listing, current, ending, lastPlay, jobs>>

PlayVideo ==
  /\ OnList
  /\ \E i \in items : current' = i.id
  /\ screen' = "video"
  /\ UNCHANGED <<card, tables, listed, listing, items, ending, lastPlay, jobs>>

\* The last video and its neighbours, without a parent path.
PlayLastVideo ==
  /\ Does("last") /\ OnFolders
  /\ \E v \in videos :
       /\ v.id = lastPlay /\ v.name \in disk[v.parent]
       /\ Show(Listing("last", v.parent))
  /\ current' = lastPlay /\ screen' = "video"
  /\ UNCHANGED <<card, tables, listed, ending, lastPlay, jobs>>

\* playNextVideo and playPreviousVideo.
PlayOtherVideo ==
  /\ screen = "video" /\ Act
  /\ \E i, j \in items : i.id = current /\ updatePlayedTime(i) /\ current' = j.id
  /\ UNCHANGED <<card, screen, listed, listing, items, ending, lastPlay, jobs>>

\* onPause: the screen is covered, or left.
PauseVideo ==
  /\ screen = "video" /\ Act
  /\ \E i \in items : i.id = current /\ updatePlayedTime(i)
  /\ screen' = "paused"
  /\ UNCHANGED <<card, listed, listing, items, current, ending, lastPlay, jobs>>

ResumeVideo ==
  /\ screen = "paused" /\ UNCHANGED acts
  /\ screen' = "video"
  /\ UNCHANGED <<card, tables, listed, listing, items, current, ending, lastPlay, jobs>>

\* onResume of the screen below: the list, which is loaded again, or the folders.
Leave ==
  /\ screen = "paused" /\ UNCHANGED acts
  /\ ending' = Append(ending, current) /\ current' = NoId

LeaveVideo ==
  /\ Leave /\ listing.by # "last"
  /\ screen' = "list" /\ items' = Items(listing, videos)
  /\ UNCHANGED <<card, tables, listed, listing, lastPlay, jobs>>

LeaveLastVideo ==
  /\ Leave /\ listing.by = "last"
  /\ screen' = "folders" /\ listing' = Nothing /\ items' = {}
  /\ RefreshList
  /\ UNCHANGED <<card, listed, lastPlay>>

\* onDestroy comes when the system finds the time.
DestroyVideo ==
  /\ ending # <<>> /\ UNCHANGED acts
  /\ lastPlay' = Head(ending) /\ ending' = Tail(ending)
  /\ UNCHANGED <<card, tables, screen, listed, listing, items, current, jobs>>

VideoScreens ==
  \/ SaveFolders \/ Search \/ DeleteVideo \/ RenameVideo
  \/ PlayVideo \/ PlayLastVideo \/ PlayOtherVideo
  \/ PauseVideo \/ ResumeVideo \/ LeaveVideo \/ LeaveLastVideo \/ DestroyVideo

-----------------------------------------------------------------------------
(* The AsyncTask at the head of the queue.                                 *)

Task == Head(tasks)
Done == tasks' = Tail(tasks)

\* VideoFolderTask.
LoadFolders ==
  /\ Task.kind = "list"
  /\ listed' = {[id |-> f.id, path |-> f.path] : f \in folders}
  /\ Done
  /\ UNCHANGED <<card, tables, screen, listing, items, current, ending, lastPlay, values>>

FreeFolderIds == Ids \ ({f.id : f \in folders} \cup {i.id : i \in listed})

\* FolderListDatabase.insert looks first; a variant does not.
NeverExists(p) == FALSE
folderExist(p) == \E f \in folders : f.path = p

\* SaveAsyncTask: one folder after the other.  A checked one without videos is
\* skipped, the open one is not; which of them was open is not kept.
SaveFolder ==
  /\ Task.kind = "save"
  /\ \E p \in Task.paths \cap exists :
       /\ tasks' = <<Save(Task.paths \ {p})>> \o Tail(tasks)
       /\ \/ /\ folderExist(p) \/ getVideoCount(p) = 0
             /\ UNCHANGED <<folders, values>>
          \/ /\ ~folderExist(p) /\ FreeFolderIds # {}
             /\ folders' = folders \cup {[id |-> CHOOSE i \in FreeFolderIds : TRUE, path |-> p,
                                         count |-> getVideoCount(p), recent |-> 0]}
             /\ values' = values \cup ({p} \X disk[p])
  /\ UNCHANGED <<card, videos, ui>>

\* insertAll, at once for the folder that is open and at the end for the
\* folders that are checked in it.
InsertAll ==
  /\ Task.kind = "save" /\ values # {} /\ Room(values)
  /\ videos' = videos \cup Numbered(values)
  /\ values' = {}
  /\ UNCHANGED <<card, folders, ui, tasks>>

Saved ==
  /\ Task.kind = "save" /\ Task.paths = {} /\ values = {}
  /\ Done
  /\ UNCHANGED <<card, tables, ui, values>>

\* The process ends and is started again: what is saved is the tables, the
\* preference and the card.
Restart ==
  /\ screen' = "folders" /\ listed' = {} /\ listing' = Nothing /\ items' = {}
  /\ current' = NoId /\ ending' = <<>>
  /\ tasks' = <<List>> /\ values' = {}
  /\ UNCHANGED <<card, tables, lastPlay>>

\* getVideoCount of a directory that is gone: the exception ends the process.
SaveDies == Task.kind = "save" /\ Task.paths \ exists # {} /\ Restart

\* A directory goes with all that is in it.
RemoveDirectories(ds) ==
  LET gone == {p \in Paths : \E d \in ds : Within(p, d)}
  IN  exists' = exists \ gone /\ disk' = [p \in Paths |-> IF p \in gone THEN {} ELSE disk[p]]

\* DeleteAyncTask.
EraseFiles ==
  /\ Task.kind = "erase"
  /\ RemoveDirectories(Task.paths)
  /\ Done
  /\ UNCHANGED <<tables, ui, values>>

RunTask ==
  /\ tasks # <<>>
  /\ LoadFolders \/ SaveFolder \/ InsertAll \/ Saved \/ SaveDies \/ EraseFiles
  /\ UNCHANGED acts

\* Another program writes to the card.
CardChanges ==
  /\ Does("outside") /\ Act
  /\ \/ /\ UNCHANGED exists
        /\ \E p \in exists, now \in SUBSET Names : disk' = [disk EXCEPT ![p] = now]
     \/ /\ UNCHANGED disk
        /\ \E p \in Paths \ exists :
             /\ Len(p) > 1 => Front(p) \in exists
             /\ exists' = exists \cup {p}
     \/ \E p \in exists : RemoveDirectories({p})
  /\ UNCHANGED <<tables, ui, jobs>>

\* The system ends the process, or it crashes.
Killed == Does("killed") /\ Act /\ Restart

-----------------------------------------------------------------------------
Next == (FolderScreen \/ VideoScreens \/ RunTask \/ CardChanges \/ Killed) /\ UNCHANGED use

Spec == Init /\ [][Next]_vars

-----------------------------------------------------------------------------
(* Properties.                                                             *)

TypeOK ==
  /\ exists \subseteq Paths /\ disk \in [Paths -> SUBSET Names]
  /\ \A p \in Paths \ exists : disk[p] = {}
  /\ \A f \in folders : f.id \in Ids /\ f.path \in Paths /\ f.recent \in {0, 1}
  /\ \A v \in videos : /\ v.id \in Ids /\ v.name \in Names
                       /\ v.parent \in Paths /\ v.recent \in {0, 1}
  /\ \A i \in items : i.parent \in Paths \cup {Nowhere}
  /\ current \in Ids \cup {NoId} /\ lastPlay \in Ids \cup {NoId} /\ ending \in Seq(Ids)
  /\ screen \in {"video", "paused"} => \E i \in items : i.id = current

\* Nobody else writes to the card, and the user keeps his hands off the folders
\* that other folders lie in.
Alone == ~Does("outside") /\ ~Does("above")

RowsOf(p) == {v \in videos : v.parent = p}

(* Every video of the table belongs to a folder of the table: deleting a    *)
(* folder deletes its videos ("delete the video records of the database",   *)
(* VideoFolderListActivity.java:330), whatever happens to the card.  A user *)
(* who does not wait for the list breaks it.                                *)
NoOrphans == \A v \in videos : \E f \in folders : f.path = v.parent

(* No directory is in the table twice ("checks whether the folder path is   *)
(* already in the database", FolderListDatabase.java:79), while no other    *)
(* program takes directories away and none above a saved one is renamed: a  *)
(* rename looks at the card only.  No file is in it twice either, unless    *)
(* videos are renamed from a search.                                        *)
RowsDistinct ==
  Alone =>
    /\ \A f, g \in folders : f.path = g.path => f = g
    /\ ~Does("search") =>
         \A v, w \in videos : v.parent = w.parent /\ v.name = w.name => v = w

(* The video marked is the one that was left last, so the marks are cleared *)
(* before, not after ("before the statement below", VideoActivity.java:330),*)
(* and the two records of it, preferences and table, agree once every       *)
(* player that was left is destroyed.  The mark is set when a player is     *)
(* paused, the preference when it is destroyed: a process that ends between *)
(* the two leaves them apart.                                               *)
RecentIsLast ==
  ~Does("killed") /\ ~Does("outside") /\ ending = <<>> /\ screen \notin {"video", "paused"} =>
    \A v \in videos : v.recent = 1 <=> v.id = lastPlay

(* The video played last lies in the folder that is marked ("path: the      *)
(* path of the folder of the video", FolderListDatabase.java:128), while    *)
(* videos are played from the lists of their folders and no directory goes  *)
(* without its row: two rows of one directory may have two marks.           *)
RecentAgrees ==
  Alone /\ ~Does("search") /\ ~Does("last") =>
    \A v \in videos : v.recent = 1 => \E f \in folders : f.recent = 1 /\ f.path = v.parent

(* Where nobody else writes to the card, a row names a file on it: a video  *)
(* that is renamed is renamed there too (VideoListActivity.java:207), but   *)
(* for one found by search, and one in a folder whose parent is renamed or  *)
(* erased.                                                                  *)
RowsHaveFiles ==
  Alone /\ ~Does("search") /\ tasks = <<>> =>
    \A v \in videos : v.name \in disk[v.parent]

(* The folder screen counts the rows, which are the files.  A process that  *)
(* is killed while it saves leaves a folder without rows until it is        *)
(* refreshed.                                                               *)
CountAgrees ==
  Alone /\ ~Does("search") /\ ~Does("killed") /\ screen = "folders" /\ tasks = <<>> =>
    \A f \in folders : f.count = Cardinality(disk[f.path]) /\ f.count = Cardinality(RowsOf(f.path))

(* Two statements that the code does not keep, README.md, section 4: that   *)
(* of RecentIsLast when the process may be killed, and that of              *)
(* RowsHaveFiles when a folder above others is renamed or erased.           *)
MarkIsPreference ==
  ending = <<>> /\ screen \notin {"video", "paused"} =>
    \A v \in videos : v.recent = 1 <=> v.id = lastPlay

NestedRowsHaveFiles ==
  ~Does("outside") /\ ~Does("search") /\ tasks = <<>> =>
    \A v \in videos : v.name \in disk[v.parent]
=============================================================================
