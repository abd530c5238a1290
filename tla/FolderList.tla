----------------------------- MODULE FolderList -----------------------------
(***************************************************************************)
(* How the list of VideoFolderListActivity is filled: refreshList queues a *)
(* VideoFolderTask; the task clears the list from its own thread, reads    *)
(* the table of folders and publishes the rows one by one; the UI thread   *)
(* adds each to the list when it gets to it.                               *)
(*                                                                         *)
(* VideoLibrary takes the reload for one step; this is what is in it.      *)
(* Nothing is bounded here: the properties are proved, not model-checked.  *)
(***************************************************************************)
EXTENDS Naturals

CONSTANTS
  Folders,     \* the rows the table may have
  Quick        \* the user does not wait for the list

VARIABLES
  table,      \* the folders in the database
  folders,    \* how often a folder is in the list on the screen
  waiting,    \* the tasks that have not begun
  task,       \* "none", "clear", "query", "publish"
  rows,       \* what the task has read and not published yet
  published   \* how often a folder waits to be added by the UI thread

vars == <<table, folders, waiting, task, rows, published>>

Init ==
  /\ table \in SUBSET Folders
  /\ folders = [f \in Folders |-> 0] /\ published = [f \in Folders |-> 0]
  /\ waiting = 1 /\ task = "none" /\ rows = {}

-----------------------------------------------------------------------------
Quiet == waiting = 0 /\ task = "none" /\ \A f \in Folders : published[f] = 0

\* A folder is added or deleted, or nothing happened to the table; in each
\* case the handler ends with refreshList.
QueueTask == waiting' = waiting + 1

refreshList ==
  /\ Quick \/ Quiet
  /\ \/ UNCHANGED table
     \/ \E f \in Folders : table' = table \cup {f}
     \/ \E f \in Folders : table' = table \ {f}
  /\ QueueTask
  /\ UNCHANGED <<folders, task, rows, published>>

\* VideoFolderTask.doInBackground; the tasks run one after the other.
Begin ==
  /\ waiting > 0 /\ task = "none"
  /\ waiting' = waiting - 1 /\ task' = "clear"
  /\ UNCHANGED <<table, folders, rows, published>>

Cleared == [f \in Folders |-> 0]
Clear ==
  /\ task = "clear"
  /\ folders' = Cleared /\ task' = "query"
  /\ UNCHANGED <<table, waiting, rows, published>>

Query ==
  /\ task = "query"
  /\ rows' = table /\ task' = "publish"
  /\ UNCHANGED <<table, folders, waiting, published>>

Publish ==
  /\ task = "publish"
  /\ \E f \in rows :
       /\ rows' = rows \ {f}
       /\ published' = [published EXCEPT ![f] = @ + 1]
  /\ UNCHANGED <<table, folders, waiting, task>>

End ==
  /\ task = "publish" /\ rows = {}
  /\ task' = "none"
  /\ UNCHANGED <<table, folders, waiting, rows, published>>

\* onProgressUpdate.
Add(f) ==
  /\ published[f] > 0
  /\ published' = [published EXCEPT ![f] = @ - 1]
  /\ folders' = [folders EXCEPT ![f] = @ + 1]
  /\ UNCHANGED <<table, waiting, task, rows>>

Reload == Begin \/ Clear \/ Query \/ Publish \/ End

Next == refreshList \/ Reload \/ \E f \in Folders : Add(f)

Spec == Init /\ [][Next]_vars

-----------------------------------------------------------------------------
(* Properties.                                                             *)

TypeOK ==
  /\ table \subseteq Folders /\ rows \subseteq Folders
  /\ folders \in [Folders -> Nat] /\ published \in [Folders -> Nat]
  /\ waiting \in Nat /\ task \in {"none", "clear", "query", "publish"}

(* However many refreshes overlap, in the end no folder of the table is     *)
(* missing from the list.                                                   *)
NothingMissing == Quiet => \A f \in table : folders[f] > 0

(* The list shows every folder of the table once and nothing else ("refresh *)
(* the list", VideoFolderListActivity.java:220).                            *)
ListIsTable == Quiet => \A f \in Folders : folders[f] = IF f \in table THEN 1 ELSE 0
=============================================================================
