------------------------ MODULE VideoLibraryProofs -------------------------
(***************************************************************************)
(* Proofs about VideoLibrary, for any finite card, any number of ids and   *)
(* acts, and every use of the library by somebody who waits for the list   *)
(* of folders.                                                             *)
(*                                                                         *)
(* What all parts rest on comes first (types, ids, the order of the        *)
(* queue); then the marks, the folders of the videos, the folders, the     *)
(* lists, the files, the counts.  FolderList is at the end.                *)
(***************************************************************************)
EXTENDS VideoLibrary, FiniteSetTheorems, TLAPS

\* The user waits for the list of folders.
Patient == ~Does("quick")

\* Nor are videos renamed from a search.
Tidy == Alone /\ ~Does("search")

-----------------------------------------------------------------------------
(* The queue: a reload of the list comes last and belongs to the folder     *)
(* screen, files are erased while nothing else waits, and once a list of    *)
(* videos is shown nothing waits.                                           *)
TaskSet == [kind : {"list", "save", "erase"}, paths : SUBSET Paths]

Reloads == \E i \in DOMAIN tasks : tasks[i].kind = "list"

QueueTypes == tasks \in Seq(TaskSet) /\ values \subseteq Paths \X Names

TasksInv ==
  /\ Patient /\ QueueTypes
  /\ screen \in {"folders", "files", "list", "video", "paused"}
  /\ screen \in {"list", "video", "paused"} => Settled
  /\ screen = "folders" /\ ~Settled => tasks[Len(tasks)].kind = "list"
  /\ \A i \in DOMAIN tasks :
       /\ tasks[i].kind = "list" => i = Len(tasks) /\ screen = "folders"
       /\ tasks[i].kind = "erase" => i = 1 /\ Len(tasks) = 2 /\ screen = "folders"
  /\ values # {} => ~Settled /\ tasks[1].kind = "save"

\* What the rows and the items are; an id is that of one row.
FolderRow == [id : Ids, path : Paths, count : Nat, recent : {0, 1}]
VideoRow == [id : Ids, name : Names, parent : Paths, recent : {0, 1}]
FolderItem == [id : Ids, path : Paths]
VideoItem ==
  [id : Ids, name : Names, dir : Paths \cup {Nowhere}, parent : Paths \cup {Nowhere}]

TypeInv ==
  /\ TypeOK
  /\ folders \subseteq FolderRow /\ videos \subseteq VideoRow
  /\ listed \subseteq FolderItem /\ items \subseteq VideoItem

IdsInv ==
  /\ \A f, g \in folders : f.id = g.id => f = g
  /\ \A v, w \in videos : v.id = w.id => v = w

\* Items of the folder screen are rows, unless a reload is to come; all are
\* there when nothing waits, but for what the file browser has saved.
ListedInv ==
  /\ ~Reloads => \A i \in listed : \E f \in folders : f.id = i.id /\ f.path = i.path
  /\ Settled /\ screen # "files" =>
       \A f \in folders : \E i \in listed : f.id = i.id /\ f.path = i.path

\* The videos that are about to be inserted have a folder, a new one.
ValuesInv ==
  \A x \in values :
    \E f \in folders : f.path = x[1] /\ \A i \in listed : i.id # f.id

OrphansInv == NoOrphans /\ ValuesInv

\* A list of the videos of a folder shows rows of the table.
ItemsInv ==
  screen \in {"list", "video", "paused"} /\ listing.by = "folder" =>
    \A i \in items :
      /\ i.parent = i.dir
      /\ \E v \in videos : v.id = i.id /\ v.name = i.name /\ v.parent = i.dir

ListingInv ==
  ~Does("search") =>
    /\ screen = "list" => listing.by = "folder"
    /\ screen \in {"video", "paused"} =>
         listing.by = "folder" \/ (listing.by = "last" /\ Does("last"))

\* Where nobody else writes to the card: folders are directories, each once,
\* but none that is to be erased; those to be saved are there; items are rows
\* while a save is at work, and what it will insert is not in the table.
Known(i) == \E f \in folders : f.id = i.id /\ f.path = i.path

FoldersThere == \A f \in folders : f.path \in exists
FoldersOnce == \A f, g \in folders : f.path = g.path => f = g
TasksFit ==
  \A i \in DOMAIN tasks :
    /\ tasks[i].kind = "save" => tasks[i].paths \subseteq exists
    /\ tasks[i].kind = "erase" =>
         \A f \in folders : \A d \in tasks[i].paths : ~Within(f.path, d)
ListFits == ~Settled /\ tasks[1].kind = "save" => \A i \in listed : Known(i)
ValuesNew == \A x \in values : \A v \in videos : v.parent # x[1]

FoldersInv ==
  Alone => FoldersThere /\ FoldersOnce /\ TasksFit /\ ListFits /\ ValuesNew

\* The rows of a folder, with those about to be inserted, are its files; all of
\* them, unless a save may be cut short.
FilesThere == \A v \in videos : v.name \in disk[v.parent]
FilesOnce == \A v, w \in videos : v.parent = w.parent /\ v.name = w.name => v = w
ValuesThere == \A x \in values : x[2] \in disk[x[1]]
AllRows ==
  ~Does("killed") =>
    \A f \in folders : \A n \in disk[f.path] :
      \/ \E v \in videos : v.parent = f.path /\ v.name = n
      \/ <<f.path, n>> \in values

FilesInv == Tidy => FilesThere /\ FilesOnce /\ ValuesThere /\ AllRows

CountInv ==
  Tidy /\ ~Does("killed") /\ screen \in {"folders", "files"} =>
    \A f \in folders : f.count = Cardinality(disk[f.path])

-----------------------------------------------------------------------------
(* Sets put in order, and the rows that are inserted.                       *)

\* SetToSeq is a bijection from the indices to the set.
LEMMA SetInOrder ==
  ASSUME NEW S, IsFiniteSet(S)
  PROVE  /\ SetToSeq(S) \in [1..Cardinality(S) -> S]
         /\ \A i, j \in 1..Cardinality(S) : SetToSeq(S)[i] = SetToSeq(S)[j] => i = j
         /\ \A x \in S : \E i \in 1..Cardinality(S) : SetToSeq(S)[i] = x
<1>1. Cardinality(S) \in Nat /\ ExistsBijection(1..Cardinality(S), S)
  BY FS_CardinalityType
<1>2. PICK f \in Bijection(1..Cardinality(S), S) : TRUE
  BY <1>1 DEF ExistsBijection
<1>3. f \in [1..Cardinality(S) -> S] /\ IsInjective(f)
  BY <1>2 DEF Bijection, Injection, Surjection, IsInjective
<1>4. SetToSeq(S) \in [1..Cardinality(S) -> S] /\ IsInjective(SetToSeq(S))
  BY <1>3 DEF SetToSeq
<1>5. SetToSeq(S) \in Injection(1..Cardinality(S), S)
  BY <1>4 DEF Injection
<1>6. Cardinality(1..Cardinality(S)) = Cardinality(S)
  BY <1>1, FS_Interval
<1>7. SetToSeq(S) \in Surjection(1..Cardinality(S), S)
  BY <1>5, <1>6, FS_Injection
<1> QED
  BY <1>4, <1>7 DEF IsInjective, Surjection

Unused == Ids \ UsedVideoIds

\* One row for each pair, each with an id that nothing refers to.
LEMMA RowsAreNew ==
  ASSUME NEW new \in SUBSET (Paths \X Names), Room(new)
  PROVE  /\ Numbered(new) \subseteq VideoRow
         /\ \A v \in Numbered(new) :
              v.id \in Unused /\ v.recent = 0 /\ <<v.parent, v.name>> \in new
         /\ \A x \in new : \E v \in Numbered(new) : v.parent = x[1] /\ v.name = x[2]
         /\ \A v, w \in Numbered(new) : v.id = w.id => v = w
         /\ \A v, w \in Numbered(new) : v.parent = w.parent /\ v.name = w.name => v = w
<1> DEFINE s == SetToSeq(new)
           fresh == SetToSeq(Unused)
<1>1. IsFiniteSet(Paths \X Names)
  BY LibraryAssumption, FS_Product
<1>2. IsFiniteSet(new)
  BY <1>1, FS_Subset
<1>3. IsFiniteSet(Ids)
  BY LibraryAssumption, FS_Interval DEF Ids
<1>4. IsFiniteSet(Unused)
  BY <1>3, FS_Subset DEF Unused
<1>5. PICK m \in Nat, n \in Nat : m = Cardinality(new) /\ n = Cardinality(Unused) /\ m <= n
  BY <1>2, <1>4, FS_CardinalityType DEF Room, Unused
<1>6. /\ s \in [1..m -> new]
      /\ \A i, j \in 1..m : s[i] = s[j] => i = j
      /\ \A x \in new : \E i \in 1..m : s[i] = x
  BY <1>2, <1>5, SetInOrder
<1>7. /\ fresh \in [1..n -> Unused]
      /\ \A i, j \in 1..n : fresh[i] = fresh[j] => i = j
  BY <1>4, <1>5, SetInOrder
<1>8. 1..m \subseteq 1..n
  BY <1>5
<1>9. Numbered(new) = {Video(fresh[i], s[i][2], s[i][1]) : i \in 1..m}
  BY <1>6 DEF Numbered, Unused
<1> HIDE DEF s, fresh
<1>10. \A i \in 1..m : fresh[i] \in Unused /\ s[i] \in new
  BY <1>6, <1>7, <1>8
<1>11. ASSUME NEW v \in Numbered(new)
       PROVE  \E i \in 1..m : /\ v = [id |-> fresh[i], name |-> s[i][2], parent |-> s[i][1],
                                      recent |-> 0]
                              /\ s[i] = <<v.parent, v.name>>
  <2>1. PICK i \in 1..m : v = Video(fresh[i], s[i][2], s[i][1])
    BY <1>9
  <2>2. s[i] = <<s[i][1], s[i][2]>>
    BY <1>10
  <2> QED
    BY <2>1, <2>2 DEF Video
<1>12. ASSUME NEW v \in Numbered(new)
       PROVE  /\ v \in VideoRow
              /\ v.id \in Unused /\ v.recent = 0 /\ <<v.parent, v.name>> \in new
  <2>1. PICK i \in 1..m : /\ v = [id |-> fresh[i], name |-> s[i][2], parent |-> s[i][1],
                                  recent |-> 0]
                          /\ s[i] = <<v.parent, v.name>>
    BY <1>11
  <2>2. s[i][1] \in Paths /\ s[i][2] \in Names /\ fresh[i] \in Unused
    BY <1>10
  <2> QED
    BY <2>1, <2>2, <1>10 DEF VideoRow, Unused
<1>13. ASSUME NEW v \in Numbered(new), NEW w \in Numbered(new),
              v.id = w.id \/ (v.parent = w.parent /\ v.name = w.name)
       PROVE  v = w
  <2>1. PICK i \in 1..m : /\ v = [id |-> fresh[i], name |-> s[i][2], parent |-> s[i][1],
                                  recent |-> 0]
                          /\ s[i] = <<v.parent, v.name>>
    BY <1>11
  <2>2. PICK j \in 1..m : /\ w = [id |-> fresh[j], name |-> s[j][2], parent |-> s[j][1],
                                  recent |-> 0]
                          /\ s[j] = <<w.parent, w.name>>
    BY <1>11
  <2>3. fresh[i] = fresh[j] \/ s[i] = s[j]
    BY <2>1, <2>2, <1>13
  <2>4. i = j
    BY <2>3, <1>6, <1>7, <1>8
  <2> QED
    BY <2>1, <2>2, <2>4
<1>14. ASSUME NEW x \in new
       PROVE  \E v \in Numbered(new) : v.parent = x[1] /\ v.name = x[2]
  <2>1. PICK i \in 1..m : s[i] = x
    BY <1>6
  <2>2. Video(fresh[i], s[i][2], s[i][1]) \in Numbered(new)
    BY <1>9
  <2> QED
    BY <2>1, <2>2 DEF Video
<1> QED
  BY <1>12, <1>13, <1>14

-----------------------------------------------------------------------------
(* The queue.                                                               *)

\* What Append does, with the length as a number.
LEMMA AppendedTask ==
  ASSUME NEW S, NEW s \in Seq(S), NEW e \in S
  PROVE  \E n \in Nat : /\ DOMAIN s = 1..n /\ Len(s) = n
                        /\ Append(s, e) \in Seq(S) /\ Append(s, e) # <<>>
                        /\ DOMAIN Append(s, e) = 1..(n + 1) /\ Len(Append(s, e)) = n + 1
                        /\ Append(s, e)[n + 1] = e
                        /\ \A k \in 1..n : Append(s, e)[k] = s[k]
<1>1. PICK n \in Nat : n = Len(s)
  OBVIOUS
<1>2. Append(s, e) \in Seq(S) /\ Len(Append(s, e)) = n + 1
  BY <1>1
<1>3. Append(s, e)[n + 1] = e /\ \A k \in 1..n : Append(s, e)[k] = s[k]
  BY <1>1
<1>4. DOMAIN s = 1..n /\ DOMAIN Append(s, e) = 1..(n + 1) /\ Append(s, e) # <<>>
  BY <1>1, <1>2
<1> QED
  BY <1>1, <1>2, <1>3, <1>4

\* What Head and Tail do, with the length as a number.
LEMMA FirstTask ==
  ASSUME NEW S, NEW s \in Seq(S), s # <<>>
  PROVE  \E n \in Nat : /\ DOMAIN s = 1..(n + 1) /\ Len(s) = n + 1
                        /\ Head(s) = s[1] /\ Head(s) \in S
                        /\ Tail(s) \in Seq(S) /\ DOMAIN Tail(s) = 1..n /\ Len(Tail(s)) = n
                        /\ \A k \in 1..n : Tail(s)[k] = s[k + 1]
                        /\ Tail(s) = <<>> <=> n = 0
<1>1. PICK n \in Nat : Len(s) = n + 1
  <2>1. Len(s) \in Nat \ {0}
    OBVIOUS
  <2> QED
    BY <2>1
<1>2. Tail(s) \in Seq(S) /\ Len(Tail(s)) = n /\ Head(s) = s[1] /\ Head(s) \in S
  BY <1>1
<1>3. \A k \in 1..n : Tail(s)[k] = s[k + 1]
  BY <1>1
<1>4. DOMAIN s = 1..(n + 1) /\ DOMAIN Tail(s) = 1..n
  BY <1>1, <1>2
<1>5. Tail(s) = <<>> <=> n = 0
  <2> DEFINE t == Tail(s)
  <2> HIDE DEF t
  <2>1. t \in Seq(S) /\ Len(t) = n
    BY <1>2 DEF t
  <2>2. t = <<>> <=> n = 0
    BY <2>1
  <2> QED
    BY <2>2 DEF t
<1> QED
  BY <1>1, <1>2, <1>3, <1>4, <1>5

\* The task at the head is replaced by another one.
LEMMA FirstTaskReplaced ==
  ASSUME NEW S, NEW s \in Seq(S), s # <<>>, NEW e \in S
  PROVE  \E n \in Nat : /\ DOMAIN s = 1..(n + 1) /\ Len(s) = n + 1
                        /\ <<e>> \o Tail(s) \in Seq(S) /\ <<e>> \o Tail(s) # <<>>
                        /\ DOMAIN (<<e>> \o Tail(s)) = 1..(n + 1)
                        /\ Len(<<e>> \o Tail(s)) = n + 1
                        /\ (<<e>> \o Tail(s))[1] = e
                        /\ \A k \in 1..n : (<<e>> \o Tail(s))[k + 1] = s[k + 1]
<1>1. PICK n \in Nat : /\ DOMAIN s = 1..(n + 1) /\ Len(s) = n + 1
                       /\ Tail(s) \in Seq(S) /\ Len(Tail(s)) = n
                       /\ \A k \in 1..n : Tail(s)[k] = s[k + 1]
  BY FirstTask
<1> DEFINE t == Tail(s)
<1> HIDE DEF t
<1>2. t \in Seq(S) /\ Len(t) = n /\ \A k \in 1..n : t[k] = s[k + 1]
  BY <1>1 DEF t
<1>3. <<e>> \o t \in Seq(S) /\ Len(<<e>> \o t) = n + 1 /\ (<<e>> \o t)[1] = e
  BY <1>2
<1>4. \A k \in 1..n : (<<e>> \o t)[k + 1] = t[k]
  BY <1>2
<1>5. DOMAIN (<<e>> \o t) = 1..(n + 1) /\ <<e>> \o t # <<>>
  BY <1>3
<1> QED
  BY <1>1, <1>2, <1>3, <1>4, <1>5 DEF t

\* A reload is queued, from the folders or coming back to them.
LEMMA ListQueued ==
  ASSUME TasksInv, Execute(List), screen' = "folders", Settled \/ screen = "files",
         UNCHANGED use
  PROVE  TasksInv' /\ Reloads' /\ tasks' # <<>> /\ tasks'[1].kind # "erase"
<1>1. List \in TaskSet
  BY DEF List, TaskSet
<1>2. PICK n \in Nat : /\ DOMAIN tasks = 1..n /\ Len(tasks) = n
                       /\ tasks' \in Seq(TaskSet) /\ tasks' # <<>>
                       /\ DOMAIN tasks' = 1..(n + 1) /\ Len(tasks') = n + 1
                       /\ tasks'[n + 1] = List
                       /\ \A k \in 1..n : tasks'[k] = tasks[k]
  BY <1>1, AppendedTask DEF TasksInv, QueueTypes, Execute
<1>3. \A k \in 1..n : tasks[k].kind = "save"
  <2>1. ASSUME NEW k \in 1..n PROVE tasks[k].kind = "save"
    <3>1. screen = "files"
      BY <1>2 DEF Settled
    <3>2. tasks[k] \in TaskSet
      BY <1>2 DEF TasksInv, QueueTypes
    <3>3. tasks[k].kind \in {"list", "save", "erase"}
      BY <3>2 DEF TaskSet
    <3> QED
      BY <1>2, <3>1, <3>3 DEF TasksInv, QueueTypes
  <2> QED
    BY <2>1
<1>4. \A k \in 1..(n + 1) : tasks'[k].kind = IF k = n + 1 THEN "list" ELSE "save"
  BY <1>2, <1>3 DEF List
<1>5. Reloads' /\ tasks' # <<>> /\ tasks'[1].kind # "erase"
  BY <1>2, <1>4 DEF Reloads
<1>6. values' # {} => tasks'[1].kind = "save"
  <2> SUFFICES ASSUME values' # {} PROVE tasks'[1].kind = "save"
    OBVIOUS
  <2>1. n # 0
    BY <1>2 DEF TasksInv, QueueTypes, Execute, Settled
  <2> QED
    BY <2>1, <1>4
<1>7. values' \subseteq Paths \X Names /\ Patient'
  BY DEF TasksInv, QueueTypes, Execute, Patient, Does
<1>8. \A i \in DOMAIN tasks' : /\ tasks'[i].kind = "list" => i = Len(tasks')
                               /\ tasks'[i].kind # "erase"
  BY <1>2, <1>4
<1>9. tasks'[Len(tasks')].kind = "list"
  BY <1>2, <1>4
<1> QED
  BY <1>2, <1>5, <1>6, <1>7, <1>8, <1>9 DEF TasksInv, QueueTypes, Settled

\* An action that leaves the queue alone goes to another screen only if no task is left.
LEMMA QueueKept ==
  ASSUME TasksInv, UNCHANGED <<jobs, use>>,
         \/ screen' = screen
         \/ Settled /\ screen' \in {"folders", "files", "list", "video", "paused"}
  PROVE  TasksInv'
<1>1. tasks' = tasks /\ values' = values /\ Patient'
  BY DEF jobs, TasksInv, QueueTypes, Patient, Does
<1>2. CASE screen' = screen
  BY <1>1, <1>2 DEF TasksInv, QueueTypes, Settled
<1>3. CASE Settled /\ screen' \in {"folders", "files", "list", "video", "paused"}
  <2>1. Settled' /\ values' = {} /\ DOMAIN tasks' = {}
    BY <1>1, <1>3 DEF TasksInv, QueueTypes, Settled
  <2>2. tasks' \in Seq(TaskSet)
    BY <1>1 DEF TasksInv, QueueTypes
  <2> QED
    BY <1>1, <1>3, <2>1, <2>2 DEF TasksInv, QueueTypes
<1> QED
  BY <1>2, <1>3

\* The task at the head ends.
LEMMA TaskDone ==
  ASSUME TasksInv, ~Settled, Done, values = {}, UNCHANGED <<screen, use, values>>
  PROVE  TasksInv'
<1>1. PICK n \in Nat : /\ DOMAIN tasks = 1..(n + 1) /\ Len(tasks) = n + 1
                       /\ tasks' \in Seq(TaskSet)
                       /\ DOMAIN tasks' = 1..n /\ Len(tasks') = n
                       /\ \A k \in 1..n : tasks'[k] = tasks[k + 1]
                       /\ tasks' = <<>> <=> n = 0
  BY FirstTask DEF TasksInv, QueueTypes, Settled, Done
<1>2. Patient' /\ values' = {} /\ screen' = screen
  BY DEF TasksInv, QueueTypes, Patient, Does
<1>3. screen \in {"list", "video", "paused"} => Settled'
  BY DEF TasksInv, QueueTypes
<1>4. screen = "folders" /\ ~Settled' => tasks'[Len(tasks')].kind = "list"
  <2> SUFFICES ASSUME screen = "folders", ~Settled' PROVE tasks'[n].kind = "list"
    BY <1>1
  <2>1. n # 0 /\ tasks[n + 1].kind = "list"
    BY <1>1 DEF TasksInv, QueueTypes, Settled
  <2> QED
    BY <1>1, <2>1
<1>5. ASSUME NEW i \in DOMAIN tasks'
      PROVE  /\ tasks'[i].kind = "list" => i = Len(tasks') /\ screen' = "folders"
             /\ tasks'[i].kind # "erase"
  <2>1. tasks'[i] = tasks[i + 1] /\ i + 1 \in DOMAIN tasks /\ i \in Nat \ {0}
    BY <1>1
  <2>2. /\ tasks[i + 1].kind = "list" => i + 1 = n + 1 /\ screen = "folders"
        /\ tasks[i + 1].kind = "erase" => i + 1 = 1
    BY <1>1, <2>1 DEF TasksInv, QueueTypes
  <2> QED
    BY <1>1, <1>2, <2>1, <2>2
<1> QED
  BY <1>1, <1>2, <1>3, <1>4, <1>5 DEF TasksInv, QueueTypes

\* The save at the head has one folder less to do.
LEMMA SaveGoesOn ==
  ASSUME TasksInv, ~Settled, Task.kind = "save", NEW ps \in SUBSET Paths,
         tasks' = <<Save(ps)>> \o Tail(tasks), values' \subseteq Paths \X Names,
         UNCHANGED <<screen, use>>
  PROVE  TasksInv'
<1>1. Save(ps) \in TaskSet
  BY DEF Save, TaskSet
<1>2. PICK n \in Nat : /\ DOMAIN tasks = 1..(n + 1) /\ Len(tasks) = n + 1
                       /\ tasks' \in Seq(TaskSet) /\ tasks' # <<>>
                       /\ DOMAIN tasks' = 1..(n + 1) /\ Len(tasks') = n + 1
                       /\ tasks'[1] = Save(ps)
                       /\ \A k \in 1..n : tasks'[k + 1] = tasks[k + 1]
  BY <1>1, FirstTaskReplaced DEF TasksInv, QueueTypes, Settled
<1>3. tasks[1].kind = "save"
  <2>1. Head(tasks) = tasks[1]
    BY FirstTask DEF TasksInv, QueueTypes, Settled
  <2> QED
    BY <2>1 DEF Task
<1>4. ASSUME NEW i \in DOMAIN tasks PROVE tasks'[i].kind = tasks[i].kind
  <2>1. i = 1 \/ \E k \in 1..n : i = k + 1
    <3>1. i = 1 \/ (i - 1 \in 1..n /\ i = (i - 1) + 1)
      BY <1>2
    <3> QED
      BY <3>1
  <2> QED
    BY <2>1, <1>2, <1>3 DEF Save
<1>5. Patient'
  BY DEF TasksInv, QueueTypes, Patient, Does
<1>6. 1 \in DOMAIN tasks /\ n + 1 \in DOMAIN tasks
  BY <1>2
<1>7. tasks'[1].kind = "save" /\ tasks'[Len(tasks')].kind = tasks[Len(tasks)].kind
  BY <1>2, <1>3, <1>4, <1>6
<1>8. \A i \in DOMAIN tasks' : /\ tasks'[i].kind = "list" => i = Len(tasks') /\ screen = "folders"
                               /\ tasks'[i].kind = "erase" =>
                                    i = 1 /\ Len(tasks') = 2 /\ screen = "folders"
  BY <1>2, <1>4 DEF TasksInv, QueueTypes
<1> QED
  BY <1>2, <1>5, <1>7, <1>8 DEF TasksInv, QueueTypes, Settled

\* A user who waits finds no task when something is done on the folder screen.
LEMMA FolderScreenWaits ==
  ASSUME TasksInv, OnFolders
  PROVE  Settled /\ screen = "folders"
  BY DEF TasksInv, QueueTypes, OnFolders, Patient

\* The task at the head; where nothing is to be inserted unless it saves.
LEMMA HeadTask ==
  ASSUME QueueTypes, ~Settled
  PROVE  /\ 1 \in DOMAIN tasks /\ Task = tasks[1]
         /\ Task.paths \subseteq Paths /\ Task.kind \in {"list", "save", "erase"}
<1>1. PICK n \in Nat : /\ DOMAIN tasks = 1..(n + 1) /\ Len(tasks) = n + 1
                       /\ Head(tasks) = tasks[1] /\ Head(tasks) \in TaskSet
  BY FirstTask DEF QueueTypes, Settled
<1>2. Task = tasks[1] /\ Task \in TaskSet /\ 1 \in DOMAIN tasks
  BY <1>1 DEF Task
<1>3. Task.paths \subseteq Paths /\ Task.kind \in {"list", "save", "erase"}
  BY <1>2 DEF TaskSet
<1> QED
  BY <1>2, <1>3

\* Where the list is the head, it is the only task.
LEMMA HeadInOrder ==
  ASSUME TasksInv, ~Settled
  PROVE  /\ values # {} => Task.kind = "save"
         /\ Task.kind = "list" => screen = "folders" /\ Len(tasks) = 1
<1>1. Task = tasks[1] /\ 1 \in DOMAIN tasks
  BY HeadTask DEF TasksInv
<1>2. tasks[1].kind = "list" => screen = "folders" /\ Len(tasks) = 1
  BY <1>1 DEF TasksInv
<1>3. values # {} => tasks[1].kind = "save"
  BY DEF TasksInv
<1> QED
  BY <1>1, <1>2, <1>3

\* Files are to be erased and the list to be reloaded.
LEMMA EraseQueued ==
  ASSUME TasksInv, Settled, screen = "folders", UNCHANGED <<screen, use, values>>,
         NEW p \in Paths, tasks' = tasks \o <<Erase(p), List>>
  PROVE  /\ TasksInv' /\ Reloads' /\ tasks' # <<>>
         /\ DOMAIN tasks' = 1..2 /\ tasks'[1] = Erase(p) /\ tasks'[2] = List
<1>1. Erase(p) \in TaskSet /\ List \in TaskSet
  BY DEF Erase, List, TaskSet
<1>2. PICK a \in TaskSet, b \in TaskSet : a = Erase(p) /\ b = List
  BY <1>1
<1>3. tasks' = <<a, b>>
  BY <1>2 DEF Settled
<1>4. /\ tasks' \in Seq(TaskSet) /\ Len(tasks') = 2 /\ tasks' # <<>> /\ DOMAIN tasks' = 1..2
      /\ tasks'[1] = a /\ tasks'[2] = b
  <2> DEFINE t == <<a, b>>
  <2>1. t \in Seq(TaskSet) /\ Len(t) = 2 /\ t # <<>> /\ DOMAIN t = 1..2
    OBVIOUS
  <2>2. t[1] = a /\ t[2] = b
    OBVIOUS
  <2> HIDE DEF t
  <2>3. tasks' = t
    BY <1>3 DEF t
  <2> QED
    BY <2>1, <2>2, <2>3
<1>5. tasks'[1].kind = "erase" /\ tasks'[2].kind = "list"
  BY <1>2, <1>4 DEF Erase, List
<1>6. values' = {} /\ Patient'
  BY DEF TasksInv, QueueTypes, Patient, Does
<1>7. \A i \in DOMAIN tasks' : i = 1 \/ i = 2
  BY <1>4
<1>8. Reloads'
  BY <1>4, <1>5 DEF Reloads
<1> QED
  BY <1>2, <1>4, <1>5, <1>6, <1>7, <1>8 DEF TasksInv, QueueTypes, Settled

\* The file browser queues a save behind the others.
LEMMA SaveQueued ==
  ASSUME TypeOK, TasksInv, SaveFolders, UNCHANGED use
  PROVE  TasksInv'
<1>1. PICK ps \in SUBSET exists : ps # {} /\ Execute(Save(ps))
  BY DEF SaveFolders, Checkable
<1>2. Save(ps) \in TaskSet
  BY <1>1 DEF Save, TaskSet, TypeOK
<1>3. PICK n \in Nat : /\ DOMAIN tasks = 1..n /\ Len(tasks) = n
                       /\ tasks' \in Seq(TaskSet) /\ tasks' # <<>>
                       /\ DOMAIN tasks' = 1..(n + 1) /\ Len(tasks') = n + 1
                       /\ tasks'[n + 1] = Save(ps)
                       /\ \A k \in 1..n : tasks'[k] = tasks[k]
  BY <1>1, <1>2, AppendedTask DEF TasksInv, QueueTypes, Execute
<1>4. screen = "files" /\ screen' = "files" /\ Patient' /\ values' = values
  BY <1>1 DEF SaveFolders, ui, Execute, TasksInv, QueueTypes, Patient, Does
<1>5. ASSUME NEW i \in DOMAIN tasks'
      PROVE  tasks'[i].kind # "list" /\ tasks'[i].kind # "erase"
  <2>1. CASE i = n + 1
    BY <1>3, <2>1 DEF Save
  <2>2. CASE i \in 1..n
    BY <1>3, <1>4, <2>2 DEF TasksInv, QueueTypes
  <2> QED
    BY <1>3, <2>1, <2>2
<1>6. values # {} => tasks'[1].kind = "save"
  <2> SUFFICES ASSUME values # {} PROVE tasks'[1].kind = "save"
    OBVIOUS
  <2>1. n # 0 /\ tasks[1].kind = "save"
    BY <1>3 DEF TasksInv, QueueTypes, Settled
  <2> QED
    BY <1>3, <2>1
<1> QED
  BY <1>3, <1>4, <1>5, <1>6 DEF TasksInv, QueueTypes, Settled

\* The order of the queue, action by action.
LEMMA TasksStep ==
  ASSUME TypeInv, TasksInv, [Next]_vars
  PROVE  TasksInv'
<1>1. UNCHANGED use
  BY DEF Next, vars
<1>2. CASE UNCHANGED vars
  BY <1>1, <1>2, QueueKept DEF vars, jobs, ui
<1>3. CASE Refresh \/ FolderNotExist \/ RenameFolder
  <2>1. OnFolders /\ Execute(List) /\ screen' = screen
    BY <1>3 DEF Refresh, RefreshList, FolderNotExist, RenameFolder, ui
  <2> QED
    BY <1>1, <2>1, FolderScreenWaits, ListQueued
<1>4. CASE ReturnToFolders \/ LeaveLastVideo
  <2>1. Execute(List) /\ screen' = "folders" /\ screen \in {"files", "list", "paused"}
    BY <1>4 DEF ReturnToFolders, LeaveLastVideo, Leave, RefreshList
  <2> QED
    BY <1>1, <2>1, ListQueued DEF TasksInv, QueueTypes
<1>5. CASE ToFiles
  BY <1>1, <1>5, QueueKept DEF ToFiles, TasksInv, QueueTypes, Patient
<1>6. CASE OpenFolder \/ Search \/ PlayLastVideo
  <2>1. OnFolders /\ UNCHANGED jobs /\ screen' \in {"list", "video"}
    BY <1>6 DEF OpenFolder, Search, PlayLastVideo
  <2> QED
    BY <1>1, <2>1, FolderScreenWaits, QueueKept
<1>7. CASE DeleteFolder
  <2>1. OnFolders /\ screen' = screen
    BY <1>7 DEF DeleteFolder, ui
  <2>2. PICK i \in listed :
          Execute(List) \/ (tasks' = tasks \o <<Erase(i.path), List>> /\ UNCHANGED values)
    BY <1>7 DEF DeleteFolder
  <2>3. i.path \in Paths
    BY DEF TypeInv, FolderItem
  <2> QED
    BY <1>1, <2>1, <2>2, <2>3, FolderScreenWaits, ListQueued, EraseQueued
<1>8. CASE SaveFolders
  BY <1>1, <1>8, SaveQueued DEF TypeInv
<1>9. CASE \/ DeleteVideo \/ RenameVideo \/ PlayVideo \/ PlayOtherVideo
           \/ PauseVideo \/ ResumeVideo \/ LeaveVideo
  <2>1. /\ screen \in {"list", "video", "paused"} /\ UNCHANGED jobs
        /\ screen' \in {"list", "video", "paused"}
    BY <1>9 DEF DeleteVideo, RenameVideo, PlayVideo, PlayOtherVideo, PauseVideo, ResumeVideo,
                LeaveVideo, Leave, OnList
  <2>2. Settled
    BY <2>1 DEF TasksInv, QueueTypes
  <2> QED
    BY <1>1, <2>1, <2>2, QueueKept
<1>10. CASE CardChanges \/ DestroyVideo
  BY <1>1, <1>10, QueueKept DEF CardChanges, DestroyVideo, ui
<1>11. ASSUME Restart
       PROVE  TasksInv'
  <2>1. List \in TaskSet
    BY DEF List, TaskSet
  <2>2. tasks' = <<List>> /\ values' = {} /\ screen' = "folders"
    BY <1>11 DEF Restart
  <2>3. /\ tasks' \in Seq(TaskSet) /\ DOMAIN tasks' = {1} /\ Len(tasks') = 1
        /\ tasks'[1].kind = "list"
    BY <2>1, <2>2 DEF List
  <2>4. Patient'
    BY <1>1 DEF TasksInv, QueueTypes, Patient, Does
  <2> QED
    BY <2>2, <2>3, <2>4 DEF TasksInv, QueueTypes
<1>12. ASSUME RunTask
       PROVE  TasksInv'
  <2>1. ~Settled
    BY <1>12 DEF RunTask, Settled
  <2>2. CASE LoadFolders \/ Saved \/ EraseFiles
    <3>1. values = {}
      BY <2>1, <2>2, HeadInOrder DEF LoadFolders, Saved, EraseFiles
    <3>2. Done /\ UNCHANGED <<screen, values>>
      BY <2>2 DEF LoadFolders, Saved, EraseFiles, ui
    <3> QED
      BY <1>1, <2>1, <3>1, <3>2, TaskDone
  <2>3. CASE SaveFolder
    <3>1. PICK p \in Task.paths \cap exists :
            /\ tasks' = <<Save(Task.paths \ {p})>> \o Tail(tasks)
            /\ values' = values \/ values' = values \cup ({p} \X disk[p])
      BY <2>3 DEF SaveFolder
    <3>2. Task.paths \ {p} \in SUBSET Paths /\ p \in Paths /\ disk[p] \subseteq Names
      BY <2>1, HeadTask DEF TypeInv, TypeOK, TasksInv
    <3>3. values' \subseteq Paths \X Names
      BY <3>1, <3>2 DEF TasksInv, QueueTypes
    <3>4. Task.kind = "save" /\ screen' = screen
      BY <2>3 DEF SaveFolder, ui
    <3> QED
      BY <1>1, <2>1, <3>1, <3>2, <3>3, <3>4, SaveGoesOn
  <2>4. CASE InsertAll
    <3>1. tasks' = tasks /\ values' = {} /\ screen' = screen
      BY <2>4 DEF InsertAll, ui
    <3>2. Patient'
      BY <1>1 DEF TasksInv, QueueTypes, Patient, Does
    <3> QED
      BY <3>1, <3>2 DEF TasksInv, QueueTypes, Settled
  <2>5. CASE SaveDies
    BY <1>11, <2>5 DEF SaveDies
  <2> QED
    BY <1>12, <2>2, <2>3, <2>4, <2>5 DEF RunTask
<1>13. CASE Killed
  BY <1>11, <1>13 DEF Killed
<1> QED
  BY <1>2, <1>3, <1>4, <1>5, <1>6, <1>7, <1>8, <1>9, <1>10, <1>12, <1>13
  DEF Next, FolderScreen, VideoScreens

\* A handler adds at most its own task to those there were.
LEMMA ExecuteAdds ==
  ASSUME QueueTypes, NEW t \in TaskSet, Execute(t)
  PROVE  /\ ~Settled' /\ values' = values
         /\ \A i \in DOMAIN tasks' : tasks'[i] = t \/ (i \in DOMAIN tasks /\ tasks'[i] = tasks[i])
         /\ Settled => tasks'[1] = t
         /\ ~Settled => tasks'[1] = tasks[1]
<1>1. PICK n \in Nat : /\ DOMAIN tasks = 1..n /\ Len(tasks) = n /\ tasks' # <<>>
                       /\ DOMAIN tasks' = 1..(n + 1) /\ tasks'[n + 1] = t
                       /\ \A k \in 1..n : tasks'[k] = tasks[k]
  BY AppendedTask DEF QueueTypes, Execute
<1>2. ASSUME NEW i \in DOMAIN tasks'
      PROVE  tasks'[i] = t \/ (i \in DOMAIN tasks /\ tasks'[i] = tasks[i])
  <2>1. i = n + 1 \/ i \in 1..n
    BY <1>1
  <2> QED
    BY <1>1, <2>1
<1>3. Settled <=> n = 0
  BY <1>1 DEF QueueTypes, Settled
<1>4. Settled => tasks'[1] = t
  BY <1>1, <1>3
<1>5. ~Settled => tasks'[1] = tasks[1]
  <2> SUFFICES ASSUME ~Settled PROVE tasks'[1] = tasks[1]
    OBVIOUS
  <2>1. 1 \in 1..n
    BY <1>3
  <2> QED
    BY <1>1, <2>1
<1> QED
  BY <1>1, <1>2, <1>4, <1>5 DEF Execute, Settled

\* What is left when the task at the head has ended.
LEMMA DoneLeaves ==
  ASSUME QueueTypes, ~Settled, Done
  PROVE  /\ \A i \in DOMAIN tasks' :
              i + 1 \in DOMAIN tasks /\ i + 1 # 1 /\ tasks'[i] = tasks[i + 1]
         /\ ~Settled' => 2 \in DOMAIN tasks /\ 1 \in DOMAIN tasks' /\ tasks'[1] = tasks[2]
<1>1. PICK n \in Nat : /\ DOMAIN tasks = 1..(n + 1) /\ DOMAIN tasks' = 1..n
                       /\ \A k \in 1..n : tasks'[k] = tasks[k + 1]
                       /\ tasks' = <<>> <=> n = 0
  BY FirstTask DEF QueueTypes, Settled, Done
<1>2. \A i \in DOMAIN tasks' : i + 1 \in DOMAIN tasks /\ i + 1 # 1
  BY <1>1
<1>3. ~Settled' => 1 \in 1..n /\ 1 + 1 = 2
  BY <1>1 DEF Settled
<1> QED
  BY <1>1, <1>2, <1>3

\* The reload of the list is a task.
LEMMA ListIsTask == List \in TaskSet /\ List.kind = "list"
  BY DEF List, TaskSet

\* A task that ends and is no reload leaves the reload behind it.
LEMMA DoneKeepsReload ==
  ASSUME TasksInv, ~Settled, Done, Task.kind # "list"
  PROVE  /\ Reloads' <=> Reloads
         /\ screen = "folders" => Reloads' /\ ~Settled'
<1>1. PICK n \in Nat : /\ DOMAIN tasks = 1..(n + 1) /\ Len(tasks) = n + 1
                       /\ DOMAIN tasks' = 1..n /\ \A k \in 1..n : tasks'[k] = tasks[k + 1]
                       /\ tasks' = <<>> <=> n = 0
  BY FirstTask DEF TasksInv, QueueTypes, Settled, Done
<1>2. tasks[1].kind # "list"
  BY HeadTask DEF TasksInv
<1>3. ASSUME Reloads PROVE Reloads'
  <2>1. PICK i \in 1..(n + 1) : tasks[i].kind = "list"
    BY <1>1, <1>3 DEF Reloads
  <2>2. PICK k \in 1..n : i = k + 1
    <3>1. i # 1 /\ i - 1 \in 1..n /\ i = (i - 1) + 1
      BY <1>2, <2>1
    <3> QED
      BY <3>1
  <2> QED
    BY <1>1, <2>1, <2>2 DEF Reloads
<1>4. ASSUME Reloads' PROVE Reloads
  <2>1. PICK k \in 1..n : tasks[k + 1].kind = "list"
    BY <1>1, <1>4 DEF Reloads
  <2>2. k + 1 \in DOMAIN tasks
    BY <1>1
  <2> QED
    BY <2>1, <2>2 DEF Reloads
<1>5. ASSUME screen = "folders" PROVE Reloads' /\ ~Settled'
  <2>1. tasks[n + 1].kind = "list" /\ n + 1 \in DOMAIN tasks
    BY <1>1, <1>5 DEF TasksInv
  <2>2. Reloads /\ n # 0
    BY <1>2, <2>1 DEF Reloads
  <2> QED
    BY <1>1, <1>3, <2>2 DEF Settled
<1> QED
  BY <1>3, <1>4, <1>5

\* A save that goes on leaves the other tasks.
LEMMA SaveKeepsReload ==
  ASSUME QueueTypes, ~Settled, Task.kind = "save", NEW ps \in SUBSET Paths,
         tasks' = <<Save(ps)>> \o Tail(tasks)
  PROVE  /\ Reloads' <=> Reloads
         /\ ~Settled' /\ DOMAIN tasks' = DOMAIN tasks /\ tasks'[1] = Save(ps)
         /\ \A i \in DOMAIN tasks : i # 1 => tasks'[i] = tasks[i]
<1>1. Save(ps) \in TaskSet
  BY DEF Save, TaskSet
<1>2. PICK n \in Nat : /\ DOMAIN tasks = 1..(n + 1) /\ tasks' # <<>>
                       /\ DOMAIN tasks' = 1..(n + 1) /\ tasks'[1] = Save(ps)
                       /\ \A k \in 1..n : tasks'[k + 1] = tasks[k + 1]
  BY <1>1, FirstTaskReplaced DEF QueueTypes, Settled
<1>3. tasks[1].kind = "save"
  BY HeadTask
<1>4. ASSUME NEW i \in DOMAIN tasks, i # 1 PROVE tasks'[i] = tasks[i]
  <2>1. i - 1 \in 1..n /\ i = (i - 1) + 1
    BY <1>2, <1>4
  <2> QED
    BY <1>2, <2>1
<1>5. ASSUME NEW i \in DOMAIN tasks PROVE tasks'[i].kind = tasks[i].kind
  BY <1>2, <1>3, <1>4 DEF Save
<1> QED
  BY <1>2, <1>4, <1>5 DEF Reloads, Settled

-----------------------------------------------------------------------------
(* What the operations do to the tables.                                    *)

\* A directory has finitely many videos.
LEMMA CountsAreNumbers ==
  ASSUME TypeOK, NEW p \in Paths
  PROVE  getVideoCount(p) \in Nat
<1>1. disk[p] \in SUBSET Names
  BY DEF TypeOK
<1>2. IsFiniteSet(disk[p])
  BY <1>1, LibraryAssumption, FS_Subset
<1> QED
  BY <1>2, FS_CardinalityType DEF getVideoCount

\* refreshList(true): the items whose directory is gone, the directories of
\* the others, the rows that are kept and the files that have none.
Gone == {i \in listed : i.path \notin exists}
GoneIds == {i.id : i \in Gone}
Here == {i.path : i \in listed \ Gone}
Stays == {v \in videos : /\ v.parent \notin {i.path : i \in Gone}
                         /\ v.parent \in Here => v.name \in disk[v.parent]}
New == {x \in Here \X Names : /\ x[2] \in disk[x[1]]
                              /\ ~\E v \in Stays : v.parent = x[1] /\ v.name = x[2]}
ListedIds == {i.id : i \in listed}
ItemOf(f) == CHOOSE i \in listed : i.id = f.id
Recount(f) ==
  IF f.id \in ListedIds THEN [f EXCEPT !.count = getVideoCount(ItemOf(f).path)] ELSE f

\* The rows after a refresh, and the rows before they come from.
LEMMA RefreshEffect ==
  ASSUME TypeInv, IdsInv, RefreshList
  PROVE  /\ folders' \subseteq FolderRow /\ videos' \subseteq VideoRow
         /\ \A g \in folders' : \E f \in folders :
              /\ f.id = g.id /\ f.path = g.path /\ f.recent = g.recent /\ f.id \notin GoneIds
              /\ f.id \notin ListedIds => g.count = f.count
              /\ f.id \in ListedIds =>
                   \E i \in listed : i.id = f.id /\ g.count = getVideoCount(i.path)
         /\ \A f \in folders : f.id \notin GoneIds => \E g \in folders' :
              f.id = g.id /\ f.path = g.path /\ f.recent = g.recent
         /\ \A f, g \in folders' : f.id = g.id => f = g
         /\ videos' = Stays \cup Numbered(New) /\ Execute(List)
         /\ New \in SUBSET (Paths \X Names) /\ Room(New)
<1>1. /\ Room(New) /\ Execute(List) /\ videos' = Stays \cup Numbered(New)
      /\ folders' = {Recount(f) : f \in {g \in folders : g.id \notin GoneIds}}
  BY DEF RefreshList, New, Stays, Here, Gone, GoneIds, Recount, ListedIds, ItemOf
<1>2. New \in SUBSET (Paths \X Names)
  <2>1. Here \subseteq Paths
    BY DEF Here, TypeInv, FolderItem
  <2> QED
    BY <2>1 DEF New
<1>3. videos' \subseteq VideoRow
  <2>1. Stays \subseteq VideoRow
    BY DEF Stays, TypeInv
  <2> QED
    BY <1>1, <1>2, <2>1, RowsAreNew
<1>4. ASSUME NEW f \in folders
      PROVE  /\ Recount(f) \in FolderRow
             /\ Recount(f).id = f.id /\ Recount(f).path = f.path
             /\ Recount(f).recent = f.recent
             /\ f.id \notin ListedIds => Recount(f).count = f.count
             /\ f.id \in ListedIds =>
                   \E i \in listed : i.id = f.id /\ Recount(f).count = getVideoCount(i.path)
  <2>1. f \in FolderRow
    BY DEF TypeInv
  <2>2. CASE f.id \notin ListedIds
    BY <2>1, <2>2 DEF Recount
  <2>3. CASE f.id \in ListedIds
    <3>1. ItemOf(f) \in listed /\ ItemOf(f).id = f.id
      BY <2>3 DEF ListedIds, ItemOf
    <3>2. getVideoCount(ItemOf(f).path) \in Nat
      BY <3>1, CountsAreNumbers DEF TypeInv, FolderItem
    <3>3. Recount(f) = [f EXCEPT !.count = getVideoCount(ItemOf(f).path)]
      BY <2>3 DEF Recount
    <3>4. /\ Recount(f) \in FolderRow
          /\ Recount(f).id = f.id /\ Recount(f).path = f.path
          /\ Recount(f).recent = f.recent
          /\ Recount(f).count = getVideoCount(ItemOf(f).path)
      BY <2>1, <3>2, <3>3 DEF FolderRow
    <3> QED
      BY <2>3, <3>1, <3>4
  <2> QED
    BY <2>2, <2>3
<1> HIDE DEF Recount
<1>5. \A f, g \in folders' : f.id = g.id => f = g
  <2> SUFFICES ASSUME NEW g \in folders', NEW h \in folders', g.id = h.id PROVE g = h
    OBVIOUS
  <2>1. PICK f \in folders : g = Recount(f)
    BY <1>1
  <2>2. PICK e \in folders : h = Recount(e)
    BY <1>1
  <2>3. f = e
    BY <2>1, <2>2, <1>4 DEF IdsInv
  <2> QED
    BY <2>1, <2>2, <2>3
<1>6. folders' \subseteq FolderRow
  BY <1>1, <1>4
<1>7. ASSUME NEW g \in folders'
      PROVE  \E f \in folders :
              /\ f.id = g.id /\ f.path = g.path /\ f.recent = g.recent /\ f.id \notin GoneIds
              /\ f.id \notin ListedIds => g.count = f.count
              /\ f.id \in ListedIds =>
                   \E i \in listed : i.id = f.id /\ g.count = getVideoCount(i.path)
  <2>1. PICK f \in folders : g = Recount(f) /\ f.id \notin GoneIds
    BY <1>1
  <2> QED
    BY <2>1, <1>4
<1>8. ASSUME NEW f \in folders, f.id \notin GoneIds
      PROVE  \E g \in folders' : f.id = g.id /\ f.path = g.path /\ f.recent = g.recent
  <2>1. Recount(f) \in folders'
    BY <1>1, <1>8
  <2> QED
    BY <2>1, <1>4
<1> QED
  BY <1>1, <1>2, <1>3, <1>5, <1>6, <1>7, <1>8

\* The rows after a video was played, and those before, differ in their marks.
LEMMA PlayEffect ==
  ASSUME TypeInv, IdsInv, NEW item, updatePlayedTime(item)
  PROVE  /\ folders' \subseteq FolderRow /\ videos' \subseteq VideoRow
         /\ \A g \in folders' : \E f \in folders :
              /\ f.id = g.id /\ f.path = g.path /\ f.count = g.count
              /\ g.recent = 1 <=> f.path = item.parent
         /\ \A f \in folders : \E g \in folders' :
              /\ f.id = g.id /\ f.path = g.path /\ f.count = g.count
              /\ g.recent = 1 <=> f.path = item.parent
         /\ \A w \in videos' : \E v \in videos :
              /\ v.id = w.id /\ v.name = w.name /\ v.parent = w.parent
              /\ w.recent = 1 <=> v.id = item.id
         /\ \A v \in videos : \E w \in videos' :
              v.id = w.id /\ v.name = w.name /\ v.parent = w.parent
         /\ IdsInv'
<1> DEFINE F(f) == [f EXCEPT !.recent = IF f.path = item.parent THEN 1 ELSE 0]
           V(v) == [v EXCEPT !.recent = IF v.id = item.id THEN 1 ELSE 0]
<1>1. folders' = {F(f) : f \in folders} /\ videos' = {V(v) : v \in videos}
  BY DEF updatePlayedTime, UpdateRecent
<1>2. ASSUME NEW f \in folders
      PROVE  /\ F(f) \in FolderRow
             /\ f.id = F(f).id /\ f.path = F(f).path /\ f.count = F(f).count
             /\ F(f).recent = 1 <=> f.path = item.parent
  <2>1. f \in FolderRow
    BY DEF TypeInv
  <2> QED
    BY <2>1 DEF FolderRow
<1>3. ASSUME NEW v \in videos
      PROVE  /\ V(v) \in VideoRow
             /\ v.id = V(v).id /\ v.name = V(v).name /\ v.parent = V(v).parent
             /\ V(v).recent = 1 <=> v.id = item.id
  <2>1. v \in VideoRow
    BY DEF TypeInv
  <2> QED
    BY <2>1 DEF VideoRow
<1> HIDE DEF F, V
<1>4. \A f, g \in folders' : f.id = g.id => f = g
  <2> SUFFICES ASSUME NEW g \in folders', NEW h \in folders', g.id = h.id PROVE g = h
    OBVIOUS
  <2>1. PICK f \in folders, e \in folders : g = F(f) /\ h = F(e)
    BY <1>1
  <2> QED
    BY <2>1, <1>2 DEF IdsInv
<1>5. \A v, w \in videos' : v.id = w.id => v = w
  <2> SUFFICES ASSUME NEW v \in videos', NEW w \in videos', v.id = w.id PROVE v = w
    OBVIOUS
  <2>1. PICK a \in videos, b \in videos : v = V(a) /\ w = V(b)
    BY <1>1
  <2> QED
    BY <2>1, <1>3 DEF IdsInv
<1>6. IdsInv'
  BY <1>4, <1>5 DEF IdsInv
<1>7. folders' \subseteq FolderRow /\ videos' \subseteq VideoRow
  BY <1>1, <1>2, <1>3
<1>8. ASSUME NEW f \in folders PROVE F(f) \in folders'
  BY <1>1
<1>9. ASSUME NEW v \in videos PROVE V(v) \in videos'
  BY <1>1
<1>10. \A g \in folders' : \E f \in folders : g = F(f)
  BY <1>1
<1>11. \A w \in videos' : \E v \in videos : w = V(v)
  BY <1>1
<1> QED
  BY <1>2, <1>3, <1>6, <1>7, <1>8, <1>9, <1>10, <1>11

\* One folder and its videos are deleted.
LEMMA DeleteEffect ==
  ASSUME NEW i, DeleteFolders({i})
  PROVE  /\ folders' = {f \in folders : f.id # i.id}
         /\ videos' = {v \in videos : v.parent # i.path}
  BY DEF DeleteFolders

CardTypes ==
  /\ exists \subseteq Paths /\ disk \in [Paths -> SUBSET Names]
  /\ \A p \in Paths \ exists : disk[p] = {}

\* A directory is in itself, and goes where it is moved.
LEMMA WithinItself ==
  ASSUME NEW d \in Paths
  PROVE  Within(d, d) /\ \A from \in Paths : Relocated(d, d, from) = from
<1>1. d \in Seq(Labels)
  BY LibraryAssumption
<1>2. Within(d, d)
  BY <1>1 DEF Within, IsPrefix
<1>3. ASSUME NEW from \in Paths PROVE Relocated(d, d, from) = from
  <2>1. from \in Seq(Labels)
    BY LibraryAssumption
  <2>2. SubSeq(d, Len(d) + 1, Len(d)) = <<>>
    BY <1>1
  <2> QED
    BY <2>1, <2>2 DEF Relocated
<1> QED
  BY <1>2, <1>3

\* Directories that are removed leave the others as they are.
LEMMA RemoveEffect ==
  ASSUME CardTypes, NEW ds, RemoveDirectories(ds)
  PROVE  /\ CardTypes' /\ exists' \subseteq exists
         /\ \A p \in Paths : disk'[p] \subseteq disk[p]
         /\ \A p \in Paths : (\A d \in ds : ~Within(p, d)) =>
              disk'[p] = disk[p] /\ (p \in exists => p \in exists')
<1> DEFINE gone == {p \in Paths : \E d \in ds : Within(p, d)}
<1>1. exists' = exists \ gone /\ disk' = [p \in Paths |-> IF p \in gone THEN {} ELSE disk[p]]
  BY DEF RemoveDirectories
<1>2. \A p \in Paths : p \in gone <=> \E d \in ds : Within(p, d)
  OBVIOUS
<1> HIDE DEF gone
<1> QED
  BY <1>1, <1>2 DEF CardTypes

\* The rows when the directory of an item is renamed.
Renaming(i, new) == {IF f.id = i.id THEN [f EXCEPT !.path = new] ELSE f : f \in folders}

\* A folder that is renamed takes its files along; what is not in it stays.
DirectoryMoved(i, new) ==
  /\ i.path \in exists /\ new \notin exists /\ new # i.path /\ MayChange(i.path)
  /\ folders' = Renaming(i, new) /\ videos' = Moved(i.path, new) /\ Execute(List)
  /\ new \in exists' /\ disk'[new] = disk[i.path]
  /\ \A p \in exists : ~Within(p, i.path) => p \in exists' /\ disk'[p] = disk[p]

LEMMA RenameFolderParts ==
  ASSUME TypeInv, RenameFolder
  PROVE  CardTypes' /\ \E i \in listed, new \in Paths : DirectoryMoved(i, new)
<1>1. PICK i \in listed, new \in Paths :
        /\ new \in NewNames(i.path) /\ i.path \in exists \ {<<>>} /\ MayChange(i.path)
        /\ MoveDirectory(i.path, new)
        /\ folders' = Renaming(i, new) /\ videos' = Moved(i.path, new) /\ Execute(List)
  <2>1. PICK i \in listed :
          /\ i.path \in exists \ {<<>>} /\ MayChange(i.path)
          /\ \E new \in NewNames(i.path) :
               /\ MoveDirectory(i.path, new)
               /\ folders' = {IF f.id = i.id THEN MovedFolder(f, new) ELSE f : f \in folders}
               /\ videos' = Moved(i.path, new)
    BY DEF RenameFolder
  <2>2. PICK new \in NewNames(i.path) :
          /\ MoveDirectory(i.path, new)
          /\ folders' = {IF f.id = i.id THEN MovedFolder(f, new) ELSE f : f \in folders}
          /\ videos' = Moved(i.path, new)
    BY <2>1
  <2>3. new \in Paths
    BY DEF NewNames
  <2>4. folders' = Renaming(i, new)
    BY <2>2 DEF MovedFolder, Renaming
  <2>5. Execute(List)
    BY DEF RenameFolder
  <2> QED
    BY <2>1, <2>2, <2>3, <2>4, <2>5
<1> DEFINE from == i.path
           was(p) == Relocated(p, new, from)
           moved  == {p \in Paths : Within(p, new) /\ was(p) \in exists}
<1>2. CardTypes /\ from \in Paths /\ new \in Paths /\ \A r \in exists : ~Within(r, new)
  BY <1>1 DEF TypeInv, TypeOK, CardTypes, NewNames
<1>3. /\ exists' = {p \in exists : ~Within(p, from)} \cup moved
      /\ disk' = [p \in Paths |-> IF p \in moved THEN disk[was(p)]
                                 ELSE IF Within(p, from) THEN {} ELSE disk[p]]
  BY <1>1 DEF MoveDirectory
<1>4. Within(from, from) /\ Within(new, new) /\ was(new) = from
  BY <1>2, WithinItself
<1>5. new \notin exists /\ new # from /\ new \in moved
  BY <1>1, <1>2, <1>4
<1>6. \A p \in moved : p \in Paths /\ Within(p, new) /\ was(p) \in exists
  OBVIOUS
<1> HIDE DEF from, was, moved
<1>7. new \in exists' /\ disk'[new] = disk[from]
  BY <1>2, <1>3, <1>4, <1>5
<1>8. ASSUME NEW p \in exists, ~Within(p, from)
      PROVE  p \in exists' /\ disk'[p] = disk[p]
  <2>1. p \in Paths /\ p \notin moved
    BY <1>2, <1>6 DEF CardTypes
  <2> QED
    BY <1>3, <1>8, <2>1
<1>9. CardTypes'
  <2>1. exists' \subseteq Paths
    BY <1>2, <1>3, <1>6 DEF CardTypes
  <2>2. disk' \in [Paths -> SUBSET Names]
    BY <1>2, <1>3, <1>6 DEF CardTypes
  <2>3. \A p \in Paths \ exists' : disk'[p] = {}
    BY <1>2, <1>3 DEF CardTypes
  <2> QED
    BY <2>1, <2>2, <2>3 DEF CardTypes
<1> QED
  BY <1>1, <1>2, <1>5, <1>7, <1>8, <1>9 DEF from, DirectoryMoved

\* The rows after a rename, and those before, differ in the path.
LEMMA RenameFolderEffect ==
  ASSUME TypeInv, IdsInv, NEW i \in listed, NEW new \in Paths,
         folders' = Renaming(i, new),
         videos' = Moved(i.path, new)
  PROVE  /\ folders' \subseteq FolderRow /\ videos' \subseteq VideoRow
         /\ \A g \in folders' : \E f \in folders :
              /\ f.id = g.id /\ f.count = g.count /\ f.recent = g.recent
              /\ g.path = IF f.id = i.id THEN new ELSE f.path
         /\ \A f \in folders : \E g \in folders' :
              /\ f.id = g.id /\ f.count = g.count /\ f.recent = g.recent
              /\ g.path = IF f.id = i.id THEN new ELSE f.path
         /\ \A w \in videos' : \E v \in videos :
              /\ v.id = w.id /\ v.name = w.name /\ v.recent = w.recent
              /\ w.parent = IF v.parent = i.path THEN new ELSE v.parent
         /\ \A v \in videos : \E w \in videos' :
              /\ v.id = w.id /\ v.name = w.name /\ v.recent = w.recent
              /\ w.parent = IF v.parent = i.path THEN new ELSE v.parent
         /\ IdsInv'
<1> DEFINE F(f) == IF f.id = i.id THEN [f EXCEPT !.path = new] ELSE f
           V(v) == IF v.parent = i.path THEN [v EXCEPT !.parent = new] ELSE v
<1>1. folders' = {F(f) : f \in folders} /\ videos' = {V(v) : v \in videos}
  BY DEF Moved, Renaming
<1>2. ASSUME NEW f \in folders
      PROVE  /\ F(f) \in FolderRow
             /\ f.id = F(f).id /\ f.count = F(f).count /\ f.recent = F(f).recent
             /\ F(f).path = IF f.id = i.id THEN new ELSE f.path
  <2>1. f \in FolderRow
    BY DEF TypeInv
  <2> QED
    BY <2>1 DEF FolderRow
<1>3. ASSUME NEW v \in videos
      PROVE  /\ V(v) \in VideoRow
             /\ v.id = V(v).id /\ v.name = V(v).name /\ v.recent = V(v).recent
             /\ V(v).parent = IF v.parent = i.path THEN new ELSE v.parent
  <2>1. v \in VideoRow
    BY DEF TypeInv
  <2> QED
    BY <2>1 DEF VideoRow
<1> HIDE DEF F, V
<1>4. \A f, g \in folders' : f.id = g.id => f = g
  <2> SUFFICES ASSUME NEW g \in folders', NEW h \in folders', g.id = h.id PROVE g = h
    OBVIOUS
  <2>1. PICK f \in folders, e \in folders : g = F(f) /\ h = F(e)
    BY <1>1
  <2> QED
    BY <2>1, <1>2 DEF IdsInv
<1>5. \A v, w \in videos' : v.id = w.id => v = w
  <2> SUFFICES ASSUME NEW v \in videos', NEW w \in videos', v.id = w.id PROVE v = w
    OBVIOUS
  <2>1. PICK a \in videos, b \in videos : v = V(a) /\ w = V(b)
    BY <1>1
  <2> QED
    BY <2>1, <1>3 DEF IdsInv
<1>6. IdsInv'
  BY <1>4, <1>5 DEF IdsInv
<1>7. folders' \subseteq FolderRow /\ videos' \subseteq VideoRow
  BY <1>1, <1>2, <1>3
<1>8. ASSUME NEW f \in folders PROVE F(f) \in folders'
  BY <1>1
<1>9. ASSUME NEW v \in videos PROVE V(v) \in videos'
  BY <1>1
<1>10. \A g \in folders' : \E f \in folders : g = F(f)
  BY <1>1
<1>11. \A w \in videos' : \E v \in videos : w = V(v)
  BY <1>1
<1> QED
  BY <1>2, <1>3, <1>6, <1>7, <1>8, <1>9, <1>10, <1>11

\* The rows when the video of an item is renamed.
Renamed(i, n) == {IF v.id = i.id THEN [v EXCEPT !.name = n] ELSE v : v \in videos}

\* The rows after a rename, and those before, differ in the name.
LEMMA RenameVideoEffect ==
  ASSUME TypeInv, IdsInv, NEW i, NEW n \in Names, UNCHANGED folders, videos' = Renamed(i, n)
  PROVE  /\ videos' \subseteq VideoRow
         /\ \A w \in videos' : \E v \in videos :
              /\ v.id = w.id /\ v.parent = w.parent /\ v.recent = w.recent
              /\ w.name = IF v.id = i.id THEN n ELSE v.name
         /\ \A v \in videos : \E w \in videos' :
              /\ v.id = w.id /\ v.parent = w.parent /\ v.recent = w.recent
              /\ w.name = IF v.id = i.id THEN n ELSE v.name
         /\ IdsInv'
<1> DEFINE V(v) == IF v.id = i.id THEN [v EXCEPT !.name = n] ELSE v
<1>1. videos' = {V(v) : v \in videos}
  BY DEF Renamed
<1>2. ASSUME NEW v \in videos
      PROVE  /\ V(v) \in VideoRow
             /\ v.id = V(v).id /\ v.parent = V(v).parent /\ v.recent = V(v).recent
             /\ V(v).name = IF v.id = i.id THEN n ELSE v.name
  <2>1. v \in VideoRow
    BY DEF TypeInv
  <2> QED
    BY <2>1 DEF VideoRow
<1> HIDE DEF V
<1>3. \A v, w \in videos' : v.id = w.id => v = w
  <2> SUFFICES ASSUME NEW v \in videos', NEW w \in videos', v.id = w.id PROVE v = w
    OBVIOUS
  <2>1. PICK a \in videos, b \in videos : v = V(a) /\ w = V(b)
    BY <1>1
  <2> QED
    BY <2>1, <1>2 DEF IdsInv
<1>4. IdsInv'
  BY <1>3 DEF IdsInv
<1>5. ASSUME NEW v \in videos PROVE V(v) \in videos'
  BY <1>1
<1>6. \A w \in videos' : \E v \in videos : w = V(v)
  BY <1>1
<1>7. videos' \subseteq VideoRow
  BY <1>2, <1>6
<1>8. ASSUME NEW w \in videos'
      PROVE  \E v \in videos :
              /\ v.id = w.id /\ v.parent = w.parent /\ v.recent = w.recent
              /\ w.name = IF v.id = i.id THEN n ELSE v.name
  BY <1>2, <1>6, Zenon
<1>9. ASSUME NEW v \in videos
      PROVE  \E w \in videos' :
              /\ v.id = w.id /\ v.parent = w.parent /\ v.recent = w.recent
              /\ w.name = IF v.id = i.id THEN n ELSE v.name
  BY <1>2, <1>5, Zenon
<1> QED
  BY <1>4, <1>7, <1>8, <1>9, Zenon

\* SaveAsyncTask adds a row for a directory that has none, or adds nothing.
LEMMA SaveEffect ==
  ASSUME TypeInv, IdsInv, QueueTypes, ~Settled, SaveFolder
  PROVE  \E p \in Task.paths \cap exists :
           /\ tasks' = <<Save(Task.paths \ {p})>> \o Tail(tasks) /\ p \in Paths
           /\ \/ UNCHANGED <<folders, values>>
              \/ /\ ~folderExist(p)
                 /\ \E f \in FolderRow :
                      /\ folders' = folders \cup {f} /\ f.path = p /\ f.recent = 0
                      /\ f.count = getVideoCount(p)
                      /\ \A g \in folders : g.id # f.id
                      /\ \A i \in listed : i.id # f.id
                 /\ values' = values \cup ({p} \X disk[p])
<1>1. PICK p \in Task.paths \cap exists :
        /\ tasks' = <<Save(Task.paths \ {p})>> \o Tail(tasks)
        /\ \/ UNCHANGED <<folders, values>>
           \/ /\ ~folderExist(p) /\ FreeFolderIds # {}
              /\ folders' = folders \cup {[id |-> CHOOSE i \in FreeFolderIds : TRUE, path |-> p,
                                          count |-> getVideoCount(p), recent |-> 0]}
              /\ values' = values \cup ({p} \X disk[p])
  BY DEF SaveFolder
<1>2. p \in Paths /\ getVideoCount(p) \in Nat
  BY HeadTask, CountsAreNumbers DEF TypeInv
<1>3. tasks' = <<Save(Task.paths \ {p})>> \o Tail(tasks)
  BY <1>1
<1>4. CASE UNCHANGED <<folders, values>>
  BY <1>2, <1>4, <1>3
<1>5. CASE /\ ~folderExist(p) /\ FreeFolderIds # {}
           /\ folders' = folders \cup {[id |-> CHOOSE i \in FreeFolderIds : TRUE, path |-> p,
                                       count |-> getVideoCount(p), recent |-> 0]}
           /\ values' = values \cup ({p} \X disk[p])
  <2>1. PICK i \in FreeFolderIds :
          folders' = folders
            \cup {[id |-> i, path |-> p, count |-> getVideoCount(p), recent |-> 0]}
    BY <1>1, <1>5
  <2> DEFINE f == [id |-> i, path |-> p, count |-> getVideoCount(p), recent |-> 0]
  <2>2. i \in Ids /\ (\A g \in folders : g.id # i) /\ (\A j \in listed : j.id # i)
    BY DEF FreeFolderIds
  <2>3. f \in FolderRow
    BY <1>2, <2>2 DEF FolderRow
  <2>4. f.path = p /\ f.recent = 0 /\ f.count = getVideoCount(p) /\ f.id = i
    OBVIOUS
  <2> HIDE DEF f
  <2>5. folders' = folders \cup {f}
    BY <2>1 DEF f
  <2>6. ~folderExist(p) /\ values' = values \cup ({p} \X disk[p])
    BY <1>5
  <2> QED
    BY <1>2, <1>3, <2>2, <2>3, <2>4, <2>5, <2>6
<1> QED
  BY <1>1, <1>4, <1>5

\* The items of a list come from rows, in a list of a folder from all its rows.
LEMMA ItemsAreRows ==
  ASSUME TypeInv, NEW l
  PROVE  /\ Items(l, videos) \subseteq VideoItem
         /\ \A i \in Items(l, videos) :
              /\ \E v \in videos : v.id = i.id /\ v.name = i.name /\ v.parent = i.dir
              /\ l.by = "folder" => i.parent = i.dir
         /\ l.by # "search" => \A v \in videos :
              v.parent = l.of => \E i \in Items(l, videos) : i.id = v.id
<1> DEFINE I(v) == [id |-> v.id, name |-> v.name, dir |-> v.parent, parent |-> ParentPath(l, v)]
<1>1. Items(l, videos) =
        {I(v) : v \in {w \in videos : IF l.by = "search" THEN w.name = l.of ELSE w.parent = l.of}}
  BY DEF Items
<1>2. ASSUME NEW v \in videos
      PROVE  /\ I(v) \in VideoItem
             /\ I(v).id = v.id /\ I(v).name = v.name /\ I(v).dir = v.parent
             /\ l.by = "folder" => I(v).parent = v.parent
  <2>1. v \in VideoRow
    BY DEF TypeInv
  <2>2. ParentPath(l, v) \in Paths \cup {Nowhere}
    BY <2>1 DEF VideoRow, ParentPath
  <2>3. l.by = "folder" => ParentPath(l, v) = v.parent
    BY DEF ParentPath
  <2> QED
    BY <2>1, <2>2, <2>3 DEF VideoItem, VideoRow
<1> HIDE DEF I
<1>3. ASSUME NEW i \in Items(l, videos) PROVE \E v \in videos : i = I(v)
  BY <1>1
<1>4. ASSUME l.by # "search", NEW v \in videos, v.parent = l.of
      PROVE  I(v) \in Items(l, videos)
  BY <1>1, <1>4
<1>5. Items(l, videos) \subseteq VideoItem
  BY <1>2, <1>3
<1>6. ASSUME NEW i \in Items(l, videos)
      PROVE  /\ \E v \in videos : v.id = i.id /\ v.name = i.name /\ v.parent = i.dir
             /\ l.by = "folder" => i.parent = i.dir
  <2>1. PICK v \in videos : i = I(v)
    BY <1>3
  <2> QED
    BY <2>1, <1>2
<1>7. ASSUME l.by # "search", NEW v \in videos, v.parent = l.of
      PROVE  \E i \in Items(l, videos) : i.id = v.id
  BY <1>2, <1>4, <1>7
<1> QED
  BY <1>5, <1>6, <1>7

-----------------------------------------------------------------------------
(* The types of the card, the tables and the screens.                       *)

RowTypes == folders \subseteq FolderRow /\ videos \subseteq VideoRow

ScreenTypes ==
  /\ listed \subseteq FolderItem /\ items \subseteq VideoItem
  /\ current \in Ids \cup {NoId} /\ lastPlay \in Ids \cup {NoId} /\ ending \in Seq(Ids)
  /\ screen \in {"video", "paused"} => \E i \in items : i.id = current

\* The types of the card, the tables and the screens can be proved one by one.
LEMMA TypesInParts == TypeInv <=> CardTypes /\ RowTypes /\ ScreenTypes
<1>1. RowTypes => /\ \A f \in folders : f.id \in Ids /\ f.path \in Paths /\ f.recent \in {0, 1}
                  /\ \A v \in videos : /\ v.id \in Ids /\ v.name \in Names
                                       /\ v.parent \in Paths /\ v.recent \in {0, 1}
  BY DEF RowTypes, FolderRow, VideoRow
<1>2. ScreenTypes => \A i \in items : i.parent \in Paths \cup {Nowhere}
  BY DEF ScreenTypes, VideoItem
<1> QED
  BY <1>1, <1>2 DEF TypeInv, TypeOK, CardTypes, RowTypes, ScreenTypes

\* The types of the card.
LEMMA CardStep ==
  ASSUME TypeInv, QueueTypes, [Next]_vars
  PROVE  CardTypes'
<1>1. CardTypes
  BY TypesInParts
<1>2. CASE UNCHANGED card
  BY <1>1, <1>2 DEF CardTypes, card
<1>3. CASE RenameFolder
  BY <1>3, RenameFolderParts
<1>4. CASE DeleteVideo
  <2>1. PICK i \in items :
          disk' = IF HasFile(i) THEN [disk EXCEPT ![i.dir] = @ \ {i.name}] ELSE disk
    BY <1>4 DEF DeleteVideo
  <2> QED
    BY <1>1, <1>4, <2>1 DEF CardTypes, HasFile, DeleteVideo
<1>5. CASE RenameVideo
  <2>1. PICK i \in items, n \in Names :
          /\ HasFile(i)
          /\ disk' = IF i.parent \in Paths
                     THEN [disk EXCEPT ![i.dir] = (@ \ {i.name}) \cup {n}] ELSE disk
    BY <1>5 DEF RenameVideo
  <2>2. i.dir \in exists /\ exists' = exists
    BY <1>1, <1>5, <2>1 DEF CardTypes, HasFile, RenameVideo
  <2> QED
    BY <1>1, <2>1, <2>2 DEF CardTypes
<1>6. CASE RunTask /\ EraseFiles
  BY <1>1, <1>6, RemoveEffect DEF EraseFiles
<1>7. CASE CardChanges
  <2>1. CASE /\ exists' = exists
             /\ \E p \in exists, now \in SUBSET Names : disk' = [disk EXCEPT ![p] = now]
    BY <1>1, <2>1 DEF CardTypes
  <2>2. CASE disk' = disk /\ \E p \in Paths \ exists : exists' = exists \cup {p}
    BY <1>1, <2>2 DEF CardTypes
  <2>3. CASE \E p \in exists : RemoveDirectories({p})
    BY <1>1, <2>3, RemoveEffect
  <2> QED
    BY <1>7, <2>1, <2>2, <2>3 DEF CardChanges
<1>8. CASE Refresh \/ ReturnToFolders \/ ToFiles \/ OpenFolder \/ FolderNotExist \/ DeleteFolder
  BY <1>2, <1>8 DEF Refresh, ReturnToFolders, ToFiles, OpenFolder, FolderNotExist, DeleteFolder
<1>9. CASE SaveFolders \/ Search \/ PlayVideo \/ PlayLastVideo \/ PlayOtherVideo
  BY <1>2, <1>9 DEF SaveFolders, Search, PlayVideo, PlayLastVideo, PlayOtherVideo
<1>10. CASE PauseVideo \/ ResumeVideo \/ LeaveVideo \/ LeaveLastVideo \/ DestroyVideo
  BY <1>2, <1>10 DEF PauseVideo, ResumeVideo, LeaveVideo, LeaveLastVideo, DestroyVideo
<1>11. CASE LoadFolders \/ SaveFolder \/ InsertAll \/ Saved \/ SaveDies \/ Killed
  BY <1>2, <1>11 DEF LoadFolders, SaveFolder, InsertAll, Saved, SaveDies, Killed, Restart
<1> QED
  BY <1>2, <1>3, <1>4, <1>5, <1>6, <1>7, <1>8, <1>9, <1>10, <1>11
  DEF Next, FolderScreen, VideoScreens, RunTask, vars

\* The types of the tables, and that ids are unique.
LEMMA RowsStep ==
  ASSUME TypeInv, IdsInv, QueueTypes, [Next]_vars
  PROVE  RowTypes' /\ IdsInv'
<1> SUFFICES folders' \subseteq FolderRow /\ videos' \subseteq VideoRow /\ IdsInv'
  BY DEF RowTypes
<1>1. CASE UNCHANGED tables
  BY <1>1 DEF tables, TypeInv, IdsInv
<1>2. ASSUME RefreshList
      PROVE  folders' \subseteq FolderRow /\ videos' \subseteq VideoRow /\ IdsInv'
  <2>1. /\ folders' \subseteq FolderRow /\ videos' \subseteq VideoRow
        /\ \A f, g \in folders' : f.id = g.id => f = g
        /\ videos' = Stays \cup Numbered(New)
        /\ New \in SUBSET (Paths \X Names) /\ Room(New)
    BY <1>2, RefreshEffect
  <2>2. ASSUME NEW v \in videos', NEW w \in videos', v.id = w.id PROVE v = w
    <3>1. \A x \in Numbered(New) : x.id \in Unused
      BY <2>1, RowsAreNew
    <3>2. \A x \in Stays : x \in videos /\ x.id \notin Unused
      BY DEF Stays, Unused, UsedVideoIds
    <3>3. CASE v \in Stays /\ w \in Stays
      BY <2>2, <3>2, <3>3 DEF IdsInv
    <3>4. CASE v \in Numbered(New) /\ w \in Numbered(New)
      BY <2>1, <2>2, <3>4, RowsAreNew
    <3> QED
      BY <2>1, <2>2, <3>1, <3>2, <3>3, <3>4
  <2> QED
    BY <2>1, <2>2 DEF IdsInv
<1>3. CASE Refresh \/ ReturnToFolders \/ LeaveLastVideo
  BY <1>2, <1>3 DEF Refresh, ReturnToFolders, LeaveLastVideo
<1>4. CASE FolderNotExist \/ DeleteFolder
  <2>1. PICK i \in listed : DeleteFolders({i})
    BY <1>4 DEF FolderNotExist, DeleteFolder
  <2>2. folders' \subseteq folders /\ videos' \subseteq videos
    BY <2>1, DeleteEffect
  <2> QED
    BY <2>2 DEF TypeInv, IdsInv
<1>5. CASE RenameFolder
  <2>1. PICK i \in listed, new \in Paths :
          /\ folders' = Renaming(i, new)
          /\ videos' = Moved(i.path, new)
    BY <1>5, RenameFolderParts DEF DirectoryMoved
  <2> QED
    BY <2>1, RenameFolderEffect
<1>6. CASE DeleteVideo
  <2>1. folders' = folders /\ videos' \subseteq videos
    BY <1>6 DEF DeleteVideo
  <2> QED
    BY <2>1 DEF TypeInv, IdsInv
<1>7. CASE RenameVideo
  <2>1. PICK i \in items, n \in Names :
          videos' = Renamed(i, n)
    BY <1>7 DEF RenameVideo, Renamed
  <2>2. folders' = folders
    BY <1>7 DEF RenameVideo
  <2> QED
    BY <2>1, <2>2, RenameVideoEffect DEF TypeInv
<1>8. CASE PlayOtherVideo \/ PauseVideo
  <2>1. PICK i \in items : updatePlayedTime(i)
    BY <1>8 DEF PlayOtherVideo, PauseVideo
  <2> QED
    BY <2>1, PlayEffect
<1>9. ASSUME RunTask, SaveFolder
      PROVE  folders' \subseteq FolderRow /\ videos' \subseteq VideoRow /\ IdsInv'
  <2>1. videos' = videos /\ ~Settled
    BY <1>9 DEF SaveFolder, RunTask, Settled
  <2>2. folders' = folders \/ \E f \in FolderRow :
          folders' = folders \cup {f} /\ \A g \in folders : g.id # f.id
    BY <1>9, <2>1, SaveEffect
  <2> QED
    BY <2>1, <2>2 DEF TypeInv, IdsInv
<1>10. CASE InsertAll
  <2>1. folders' = folders /\ videos' = videos \cup Numbered(values) /\ Room(values)
    BY <1>10 DEF InsertAll
  <2>2. values \in SUBSET (Paths \X Names)
    BY DEF QueueTypes
  <2>3. /\ Numbered(values) \subseteq VideoRow
        /\ \A v \in Numbered(values) : v.id \in Unused
        /\ \A v, w \in Numbered(values) : v.id = w.id => v = w
    BY <2>1, <2>2, RowsAreNew
  <2>4. \A v \in videos : v.id \notin Unused
    BY DEF Unused, UsedVideoIds
  <2>5. \A v, w \in videos' : v.id = w.id => v = w
    BY <2>1, <2>3, <2>4 DEF IdsInv
  <2> QED
    BY <2>1, <2>3, <2>5 DEF TypeInv, IdsInv
<1>11. CASE ToFiles \/ OpenFolder \/ SaveFolders \/ Search \/ PlayVideo \/ PlayLastVideo
  BY <1>1, <1>11 DEF ToFiles, OpenFolder, SaveFolders, Search, PlayVideo, PlayLastVideo
<1>12. CASE LoadFolders \/ Saved \/ SaveDies \/ EraseFiles \/ CardChanges \/ Killed
  BY <1>1, <1>12 DEF LoadFolders, Saved, SaveDies, EraseFiles, CardChanges, Killed, Restart
<1>13. CASE ResumeVideo \/ LeaveVideo \/ DestroyVideo
  BY <1>1, <1>13 DEF ResumeVideo, LeaveVideo, DestroyVideo
<1> QED
  BY <1>1, <1>3, <1>4, <1>5, <1>6, <1>7, <1>8, <1>9, <1>10, <1>11, <1>12, <1>13
  DEF Next, FolderScreen, VideoScreens, RunTask, vars

\* The types of what the screens show.
LEMMA ScreenStep ==
  ASSUME TypeInv, IdsInv, QueueTypes, [Next]_vars
  PROVE  ScreenTypes'
<1>1. ScreenTypes
  BY TypesInParts
<1>2. CASE UNCHANGED ui
  BY <1>1, <1>2 DEF ScreenTypes, ui
<1>3. CASE ReturnToFolders
  BY <1>1, <1>3 DEF ScreenTypes, ReturnToFolders
<1>4. CASE ToFiles
  BY <1>1, <1>4 DEF ScreenTypes, ToFiles
<1>5. CASE OpenFolder \/ Search
  <2>1. PICK l : items' = Items(l, videos)
    BY <1>5 DEF OpenFolder, Search, Show
  <2> QED
    BY <1>1, <1>5, <2>1, ItemsAreRows DEF ScreenTypes, OpenFolder, Search
<1>6. CASE DeleteVideo
  <2>1. screen' = "list" /\ items' \subseteq items
    BY <1>6 DEF DeleteVideo, OnList
  <2> QED
    BY <1>1, <1>6, <2>1 DEF ScreenTypes, DeleteVideo
<1>7. CASE RenameVideo
  <2>1. PICK i \in items, n \in Names :
          items' = (items \ {i}) \cup {[i EXCEPT !.name = n, !.dir = i.parent]}
    BY <1>7 DEF RenameVideo
  <2>2. [i EXCEPT !.name = n, !.dir = i.parent] \in VideoItem
    BY <1>1 DEF ScreenTypes, VideoItem
  <2>3. screen' = "list"
    BY <1>7 DEF RenameVideo, OnList
  <2> QED
    BY <1>1, <1>7, <2>1, <2>2, <2>3 DEF ScreenTypes, RenameVideo
<1>8. CASE PlayVideo
  <2>1. PICK i \in items : current' = i.id
    BY <1>8 DEF PlayVideo
  <2>2. current' \in Ids /\ items' = items
    BY <1>1, <1>8, <2>1 DEF ScreenTypes, VideoItem, PlayVideo
  <2> QED
    BY <1>1, <1>8, <2>1, <2>2 DEF ScreenTypes, PlayVideo
<1>9. CASE PlayLastVideo
  <2>1. PICK v \in videos : v.id = lastPlay /\ items' = Items(Listing("last", v.parent), videos)
    BY <1>9 DEF PlayLastVideo, Show
  <2>2. \E i \in items' : i.id = v.id
    BY <2>1, ItemsAreRows DEF Listing
  <2> QED
    BY <1>1, <1>9, <2>1, <2>2, ItemsAreRows DEF ScreenTypes, PlayLastVideo
<1>10. CASE PlayOtherVideo
  <2>1. PICK j \in items : current' = j.id
    BY <1>10 DEF PlayOtherVideo
  <2>2. current' \in Ids /\ items' = items
    BY <1>1, <1>10, <2>1 DEF ScreenTypes, VideoItem, PlayOtherVideo
  <2> QED
    BY <1>1, <1>10, <2>1, <2>2 DEF ScreenTypes, PlayOtherVideo
<1>11. CASE LeaveVideo \/ LeaveLastVideo
  <2>1. \A i \in items : i.id \in Ids
    BY <1>1 DEF ScreenTypes, VideoItem
  <2>2. current \in Ids
    BY <1>1, <1>11, <2>1 DEF ScreenTypes, LeaveVideo, LeaveLastVideo, Leave
  <2>3. ending' \in Seq(Ids) /\ current' = NoId
    BY <1>1, <1>11, <2>2 DEF ScreenTypes, LeaveVideo, LeaveLastVideo, Leave
  <2>4. items' \subseteq VideoItem /\ screen' \notin {"video", "paused"}
    BY <1>11, ItemsAreRows DEF LeaveVideo, LeaveLastVideo
  <2>5. listed' = listed /\ lastPlay' = lastPlay
    BY <1>11 DEF LeaveVideo, LeaveLastVideo
  <2> QED
    BY <1>1, <2>3, <2>4, <2>5 DEF ScreenTypes
<1>12. CASE PauseVideo \/ ResumeVideo
  <2>1. screen \in {"video", "paused"} /\ UNCHANGED <<listed, items, current, ending, lastPlay>>
    BY <1>12 DEF PauseVideo, ResumeVideo
  <2> QED
    BY <1>1, <2>1 DEF ScreenTypes
<1>13. CASE DestroyVideo
  <2>1. lastPlay' \in Ids /\ ending' \in Seq(Ids)
    BY <1>1, <1>13 DEF ScreenTypes, DestroyVideo
  <2>2. UNCHANGED <<listed, items, current, screen>>
    BY <1>13 DEF DestroyVideo
  <2> QED
    BY <1>1, <2>1, <2>2 DEF ScreenTypes
<1>14. CASE LoadFolders
  <2>1. listed' = {[id |-> f.id, path |-> f.path] : f \in folders}
    BY <1>14 DEF LoadFolders
  <2>2. listed' \subseteq FolderItem
    BY <2>1 DEF TypeInv, FolderRow, FolderItem
  <2> QED
    BY <1>1, <1>14, <2>2 DEF ScreenTypes, LoadFolders
<1>15. CASE SaveDies \/ Killed
  <2>1. Restart
    BY <1>15 DEF SaveDies, Killed
  <2>2. /\ screen' = "folders" /\ listed' = {} /\ items' = {} /\ current' = NoId
        /\ ending' = <<>> /\ lastPlay' = lastPlay
    BY <2>1 DEF Restart
  <2>3. <<>> \in Seq(Ids)
    OBVIOUS
  <2> QED
    BY <1>1, <2>2, <2>3 DEF ScreenTypes
<1>16. CASE Refresh \/ FolderNotExist \/ DeleteFolder \/ RenameFolder \/ SaveFolders
  BY <1>2, <1>16 DEF Refresh, FolderNotExist, DeleteFolder, RenameFolder, SaveFolders
<1>17. CASE SaveFolder \/ InsertAll \/ Saved \/ EraseFiles \/ CardChanges
  BY <1>2, <1>17 DEF SaveFolder, InsertAll, Saved, EraseFiles, CardChanges
<1> QED
  BY <1>2, <1>3, <1>4, <1>5, <1>6, <1>7, <1>8, <1>9, <1>10, <1>11, <1>14, <1>15, <1>16, <1>17,
  <1>12, <1>13 DEF Next, FolderScreen, VideoScreens, RunTask, vars

\* The types of the queue.
LEMMA QueueTypesStep ==
  ASSUME TypeInv, QueueTypes, [Next]_vars
  PROVE  QueueTypes'
<1>1. CASE UNCHANGED jobs
  BY <1>1 DEF QueueTypes, jobs
<1>2. List \in TaskSet
  BY DEF List, TaskSet
<1>3. ASSUME NEW t \in TaskSet, Execute(t)
      PROVE  QueueTypes'
  BY <1>3, AppendedTask DEF QueueTypes, Execute
<1>4. CASE Refresh \/ ReturnToFolders \/ FolderNotExist \/ RenameFolder \/ LeaveLastVideo
  BY <1>2, <1>3, <1>4
  DEF Refresh, ReturnToFolders, FolderNotExist, RenameFolder, LeaveLastVideo, RefreshList
<1>5. CASE DeleteFolder
  <2>1. PICK i \in listed :
          Execute(List) \/ (tasks' = tasks \o <<Erase(i.path), List>> /\ UNCHANGED values)
    BY <1>5 DEF DeleteFolder
  <2>2. Erase(i.path) \in TaskSet
    BY DEF Erase, TaskSet, TypeInv, FolderItem
  <2>3. PICK a \in TaskSet, b \in TaskSet : a = Erase(i.path) /\ b = List
    BY <1>2, <2>2
  <2>4. tasks \o <<a, b>> \in Seq(TaskSet)
    <3>1. tasks \in Seq(TaskSet)
      BY DEF QueueTypes
    <3> QED
      BY <3>1
  <2>5. CASE tasks' = tasks \o <<Erase(i.path), List>> /\ UNCHANGED values
    BY <2>3, <2>4, <2>5 DEF QueueTypes
  <2> QED
    BY <1>2, <1>3, <2>1, <2>5
<1>6. CASE SaveFolders
  <2>1. PICK ps \in SUBSET exists : Execute(Save(ps))
    BY <1>6 DEF SaveFolders, Checkable
  <2>2. Save(ps) \in TaskSet
    BY DEF Save, TaskSet, TypeInv, TypeOK
  <2> QED
    BY <1>3, <2>1, <2>2
<1>7. CASE RunTask
  <2>1. ~Settled
    BY <1>7 DEF RunTask, Settled
  <2>2. CASE LoadFolders \/ Saved \/ EraseFiles
    <3>1. tasks' = Tail(tasks) /\ values' = values
      BY <2>2 DEF LoadFolders, Saved, EraseFiles, Done
    <3>2. Tail(tasks) \in Seq(TaskSet)
      BY <2>1, FirstTask DEF QueueTypes, Settled
    <3> QED
      BY <3>1, <3>2 DEF QueueTypes
  <2>3. CASE SaveFolder
    <3>1. PICK p \in Task.paths \cap exists :
            /\ tasks' = <<Save(Task.paths \ {p})>> \o Tail(tasks)
            /\ values' = values \/ values' = values \cup ({p} \X disk[p])
      BY <2>3 DEF SaveFolder
    <3>2. Save(Task.paths \ {p}) \in TaskSet /\ p \in Paths /\ disk[p] \subseteq Names
      BY <2>1, HeadTask DEF TypeInv, TypeOK, Save, TaskSet
    <3>3. tasks' \in Seq(TaskSet)
      BY <2>1, <3>1, <3>2, FirstTaskReplaced DEF QueueTypes, Settled
    <3> QED
      BY <3>1, <3>2, <3>3 DEF QueueTypes
  <2>4. CASE InsertAll
    BY <2>4 DEF InsertAll, QueueTypes
  <2>5. CASE SaveDies
    BY <1>2, <2>5 DEF SaveDies, Restart, QueueTypes
  <2> QED
    BY <1>7, <2>2, <2>3, <2>4, <2>5 DEF RunTask
<1>8. CASE ToFiles \/ OpenFolder \/ Search \/ DeleteVideo \/ RenameVideo \/ PlayVideo
  BY <1>1, <1>8 DEF ToFiles, OpenFolder, Search, DeleteVideo, RenameVideo, PlayVideo
<1>9. CASE PlayLastVideo \/ PlayOtherVideo \/ PauseVideo \/ ResumeVideo \/ LeaveVideo
            \/ DestroyVideo \/ CardChanges
  BY <1>1, <1>9
  DEF PlayLastVideo, PlayOtherVideo, PauseVideo, ResumeVideo, LeaveVideo, DestroyVideo, CardChanges
<1>10. CASE Killed
  BY <1>2, <1>10 DEF Killed, Restart, QueueTypes
<1> QED
  BY <1>1, <1>4, <1>5, <1>6, <1>7, <1>8, <1>9, <1>10 DEF Next, FolderScreen, VideoScreens, vars

Basics == TypeInv /\ IdsInv /\ QueueTypes

\* Types and unique ids, in every use of the library.
LEMMA BasicsHold == Spec => []Basics
<1>1. Init => TypeInv
  <2> SUFFICES ASSUME Init PROVE TypeInv
    OBVIOUS
  <2>1. CardTypes
    BY LibraryAssumption DEF Init, CardTypes
  <2>2. RowTypes
    BY DEF Init, RowTypes
  <2>3. ScreenTypes
    <3>1. /\ screen = "folders" /\ listed = {} /\ items = {} /\ current = NoId
          /\ ending = <<>> /\ lastPlay = NoId
      BY DEF Init
    <3>2. <<>> \in Seq(Ids)
      OBVIOUS
    <3> QED
      BY <3>1, <3>2 DEF ScreenTypes
  <2> QED
    BY <2>1, <2>2, <2>3, TypesInParts
<1>2. Init => IdsInv /\ QueueTypes
  BY DEF Init, IdsInv, QueueTypes
<1>3. TypeInv /\ IdsInv /\ QueueTypes /\ [Next]_vars =>
        CardTypes' /\ RowTypes' /\ IdsInv' /\ ScreenTypes' /\ QueueTypes'
  BY CardStep, RowsStep, ScreenStep, QueueTypesStep
<1>4. CardTypes' /\ RowTypes' /\ ScreenTypes' => TypeInv'
  BY TypesInParts, PTL
<1> QED
  BY <1>1, <1>2, <1>3, <1>4, PTL DEF Spec, Basics

(* The card, the tables and the screens keep their types, however the       *)
(* library is used: a video that plays is one of the items of its screen,   *)
(* and a directory that is not there has no files.                          *)
THEOREM TypeCorrect == Spec => []TypeOK
<1>1. TypeInv => TypeOK
  BY DEF TypeInv
<1> QED
  BY <1>1, BasicsHold, PTL DEF Basics
-----------------------------------------------------------------------------
(* The order of the queue, for users who wait for the list of folders.      *)

AllWait == \A u \in Uses : "quick" \notin u

\* The order of the queue, for users who wait.
LEMMA QueueInOrder ==
  ASSUME AllWait
  PROVE  Spec => []TasksInv
<1>1. Init => TasksInv
  BY DEF Init, TasksInv, QueueTypes, AllWait, Patient, Does, Settled
<1>2. TypeInv /\ TasksInv /\ [Next]_vars => TasksInv'
  BY TasksStep
<1> QED
  BY <1>1, <1>2, BasicsHold, PTL DEF Spec, Basics

-----------------------------------------------------------------------------
(* The video that was left last.                                            *)

\* Where only the library writes to the card, the directories to be saved are
\* there: none is renamed or erased before them.
SavesInv ==
  ~Does("outside") =>
    \A k \in DOMAIN tasks : tasks[k].kind = "save" => tasks[k].paths \subseteq exists

\* Marked from the moment a player is paused, the id is the last of those to be
\* saved once it is left, and the saved one at the end.
LastLeft == IF ending = <<>> THEN lastPlay ELSE ending[Len(ending)]

MarksInv ==
  ~Does("killed") /\ ~Does("outside") =>
    /\ screen = "paused" => \A v \in videos : v.recent = 1 <=> v.id = current
    /\ screen \notin {"video", "paused"} => \A v \in videos : v.recent = 1 <=> v.id = LastLeft

\* The directories to be saved, action by action.
LEMMA SavesStep ==
  ASSUME Basics, TasksInv, SavesInv, [Next]_vars
  PROVE  SavesInv'
<1> USE DEF Basics
<1>1. use' = use
  BY DEF Next, vars
<1> SUFFICES ASSUME ~Does("outside")
             PROVE  \A k \in DOMAIN tasks' :
                      tasks'[k].kind = "save" => tasks'[k].paths \subseteq exists'
  BY <1>1 DEF SavesInv, Does
<1>2. \A k \in DOMAIN tasks : tasks[k].kind = "save" => tasks[k].paths \subseteq exists
  BY DEF SavesInv
<1>3. CASE UNCHANGED <<tasks, exists>>
  BY <1>2, <1>3
<1>4. ASSUME NEW t \in TaskSet, Execute(t), exists' = exists,
             t.kind = "save" => t.paths \subseteq exists
      PROVE  \A k \in DOMAIN tasks' :
               tasks'[k].kind = "save" => tasks'[k].paths \subseteq exists'
  BY <1>2, <1>4, ExecuteAdds
<1>5. CASE Refresh \/ ReturnToFolders \/ LeaveLastVideo \/ FolderNotExist
  <2>1. Execute(List) /\ exists' = exists
    BY <1>5 DEF Refresh, ReturnToFolders, LeaveLastVideo, FolderNotExist, RefreshList, card
  <2> QED
    BY <1>4, <2>1, ListIsTask
<1>6. CASE RenameFolder
  <2>1. Settled /\ Execute(List)
    BY <1>6, FolderScreenWaits DEF RenameFolder
  <2>2. \A k \in DOMAIN tasks' : tasks'[k] = List
    BY <2>1, ExecuteAdds, ListIsTask DEF Settled
  <2> QED
    BY <2>2 DEF List
<1>7. CASE DeleteFolder
  <2>1. exists' = exists /\ Settled /\ screen = "folders" /\ screen' = screen
    BY <1>7, FolderScreenWaits DEF DeleteFolder, card, ui
  <2>2. PICK i \in listed :
          Execute(List) \/ (tasks' = tasks \o <<Erase(i.path), List>> /\ UNCHANGED values)
    BY <1>7 DEF DeleteFolder
  <2>3. CASE tasks' = tasks \o <<Erase(i.path), List>> /\ UNCHANGED values
    <3>1. i.path \in Paths
      BY DEF TypeInv, FolderItem
    <3>2. DOMAIN tasks' = 1..2 /\ tasks'[1] = Erase(i.path) /\ tasks'[2] = List
      BY <1>1, <2>1, <2>3, <3>1, EraseQueued
    <3>3. \A k \in DOMAIN tasks' : k = 1 \/ k = 2
      BY <3>2
    <3> QED
      BY <3>2, <3>3 DEF List, Erase
  <2> QED
    BY <1>4, <2>1, <2>2, <2>3, ListIsTask
<1>8. CASE SaveFolders
  <2>1. PICK ps \in SUBSET exists : Execute(Save(ps))
    BY <1>8 DEF SaveFolders, Checkable
  <2>2. Save(ps) \in TaskSet /\ Save(ps).paths = ps /\ exists' = exists
    BY <1>8 DEF Save, TaskSet, TypeInv, TypeOK, SaveFolders, card
  <2> QED
    BY <1>4, <2>1, <2>2
<1>9. CASE RunTask
  <2>1. ~Settled
    BY <1>9 DEF RunTask, Settled
  <2>2. 1 \in DOMAIN tasks /\ Task = tasks[1]
    BY <2>1, HeadTask
  <2>3. CASE LoadFolders \/ Saved
    <3>1. Done /\ exists' = exists
      BY <2>3 DEF LoadFolders, Saved, card
    <3> QED
      BY <1>2, <2>1, <3>1, DoneLeaves
  <2>4. CASE SaveFolder
    <3>1. PICK p \in Task.paths : tasks' = <<Save(Task.paths \ {p})>> \o Tail(tasks)
      BY <2>4 DEF SaveFolder
    <3>2. Task.kind = "save" /\ exists' = exists /\ Task.paths \ {p} \in SUBSET Paths
      BY <2>1, <2>4, HeadTask DEF SaveFolder, card
    <3>3. /\ DOMAIN tasks' = DOMAIN tasks /\ tasks'[1] = Save(Task.paths \ {p})
          /\ \A i \in DOMAIN tasks : i # 1 => tasks'[i] = tasks[i]
      BY <2>1, <3>1, <3>2, SaveKeepsReload
    <3>4. tasks'[1].paths \subseteq exists
      BY <1>2, <2>2, <3>2, <3>3 DEF Save
    <3> QED
      BY <1>2, <3>2, <3>3, <3>4
  <2>5. CASE InsertAll
    BY <1>3, <2>5 DEF InsertAll, card
  <2>6. CASE EraseFiles
    <3>1. Done /\ tasks[1].kind = "erase"
      BY <2>2, <2>6 DEF EraseFiles
    <3>2. DOMAIN tasks = 1..2 /\ tasks[2].kind = "list"
      <4>1. Len(tasks) = 2 /\ screen = "folders"
        BY <2>2, <3>1 DEF TasksInv
      <4> QED
        BY <2>1, <4>1 DEF TasksInv, QueueTypes
    <3>3. \A k \in DOMAIN tasks' : k + 1 \in 1..2 /\ k + 1 # 1 /\ tasks'[k] = tasks[k + 1]
      BY <2>1, <3>1, <3>2, DoneLeaves
    <3>4. \A k \in DOMAIN tasks' : tasks'[k] = tasks[2]
      BY <3>3
    <3> QED
      BY <3>2, <3>4
  <2>7. CASE SaveDies
    BY <1>2, <2>2, <2>7 DEF SaveDies
  <2> QED
    BY <1>9, <2>3, <2>4, <2>5, <2>6, <2>7 DEF RunTask
<1>10. CASE Killed
  <2>1. tasks' = <<List>>
    BY <1>10 DEF Killed, Restart
  <2>2. \A k \in DOMAIN tasks' : tasks'[k] = List
    BY <2>1
  <2> QED
    BY <2>2, ListIsTask
<1>11. CASE ToFiles \/ OpenFolder \/ Search \/ DeleteVideo \/ RenameVideo \/ PlayVideo
  BY <1>3, <1>11 DEF ToFiles, OpenFolder, Search, DeleteVideo, RenameVideo, PlayVideo, card, jobs
<1>12. CASE \/ PlayLastVideo \/ PlayOtherVideo \/ PauseVideo \/ ResumeVideo \/ LeaveVideo
            \/ DestroyVideo
  BY <1>3, <1>12 DEF PlayLastVideo, PlayOtherVideo, PauseVideo, ResumeVideo, LeaveVideo,
                     DestroyVideo, card, jobs
<1>13. CASE UNCHANGED vars
  BY <1>3, <1>13 DEF vars, card, jobs
<1> QED
  BY <1>5, <1>6, <1>7, <1>8, <1>9, <1>10, <1>11, <1>12, <1>13
  DEF Next, FolderScreen, VideoScreens, CardChanges

\* A refresh gives no new row an id that is still referred to.
LEMMA RefreshMarks ==
  ASSUME Basics, RefreshList, NEW id \in UsedVideoIds,
         \A v \in videos : v.recent = 1 <=> v.id = id
  PROVE  \A v \in videos' : v.recent = 1 <=> v.id = id
<1>1. /\ videos' = Stays \cup Numbered(New)
      /\ \A v \in Numbered(New) : v.id \in Unused /\ v.recent = 0
  BY RefreshEffect, RowsAreNew DEF Basics
<1>2. Stays \subseteq videos
  BY DEF Stays
<1> QED
  BY <1>1, <1>2 DEF Unused

\* The last player's id is referred to.
LEMMA LastLeftUsed ==
  ASSUME TypeInv
  PROVE  LastLeft \in UsedVideoIds
<1>1. CASE ending = <<>>
  BY <1>1 DEF LastLeft, UsedVideoIds
<1>2. CASE ending # <<>>
  <2>1. ending \in Seq(Ids)
    BY DEF TypeInv, TypeOK
  <2>2. Len(ending) \in DOMAIN ending
    BY <1>2, <2>1
  <2> QED
    BY <1>2, <2>2 DEF LastLeft, UsedVideoIds, ToSet
<1> QED
  BY <1>1, <1>2

\* A player that is destroyed is the first of those that were left.
LEMMA DestroyedInOrder ==
  ASSUME TypeInv, DestroyVideo
  PROVE  LastLeft' = LastLeft
<1>1. ending \in Seq(Ids) /\ ending # <<>>
  BY DEF TypeInv, TypeOK, DestroyVideo
<1>2. PICK n \in Nat : /\ Len(ending) = n + 1 /\ Head(ending) = ending[1]
                       /\ Len(Tail(ending)) = n
                       /\ \A k \in 1..n : Tail(ending)[k] = ending[k + 1]
                       /\ Tail(ending) = <<>> <=> n = 0
  BY <1>1, FirstTask
<1>3. lastPlay' = Head(ending) /\ ending' = Tail(ending)
  BY DEF DestroyVideo
<1>4. CASE n = 0
  BY <1>1, <1>2, <1>3, <1>4 DEF LastLeft
<1>5. CASE n # 0
  <2>1. n \in 1..n
    BY <1>5
  <2> QED
    BY <1>1, <1>2, <1>3, <1>5, <2>1 DEF LastLeft
<1> QED
  BY <1>4, <1>5

\* The player that is left is the last one.
LEMMA LeftLast ==
  ASSUME TypeInv, Leave
  PROVE  LastLeft' = current
<1>1. ending \in Seq(Ids) /\ current \in Ids
  <2>1. \E i \in items : i.id = current
    BY DEF TypeInv, TypeOK, Leave
  <2> QED
    BY <2>1 DEF TypeInv, TypeOK, VideoItem
<1>2. PICK n \in Nat : /\ Append(ending, current) # <<>>
                       /\ Len(Append(ending, current)) = n + 1
                       /\ Append(ending, current)[n + 1] = current
  BY <1>1, AppendedTask
<1>3. ending' = Append(ending, current)
  BY DEF Leave
<1> QED
  BY <1>2, <1>3 DEF LastLeft

\* The marks and the ids that are saved, action by action.
LEMMA MarksStep ==
  ASSUME Basics, TasksInv, SavesInv, MarksInv, [Next]_vars
  PROVE  MarksInv'
<1> USE DEF Basics
<1>1. use' = use
  BY DEF Next, vars
<1> SUFFICES ASSUME ~Does("killed"), ~Does("outside")
             PROVE  MarksInv'
  BY <1>1 DEF MarksInv, Does
<1>2. CASE UNCHANGED <<videos, ui>>
  BY <1>2 DEF MarksInv, LastLeft, ui
<1>3. CASE screen' = "video"
  BY <1>3 DEF MarksInv
<1>4. ASSUME screen \notin {"video", "paused"}, screen' \notin {"video", "paused"},
             UNCHANGED <<ending, lastPlay>>,
             \A w \in videos' : \E v \in videos : v.id = w.id /\ v.recent = w.recent
      PROVE  MarksInv'
  BY <1>4 DEF MarksInv, LastLeft
<1>5. CASE Refresh \/ ReturnToFolders
  <2>1. /\ RefreshList /\ UNCHANGED <<ending, lastPlay>>
        /\ screen \notin {"video", "paused"} /\ screen' \notin {"video", "paused"}
    BY <1>5 DEF Refresh, ReturnToFolders, OnFolders, ui
  <2>2. \A v \in videos' : v.recent = 1 <=> v.id = LastLeft
    BY <2>1, RefreshMarks, LastLeftUsed DEF MarksInv
  <2> QED
    BY <2>1, <2>2 DEF MarksInv, LastLeft
<1>6. CASE FolderNotExist \/ DeleteFolder
  <2>1. OnFolders /\ UNCHANGED ui /\ \E i \in listed : DeleteFolders({i})
    BY <1>6 DEF FolderNotExist, DeleteFolder
  <2>2. videos' \subseteq videos
    BY <2>1, DeleteEffect
  <2> QED
    BY <1>4, <2>1, <2>2 DEF OnFolders, ui
<1>7. CASE RenameFolder
  <2>1. OnFolders /\ UNCHANGED ui
    BY <1>7 DEF RenameFolder
  <2>2. \A w \in videos' : \E v \in videos : v.id = w.id /\ v.recent = w.recent
    <3>1. PICK i \in listed, new \in Paths :
            folders' = Renaming(i, new) /\ videos' = Moved(i.path, new)
      BY <1>7, RenameFolderParts DEF DirectoryMoved
    <3> QED
      BY <3>1, RenameFolderEffect
  <2> QED
    BY <1>4, <2>1, <2>2 DEF OnFolders, ui
<1>8. CASE DeleteVideo
  <2>1. OnList /\ screen' = screen /\ UNCHANGED <<ending, lastPlay>> /\ videos' \subseteq videos
    BY <1>8 DEF DeleteVideo
  <2> QED
    BY <1>4, <2>1 DEF OnList
<1>9. CASE RenameVideo
  <2>1. OnList /\ screen' = screen /\ UNCHANGED <<ending, lastPlay, folders>>
    BY <1>9 DEF RenameVideo
  <2>2. PICK i \in items, n \in Names : videos' = Renamed(i, n)
    BY <1>9 DEF RenameVideo, Renamed
  <2>3. \A w \in videos' : \E v \in videos : v.id = w.id /\ v.recent = w.recent
    BY <2>1, <2>2, RenameVideoEffect
  <2> QED
    BY <1>4, <2>1, <2>3 DEF OnList
<1>10. CASE PauseVideo
  <2>1. PICK i \in items : i.id = current /\ updatePlayedTime(i)
    BY <1>10 DEF PauseVideo
  <2>2. screen' = "paused" /\ current' = current
    BY <1>10 DEF PauseVideo
  <2>3. \A w \in videos' : \E v \in videos : v.id = w.id /\ (w.recent = 1 <=> v.id = i.id)
    BY <2>1, PlayEffect
  <2> QED
    BY <2>1, <2>2, <2>3 DEF MarksInv
<1>11. CASE LeaveVideo \/ LeaveLastVideo
  <2>1. Leave /\ screen' \notin {"video", "paused"} /\ screen = "paused"
    BY <1>11 DEF LeaveVideo, LeaveLastVideo, Leave
  <2>2. \A v \in videos : v.recent = 1 <=> v.id = current
    BY <2>1 DEF MarksInv
  <2>3. \A v \in videos' : v.recent = 1 <=> v.id = current
    <3>1. CASE LeaveVideo
      BY <2>2, <3>1 DEF LeaveVideo, tables
    <3>2. CASE LeaveLastVideo
      <4>1. current \in UsedVideoIds
        BY DEF UsedVideoIds
      <4> QED
        BY <2>2, <3>2, <4>1, RefreshMarks DEF LeaveLastVideo
    <3> QED
      BY <1>11, <3>1, <3>2
  <2> QED
    BY <2>1, <2>3, LeftLast DEF MarksInv
<1>12. CASE DestroyVideo
  <2>1. UNCHANGED <<videos, screen, current>>
    BY <1>12 DEF DestroyVideo, tables
  <2> QED
    BY <1>12, <2>1, DestroyedInOrder DEF MarksInv
<1>13. CASE RunTask /\ InsertAll
  <2>1. /\ videos' = videos \cup Numbered(values) /\ Room(values) /\ UNCHANGED ui
    BY <1>13 DEF InsertAll
  <2>2. \A v \in Numbered(values) : v.id \in Unused /\ v.recent = 0
    BY <2>1, RowsAreNew DEF QueueTypes
  <2>3. \A v \in Numbered(values) : v.recent # 1 /\ v.id # LastLeft
    BY <2>2, LastLeftUsed DEF Unused
  <2>4. screen \notin {"video", "paused"}
    BY <1>13 DEF RunTask, TasksInv, Settled
  <2> QED
    BY <2>1, <2>3, <2>4 DEF MarksInv, LastLeft, ui
<1>14. CASE RunTask /\ SaveDies
  <2>1. Task = tasks[1] /\ 1 \in DOMAIN tasks
    BY <1>14, HeadTask DEF RunTask, Settled
  <2> QED
    BY <1>14, <2>1 DEF SaveDies, SavesInv
<1>15. CASE RunTask /\ (LoadFolders \/ SaveFolder \/ Saved \/ EraseFiles)
  <2>1. screen \notin {"video", "paused"}
    BY <1>15 DEF RunTask, TasksInv, Settled
  <2>2. UNCHANGED <<videos, screen, ending, lastPlay>>
    BY <1>15 DEF LoadFolders, SaveFolder, Saved, EraseFiles, tables, ui
  <2> QED
    BY <1>4, <2>1, <2>2
<1>16. CASE PlayVideo \/ PlayLastVideo \/ PlayOtherVideo \/ ResumeVideo
  BY <1>3, <1>16 DEF PlayVideo, PlayLastVideo, PlayOtherVideo, ResumeVideo
<1>17. CASE ToFiles \/ OpenFolder \/ Search
  <2>1. /\ screen \notin {"video", "paused"} /\ screen' \notin {"video", "paused"}
        /\ UNCHANGED <<videos, ending, lastPlay>>
    BY <1>17 DEF ToFiles, OpenFolder, Search, OnFolders, tables
  <2> QED
    BY <1>4, <2>1
<1>18. CASE SaveFolders \/ UNCHANGED vars
  BY <1>2, <1>18 DEF SaveFolders, tables, vars
<1> QED
  BY <1>5, <1>6, <1>7, <1>8, <1>9, <1>10, <1>11, <1>12, <1>13, <1>14, <1>15, <1>16, <1>17, <1>18
  DEF Next, FolderScreen, VideoScreens, RunTask, CardChanges, Killed

(* Once every player that was left is destroyed, the video marked in the    *)
(* table is the one the preferences name, whatever came between the marking *)
(* (onPause) and the saving (onDestroy): other videos played, folders       *)
(* renamed or deleted, rows inserted, that never take an id still to be     *)
(* saved.                                                                   *)
THEOREM LastIsMarked ==
  ASSUME AllWait
  PROVE  Spec => []RecentIsLast
<1>1. Init => SavesInv /\ MarksInv
  BY DEF Init, SavesInv, MarksInv
<1>2. Basics /\ TasksInv /\ SavesInv /\ MarksInv /\ [Next]_vars => SavesInv' /\ MarksInv'
  BY SavesStep, MarksStep
<1>3. MarksInv => RecentIsLast
  BY DEF MarksInv, RecentIsLast, LastLeft
<1> QED
  BY <1>1, <1>2, <1>3, BasicsHold, QueueInOrder, PTL DEF Spec

-----------------------------------------------------------------------------
(* The items of the folder screen are rows of the table.                    *)

\* Outside the folder screen, and where nothing waits, no reload is to come.
LEMMA NoReload ==
  ASSUME TasksInv, Settled \/ screen # "folders"
  PROVE  ~Reloads
<1>1. CASE Settled
  BY <1>1 DEF Settled, Reloads
<1>2. CASE screen # "folders"
  BY <1>2 DEF TasksInv, Reloads
<1> QED
  BY <1>1, <1>2

\* Every handler of the folder screen that writes to the tables queues a reload.
LEMMA ReloadsOnFolders ==
  ASSUME TasksInv, UNCHANGED use,
         \/ Refresh \/ ReturnToFolders \/ LeaveLastVideo
         \/ FolderNotExist \/ DeleteFolder \/ RenameFolder
  PROVE  Reloads' /\ ~Settled' /\ ~Reloads /\ screen' = "folders"
<1>1. CASE Refresh \/ FolderNotExist \/ RenameFolder
  <2>1. OnFolders /\ Execute(List) /\ screen' = screen
    BY <1>1 DEF Refresh, RefreshList, FolderNotExist, RenameFolder, ui
  <2> QED
    BY <2>1, FolderScreenWaits, ListQueued, NoReload DEF Settled
<1>2. CASE ReturnToFolders \/ LeaveLastVideo
  <2>1. Execute(List) /\ screen' = "folders" /\ screen \in {"files", "list", "paused"}
    BY <1>2 DEF ReturnToFolders, LeaveLastVideo, Leave, RefreshList
  <2>2. Settled \/ screen = "files"
    BY <2>1 DEF TasksInv
  <2> QED
    BY <2>1, <2>2, ListQueued, NoReload DEF Settled
<1>3. CASE DeleteFolder
  <2>1. OnFolders /\ screen' = screen
    BY <1>3 DEF DeleteFolder, ui
  <2>2. PICK i \in listed :
          Execute(List) \/ (tasks' = tasks \o <<Erase(i.path), List>> /\ UNCHANGED values)
    BY <1>3 DEF DeleteFolder
  <2>3. Settled /\ screen = "folders" /\ ~Reloads
    BY <2>1, FolderScreenWaits, NoReload
  <2>4. CASE Execute(List)
    BY <2>1, <2>3, <2>4, ListQueued DEF Settled
  <2>5. CASE tasks' = tasks \o <<Erase(i.path), List>> /\ UNCHANGED values
    <3>1. tasks' = <<Erase(i.path), List>>
      BY <2>3, <2>5 DEF Settled
    <3>2. DOMAIN tasks' = 1..2 /\ tasks'[2] = List /\ tasks' # <<>>
      BY <3>1
    <3> QED
      BY <2>1, <2>3, <3>2 DEF Reloads, Settled, List
  <2> QED
    BY <2>2, <2>4, <2>5
<1> QED
  BY <1>1, <1>2, <1>3

\* The folder screen and the table, action by action.
LEMMA ListedStep ==
  ASSUME Basics, TasksInv, ListedInv, [Next]_vars
  PROVE  ListedInv'
<1>1. UNCHANGED use
  BY DEF Next, vars
<1>2. CASE UNCHANGED <<folders, listed, tasks>> /\ (screen' # "files" => screen # "files")
  BY <1>2 DEF ListedInv, Reloads, Settled
<1>3. CASE \/ Refresh \/ ReturnToFolders \/ LeaveLastVideo
           \/ FolderNotExist \/ DeleteFolder \/ RenameFolder
  <2>1. Reloads' /\ ~Settled'
    BY <1>1, <1>3, ReloadsOnFolders
  <2> QED
    BY <2>1 DEF ListedInv
<1>4. CASE PlayOtherVideo \/ PauseVideo
  <2>1. PICK i \in items : updatePlayedTime(i)
    BY <1>4 DEF PlayOtherVideo, PauseVideo
  <2>2. listed' = listed /\ tasks' = tasks /\ screen # "files"
    BY <1>4 DEF PlayOtherVideo, PauseVideo, jobs
  <2>3. /\ \A g \in folders' : \E f \in folders : f.id = g.id /\ f.path = g.path
        /\ \A f \in folders : \E g \in folders' : f.id = g.id /\ f.path = g.path
    BY <2>1, PlayEffect DEF Basics
  <2>4. (Reloads' <=> Reloads) /\ (Settled' <=> Settled)
    BY <2>2 DEF Reloads, Settled
  <2> QED
    BY <2>2, <2>3, <2>4 DEF ListedInv
<1>5. CASE SaveFolders
  <2>1. screen = "files" /\ screen' = "files" /\ UNCHANGED <<folders, listed>>
    BY <1>5 DEF SaveFolders, tables, ui
  <2>2. ~Reloads
    BY <2>1, NoReload
  <2> QED
    BY <2>1, <2>2 DEF ListedInv
<1>6. ASSUME Restart
       PROVE  ListedInv'
  <2>1. tasks' = <<List>> /\ listed' = {}
    BY <1>6 DEF Restart
  <2>2. ~Settled'
    BY <2>1 DEF Settled
  <2> QED
    BY <2>1, <2>2 DEF ListedInv
<1>7. CASE RunTask
  <2>1. ~Settled
    BY <1>7 DEF RunTask, Settled
  <2>2. CASE LoadFolders
    <3>1. listed' = {[id |-> f.id, path |-> f.path] : f \in folders} /\ folders' = folders
      BY <2>2 DEF LoadFolders, tables
    <3>2. \A i \in listed' : \E f \in folders : f.id = i.id /\ f.path = i.path
      BY <3>1
    <3>3. ASSUME NEW f \in folders PROVE \E i \in listed' : f.id = i.id /\ f.path = i.path
      <4>1. [id |-> f.id, path |-> f.path] \in listed'
        BY <3>1
      <4> QED
        BY <4>1
    <3> QED
      BY <3>1, <3>2, <3>3 DEF ListedInv
  <2>3. CASE SaveFolder
    <3>1. PICK p \in Task.paths : tasks' = <<Save(Task.paths \ {p})>> \o Tail(tasks)
      BY <2>3 DEF SaveFolder
    <3>2. folders \subseteq folders' /\ listed' = listed /\ Task.kind = "save"
      BY <2>3 DEF SaveFolder, ui
    <3>3. (Reloads' <=> Reloads) /\ ~Settled'
      BY <2>1, <3>1, <3>2, HeadTask, SaveKeepsReload DEF Basics
    <3> QED
      BY <3>2, <3>3 DEF ListedInv
  <2>4. CASE InsertAll
    BY <1>2, <2>4 DEF InsertAll, ui
  <2>5. CASE Saved \/ EraseFiles
    <3>1. Done /\ Task.kind # "list" /\ UNCHANGED <<folders, listed, screen>>
      BY <2>5 DEF Saved, EraseFiles, tables, ui
    <3>2. (Reloads' <=> Reloads) /\ (screen = "folders" => ~Settled')
      BY <2>1, <3>1, DoneKeepsReload
    <3>3. screen \in {"folders", "files"}
      BY <2>1 DEF TasksInv
    <3> QED
      BY <3>1, <3>2, <3>3 DEF ListedInv
  <2>6. CASE SaveDies
    BY <1>6, <2>6 DEF SaveDies
  <2> QED
    BY <1>7, <2>2, <2>3, <2>4, <2>5, <2>6 DEF RunTask
<1>8. CASE ToFiles \/ OpenFolder \/ Search \/ PlayLastVideo \/ PlayVideo
  BY <1>2, <1>8 DEF ToFiles, OpenFolder, Search, PlayLastVideo, PlayVideo, OnFolders, OnList,
                    tables, jobs
<1>9. CASE \/ DeleteVideo \/ RenameVideo \/ CardChanges
           \/ ResumeVideo \/ LeaveVideo \/ DestroyVideo
  BY <1>2, <1>9 DEF DeleteVideo, RenameVideo, CardChanges, ResumeVideo, LeaveVideo, Leave,
                    DestroyVideo, tables, ui, jobs
<1>10. CASE UNCHANGED vars
  BY <1>2, <1>10 DEF vars, tables, ui, jobs
<1>11. CASE Killed
  BY <1>6, <1>11 DEF Killed
<1> QED
  BY <1>3, <1>4, <1>5, <1>7, <1>8, <1>9, <1>10, <1>11 DEF Next, FolderScreen, VideoScreens

-----------------------------------------------------------------------------
(* No video without its folder.                                             *)

\* What the deletion of items leaves of the folders, and what a reload adds.
LEMMA RefreshKeepsFolders ==
  ASSUME Basics, RefreshList, \A i \in listed : Known(i),
         NEW p, p \notin {i.path : i \in Gone},
         \E f \in folders : f.path = p
  PROVE  \E g \in folders' : g.path = p
<1>1. PICK f \in folders : f.path = p
  OBVIOUS
<1>2. f.id \notin GoneIds
  <2> SUFFICES ASSUME NEW i \in Gone, f.id = i.id PROVE FALSE
    BY DEF GoneIds
  <2>1. f.path = i.path
    BY DEF Gone, Known, Basics, IdsInv
  <2> QED
    BY <1>1, <2>1
<1> QED
  BY <1>1, <1>2, RefreshEffect DEF Basics

\* Videos and their folders, action by action.
LEMMA OrphansStep ==
  ASSUME Basics, TasksInv, ListedInv, OrphansInv, [Next]_vars
  PROVE  OrphansInv'
<1> USE DEF Basics
<1>1. CASE UNCHANGED <<folders, videos, listed, values>>
  BY <1>1 DEF OrphansInv, NoOrphans, ValuesInv
<1>2. ASSUME Settled, UNCHANGED values PROVE ValuesInv'
  BY <1>2 DEF TasksInv, ValuesInv
<1>3. CASE Refresh \/ ReturnToFolders \/ LeaveLastVideo
  <2>1. RefreshList /\ UNCHANGED <<values, listed>>
    BY <1>3 DEF Refresh, ReturnToFolders, LeaveLastVideo, RefreshList, Execute, ui
  <2>2. \A i \in listed : Known(i)
    BY <1>3, ReloadsOnFolders DEF ListedInv, Next, vars, Known
  <2>3. /\ videos' = Stays \cup Numbered(New) /\ New \in SUBSET (Paths \X Names) /\ Room(New)
        /\ \A f \in folders : f.id \notin GoneIds =>
             \E g \in folders' : f.id = g.id /\ f.path = g.path
    BY <2>1, RefreshEffect
  <2>4. ASSUME NEW v \in Stays PROVE \E g \in folders' : g.path = v.parent
    <3>1. v \in videos /\ v.parent \notin {i.path : i \in Gone}
      BY DEF Stays
    <3>2. \E f \in folders : f.path = v.parent
      BY <3>1 DEF OrphansInv, NoOrphans
    <3> QED
      BY <2>1, <2>2, <3>1, <3>2, RefreshKeepsFolders
  <2>5. ASSUME NEW v \in Numbered(New) PROVE \E g \in folders' : g.path = v.parent
    <3>1. <<v.parent, v.name>> \in New
      BY <2>3, RowsAreNew
    <3>2. PICK i \in listed \ Gone : i.path = v.parent
      BY <3>1 DEF New, Here
    <3>3. v.parent \notin {j.path : j \in Gone}
      BY <3>2 DEF Gone
    <3>4. \E f \in folders : f.path = v.parent
      BY <2>2, <3>2 DEF Known
    <3> QED
      BY <2>1, <2>2, <3>3, <3>4, RefreshKeepsFolders
  <2>6. ASSUME NEW x \in values
        PROVE  \E g \in folders' : g.path = x[1] /\ \A i \in listed' : i.id # g.id
    <3>1. PICK f \in folders : f.path = x[1] /\ \A i \in listed : i.id # f.id
      BY DEF OrphansInv, ValuesInv
    <3>2. f.id \notin GoneIds
      BY <3>1 DEF GoneIds, Gone
    <3> QED
      BY <2>1, <2>3, <3>1, <3>2
  <2> QED
    BY <2>1, <2>3, <2>4, <2>5, <2>6 DEF OrphansInv, NoOrphans, ValuesInv
<1>4. CASE FolderNotExist \/ DeleteFolder
  <2>1. PICK i \in listed : DeleteFolders({i})
    BY <1>4 DEF FolderNotExist, DeleteFolder
  <2>2. OnFolders /\ UNCHANGED values
    BY <1>4 DEF FolderNotExist, DeleteFolder, Execute
  <2>3. Known(i)
    BY <2>2, FolderScreenWaits, NoReload DEF ListedInv, Known
  <2>4. /\ folders' = {f \in folders : f.id # i.id}
        /\ videos' = {v \in videos : v.parent # i.path}
    BY <2>1, DeleteEffect
  <2>5. ASSUME NEW v \in videos' PROVE \E g \in folders' : g.path = v.parent
    <3>1. PICK f \in folders : f.path = v.parent
      BY <2>4 DEF OrphansInv, NoOrphans
    <3>2. f.id # i.id
      BY <2>3, <2>4, <3>1 DEF Known, IdsInv
    <3> QED
      BY <2>4, <3>1, <3>2
  <2> QED
    BY <1>2, <2>2, <2>5, FolderScreenWaits DEF OrphansInv, NoOrphans
<1>5. CASE RenameFolder
  <2>1. PICK i \in listed, new \in Paths :
          /\ folders' = Renaming(i, new)
          /\ videos' = Moved(i.path, new)
    BY <1>5, RenameFolderParts DEF DirectoryMoved
  <2>2. OnFolders /\ UNCHANGED values
    BY <1>5 DEF RenameFolder, Execute
  <2>3. PICK e \in folders : e.id = i.id /\ e.path = i.path
    BY <2>2, FolderScreenWaits, NoReload DEF ListedInv
  <2>4. /\ \A f \in folders : \E g \in folders' :
             f.id = g.id /\ g.path = IF f.id = i.id THEN new ELSE f.path
        /\ \A w \in videos' : \E v \in videos :
             w.parent = IF v.parent = i.path THEN new ELSE v.parent
    BY <2>1, RenameFolderEffect
  <2>5. ASSUME NEW w \in videos' PROVE \E g \in folders' : g.path = w.parent
    <3>1. PICK v \in videos : w.parent = IF v.parent = i.path THEN new ELSE v.parent
      BY <2>4
    <3>2. CASE v.parent = i.path
      BY <2>3, <2>4, <3>1, <3>2
    <3>3. CASE v.parent # i.path
      <4>1. PICK f \in folders : f.path = v.parent
        BY DEF OrphansInv, NoOrphans
      <4>2. f.id # i.id
        BY <2>3, <3>3, <4>1 DEF IdsInv
      <4> QED
        BY <2>4, <3>1, <3>3, <4>1, <4>2
    <3> QED
      BY <3>2, <3>3
  <2> QED
    BY <1>2, <2>2, <2>5, FolderScreenWaits DEF OrphansInv, NoOrphans
<1>6. CASE DeleteVideo
  <2>1. videos' \subseteq videos /\ UNCHANGED <<folders, listed, values>>
    BY <1>6 DEF DeleteVideo, jobs
  <2> QED
    BY <2>1 DEF OrphansInv, NoOrphans, ValuesInv
<1>7. CASE RenameVideo
  <2>1. UNCHANGED <<folders, listed, values>>
    BY <1>7 DEF RenameVideo, jobs
  <2>2. PICK i \in items, n \in Names : videos' = Renamed(i, n)
    BY <1>7 DEF RenameVideo, Renamed
  <2>3. \A w \in videos' : \E v \in videos : v.parent = w.parent
    BY <2>1, <2>2, RenameVideoEffect
  <2> QED
    BY <2>1, <2>3 DEF OrphansInv, NoOrphans, ValuesInv
<1>8. CASE PlayOtherVideo \/ PauseVideo
  <2>1. PICK i \in items : updatePlayedTime(i)
    BY <1>8 DEF PlayOtherVideo, PauseVideo
  <2>2. Settled /\ UNCHANGED values
    BY <1>8 DEF PlayOtherVideo, PauseVideo, jobs, TasksInv
  <2>3. /\ \A f \in folders : \E g \in folders' : f.path = g.path
        /\ \A w \in videos' : \E v \in videos : v.parent = w.parent
    BY <2>1, PlayEffect
  <2> QED
    BY <1>2, <2>2, <2>3 DEF OrphansInv, NoOrphans
<1>9. ASSUME Restart
       PROVE  OrphansInv'
  BY <1>9 DEF Restart, tables, OrphansInv, NoOrphans, ValuesInv
<1>10. CASE RunTask
  <2>1. ~Settled
    BY <1>10 DEF RunTask, Settled
  <2>2. CASE LoadFolders
    <3>1. values = {}
      BY <2>1, <2>2, HeadInOrder DEF LoadFolders
    <3> QED
      BY <2>2, <3>1 DEF LoadFolders, tables, OrphansInv, NoOrphans, ValuesInv
  <2>3. CASE SaveFolder
    <3>1. videos' = videos /\ listed' = listed
      BY <2>3 DEF SaveFolder, ui
    <3>2. PICK p \in Task.paths :
            \/ UNCHANGED <<folders, values>>
            \/ /\ \E f \in FolderRow :
                    /\ folders' = folders \cup {f} /\ f.path = p
                    /\ \A i \in listed : i.id # f.id
               /\ values' = values \cup ({p} \X disk[p])
      BY <2>1, <2>3, SaveEffect
    <3>3. folders \subseteq folders'
      BY <3>2
    <3>4. ASSUME NEW x \in values'
          PROVE  \E g \in folders' : g.path = x[1] /\ \A i \in listed' : i.id # g.id
      <4>1. CASE x \in values
        BY <3>1, <3>3, <4>1 DEF OrphansInv, ValuesInv
      <4>2. CASE x \notin values
        <5>1. PICK f \in FolderRow : /\ folders' = folders \cup {f} /\ f.path = p
                                     /\ \A i \in listed : i.id # f.id
          BY <3>2, <4>2
        <5>2. x \in {p} \X disk[p]
          BY <3>2, <4>2
        <5> QED
          BY <3>1, <5>1, <5>2
      <4> QED
        BY <4>1, <4>2
    <3> QED
      BY <3>1, <3>3, <3>4 DEF OrphansInv, NoOrphans, ValuesInv
  <2>4. CASE InsertAll
    <3>1. /\ videos' = videos \cup Numbered(values) /\ Room(values) /\ values' = {}
          /\ folders' = folders
      BY <2>4 DEF InsertAll
    <3>2. ASSUME NEW v \in Numbered(values) PROVE \E f \in folders : f.path = v.parent
      <4>1. <<v.parent, v.name>> \in values
        BY <3>1, RowsAreNew DEF QueueTypes
      <4> QED
        BY <4>1 DEF OrphansInv, ValuesInv
    <3> QED
      BY <3>1, <3>2 DEF OrphansInv, NoOrphans, ValuesInv
  <2>5. CASE Saved \/ EraseFiles
    BY <1>1, <2>5 DEF Saved, EraseFiles, tables, ui
  <2>6. CASE SaveDies
    BY <1>9, <2>6 DEF SaveDies
  <2> QED
    BY <1>10, <2>2, <2>3, <2>4, <2>5, <2>6 DEF RunTask
<1>11. CASE ToFiles \/ OpenFolder \/ Search \/ SaveFolders \/ PlayLastVideo \/ PlayVideo
  BY <1>1, <1>11 DEF ToFiles, OpenFolder, Search, SaveFolders, PlayLastVideo, PlayVideo,
                     Execute, tables, ui, jobs
<1>12. CASE CardChanges \/ ResumeVideo \/ LeaveVideo \/ DestroyVideo
  BY <1>1, <1>12 DEF CardChanges, ResumeVideo, LeaveVideo, DestroyVideo, tables, ui, jobs
<1>13. CASE UNCHANGED vars
  BY <1>1, <1>13 DEF vars, tables, ui, jobs
<1>14. CASE Killed
  BY <1>9, <1>14 DEF Killed
<1> QED
  BY <1>3, <1>4, <1>5, <1>6, <1>7, <1>8, <1>10, <1>11, <1>12, <1>13, <1>14
  DEF Next, FolderScreen, VideoScreens

(* Every video of the table has its folder there, whatever other programs   *)
(* do to the card and however saves and reloads overlap.                    *)
THEOREM VideosHaveFolders ==
  ASSUME AllWait
  PROVE  Spec => []NoOrphans
<1>1. Init => ListedInv /\ OrphansInv
  BY DEF Init, ListedInv, OrphansInv, NoOrphans, ValuesInv
<1>2. Basics /\ TasksInv /\ ListedInv /\ OrphansInv /\ [Next]_vars => ListedInv' /\ OrphansInv'
  BY ListedStep, OrphansStep
<1>3. OrphansInv => NoOrphans
  BY DEF OrphansInv
<1> QED
  BY <1>1, <1>2, <1>3, BasicsHold, QueueInOrder, PTL DEF Spec

-----------------------------------------------------------------------------
(* The folders, where no other program writes to the card.                  *)

\* Directories of the table are there, so a refresh deletes nothing.
LEMMA NothingGone ==
  ASSUME FoldersThere, \A i \in listed : Known(i)
  PROVE  Gone = {} /\ GoneIds = {}
  BY DEF FoldersThere, Known, Gone, GoneIds

\* The items of the folder screen are rows where no reload is to come.
LEMMA ItemsKnown ==
  ASSUME TasksInv, ListedInv, Settled \/ screen # "folders"
  PROVE  \A i \in listed : Known(i)
  BY NoReload DEF ListedInv, Known

FoldersParts == FoldersThere /\ FoldersOnce /\ TasksFit /\ ListFits /\ ValuesNew

\* A refresh keeps the folders in order.
LEMMA RefreshFolders ==
  ASSUME Basics, TasksInv, ListedInv, OrphansInv, FoldersParts, UNCHANGED use,
         Refresh \/ ReturnToFolders \/ LeaveLastVideo
  PROVE  FoldersParts'
<1> USE DEF Basics, FoldersParts
<1>1. RefreshList /\ Execute(List) /\ UNCHANGED <<exists, listed, values>>
  BY DEF Refresh, ReturnToFolders, LeaveLastVideo, RefreshList, Execute, card, ui
<1>2. Settled \/ screen # "folders"
  BY FolderScreenWaits DEF Refresh, ReturnToFolders, LeaveLastVideo, Leave
<1>3. (\A i \in listed : Known(i)) /\ GoneIds = {}
  BY <1>2, ItemsKnown, NothingGone
<1>4. /\ \A g \in folders' : \E f \in folders : f.id = g.id /\ f.path = g.path
      /\ \A f \in folders : \E g \in folders' : f.id = g.id /\ f.path = g.path
      /\ \A f, g \in folders' : f.id = g.id => f = g
      /\ videos' = Stays \cup Numbered(New) /\ New \in SUBSET (Paths \X Names) /\ Room(New)
  BY <1>1, <1>3, RefreshEffect
<1>5. FoldersThere'
  BY <1>1, <1>4 DEF FoldersThere
<1>6. FoldersOnce'
  BY <1>4 DEF FoldersOnce
<1>7. \A i \in DOMAIN tasks' :
        tasks'[i].kind = "list" \/ (i \in DOMAIN tasks /\ tasks'[i] = tasks[i])
  BY <1>1, ExecuteAdds, ListIsTask
<1>8. TasksFit'
  BY <1>1, <1>4, <1>7 DEF TasksFit
<1>9. ListFits'
  BY <1>1, <1>3, <1>4 DEF ListFits, Known
<1>10. ValuesNew'
  <2> SUFFICES ASSUME NEW x \in values, NEW v \in videos', v.parent = x[1] PROVE FALSE
    BY <1>1 DEF ValuesNew
  <2>1. v \notin videos
    BY DEF ValuesNew
  <2>2. v \in Numbered(New)
    BY <1>4, <2>1 DEF Stays
  <2>3. <<v.parent, v.name>> \in New
    BY <1>4, <2>2, RowsAreNew
  <2>4. PICK i \in listed : i.path = v.parent
    BY <2>3 DEF New, Here
  <2>5. PICK e \in folders : e.id = i.id /\ e.path = i.path
    BY <1>3 DEF Known
  <2>6. PICK f \in folders : f.path = x[1] /\ f.id # i.id
    BY DEF OrphansInv, ValuesInv
  <2> QED
    BY <2>4, <2>5, <2>6 DEF FoldersOnce
<1> QED
  BY <1>5, <1>6, <1>8, <1>9, <1>10

\* So does the deletion of a folder,
LEMMA DeletedFolders ==
  ASSUME Basics, TasksInv, ListedInv, FoldersParts, Alone, UNCHANGED use,
         FolderNotExist \/ DeleteFolder
  PROVE  FoldersParts'
<1> USE DEF Basics, FoldersParts
<1>1. UNCHANGED <<exists, listed, values>> /\ OnFolders
  BY DEF FolderNotExist, DeleteFolder, Execute, card, ui
<1>2. Settled /\ screen = "folders" /\ values = {}
  BY <1>1, FolderScreenWaits DEF TasksInv
<1>3. PICK i \in listed :
        /\ DeleteFolders({i})
        /\ \/ Execute(List)
           \/ /\ tasks' = tasks \o <<Erase(i.path), List>> /\ UNCHANGED values
              /\ MayChange(i.path)
  BY DEF FolderNotExist, DeleteFolder
<1>4. Known(i)
  BY <1>2, ItemsKnown
<1>5. folders' = {f \in folders : f.id # i.id} /\ videos' \subseteq videos
  BY <1>3, DeleteEffect
<1>6. FoldersThere' /\ FoldersOnce' /\ ValuesNew'
  BY <1>1, <1>2, <1>5 DEF FoldersThere, FoldersOnce, ValuesNew
<1>7. \A f \in folders' : f.path # i.path
  BY <1>4, <1>5 DEF Known, FoldersOnce
<1>8. /\ \A k \in DOMAIN tasks' :
           \/ tasks'[k].kind = "list"
           \/ tasks'[k] = Erase(i.path) /\ MayChange(i.path)
      /\ tasks'[1].kind = "list" \/ tasks'[1] = Erase(i.path)
  <2>1. CASE Execute(List)
    BY <1>2, <2>1, ExecuteAdds, ListIsTask DEF Settled
  <2>2. CASE /\ tasks' = tasks \o <<Erase(i.path), List>> /\ UNCHANGED values
             /\ MayChange(i.path)
    <3>1. i.path \in Paths
      BY DEF TypeInv, FolderItem
    <3>2. DOMAIN tasks' = 1..2 /\ tasks'[1] = Erase(i.path) /\ tasks'[2] = List
      BY <1>1, <1>2, <2>2, <3>1, EraseQueued DEF ui, FolderNotExist, DeleteFolder
    <3>3. \A k \in DOMAIN tasks' : k = 1 \/ k = 2
      BY <3>2
    <3> QED
      BY <2>2, <3>2, <3>3, ListIsTask
  <2> QED
    BY <1>3, <2>1, <2>2
<1>9. ASSUME MayChange(i.path), NEW f \in folders' PROVE ~Within(f.path, i.path)
  <2>1. f \in folders /\ f.path # i.path /\ ~Above(i.path)
    BY <1>5, <1>7, <1>9 DEF MayChange, Alone
  <2> QED
    BY <2>1 DEF Above, Within, IsStrictPrefix
<1>10. TasksFit'
  BY <1>8, <1>9 DEF TasksFit, Erase
<1>11. ListFits'
  BY <1>8 DEF ListFits, Erase
<1> QED
  BY <1>6, <1>11, <1>10

\* What renaming the folder of item i has done.
RenamedTo(i, new) ==
  /\ disk'[new] = disk[i.path] /\ new # i.path /\ i.path \in Paths
  /\ \A f \in folders : f.path # i.path => disk'[f.path] = disk[f.path]
  /\ \A f \in folders : (f.id = i.id <=> f.path = i.path) /\ f.path # new
  /\ \A v \in videos : v.parent # new
  /\ \A g \in folders' : \E f \in folders :
       /\ f.id = g.id /\ f.count = g.count /\ f.recent = g.recent
       /\ g.path = IF f.path = i.path THEN new ELSE f.path
  /\ \A f \in folders : \E g \in folders' :
       /\ f.id = g.id /\ f.count = g.count /\ f.recent = g.recent
       /\ g.path = IF f.path = i.path THEN new ELSE f.path
  /\ \A w \in videos' : \E v \in videos :
       /\ v.id = w.id /\ v.name = w.name /\ v.recent = w.recent
       /\ w.parent = IF v.parent = i.path THEN new ELSE v.parent
  /\ \A v \in videos : \E w \in videos' :
       /\ v.id = w.id /\ v.name = w.name /\ v.recent = w.recent
       /\ w.parent = IF v.parent = i.path THEN new ELSE v.parent

\* the rename of a folder,
LEMMA RenamedFolder ==
  ASSUME Basics, TasksInv, ListedInv, OrphansInv, FoldersParts, Alone, RenameFolder
  PROVE  /\ FoldersParts'
         /\ \E i \in listed, new \in Paths : RenamedTo(i, new)
<1> USE DEF Basics, FoldersParts
<1>1. UNCHANGED <<listed, values>> /\ OnFolders /\ Execute(List)
  BY DEF RenameFolder, Execute, ui
<1>2. Settled /\ screen = "folders" /\ values = {}
  BY <1>1, FolderScreenWaits DEF TasksInv
<1>3. PICK i \in listed, new \in Paths :
        /\ i.path \in exists /\ new \notin exists /\ new # i.path /\ MayChange(i.path)
        /\ folders' = Renaming(i, new) /\ videos' = Moved(i.path, new)
        /\ new \in exists' /\ disk'[new] = disk[i.path]
        /\ \A p \in exists : ~Within(p, i.path) => p \in exists' /\ disk'[p] = disk[p]
  BY RenameFolderParts DEF DirectoryMoved
<1>4. PICK e \in folders : e.id = i.id /\ e.path = i.path
  BY <1>2, ItemsKnown DEF Known
<1>5. /\ \A f \in folders : (f.id = i.id <=> f.path = i.path) /\ f.path # new
      /\ new # i.path /\ i.path \in Paths
  BY <1>3, <1>4 DEF FoldersOnce, FoldersThere, IdsInv, TypeInv, TypeOK
<1>6. \A v \in videos : v.parent # new
  BY <1>5 DEF OrphansInv, NoOrphans
<1>7. /\ \A g \in folders' : \E f \in folders :
           /\ f.id = g.id /\ f.count = g.count /\ f.recent = g.recent
           /\ g.path = IF f.id = i.id THEN new ELSE f.path
      /\ \A f \in folders : \E g \in folders' :
           /\ f.id = g.id /\ f.count = g.count /\ f.recent = g.recent
           /\ g.path = IF f.id = i.id THEN new ELSE f.path
      /\ \A w \in videos' : \E v \in videos :
           /\ v.id = w.id /\ v.name = w.name /\ v.recent = w.recent
           /\ w.parent = IF v.parent = i.path THEN new ELSE v.parent
      /\ \A v \in videos : \E w \in videos' :
           /\ v.id = w.id /\ v.name = w.name /\ v.recent = w.recent
           /\ w.parent = IF v.parent = i.path THEN new ELSE v.parent
      /\ \A f, g \in folders' : f.id = g.id => f = g
  BY <1>3, RenameFolderEffect DEF IdsInv
<1>8. ASSUME NEW g \in folders'
      PROVE  \E f \in folders :
               /\ f.id = g.id /\ f.count = g.count /\ f.recent = g.recent
               /\ g.path = IF f.path = i.path THEN new ELSE f.path
  BY <1>5, <1>7
<1>9. ASSUME NEW f \in folders
      PROVE  \E g \in folders' :
               /\ f.id = g.id /\ f.count = g.count /\ f.recent = g.recent
               /\ g.path = IF f.path = i.path THEN new ELSE f.path
  BY <1>5, <1>7
<1>10. ASSUME NEW f \in folders, f.path # i.path
       PROVE  f.path \in exists' /\ disk'[f.path] = disk[f.path]
  <2>1. ~Within(f.path, i.path)
    BY <1>3, <1>10 DEF MayChange, Alone, Above, Within, IsStrictPrefix
  <2> QED
    BY <1>3, <2>1 DEF FoldersThere
<1>11. FoldersThere'
  <2> SUFFICES ASSUME NEW g \in folders' PROVE g.path \in exists'
    BY DEF FoldersThere
  <2>1. PICK f \in folders : g.path = IF f.path = i.path THEN new ELSE f.path
    BY <1>8
  <2> QED
    BY <1>3, <1>10, <2>1
<1>12. FoldersOnce'
  <2> SUFFICES ASSUME NEW g \in folders', NEW h \in folders', g.path = h.path PROVE g = h
    BY DEF FoldersOnce
  <2>1. PICK f \in folders : f.id = g.id /\ g.path = IF f.path = i.path THEN new ELSE f.path
    BY <1>8
  <2>2. PICK d \in folders : d.id = h.id /\ h.path = IF d.path = i.path THEN new ELSE d.path
    BY <1>8
  <2>3. f.path = d.path
    BY <1>5, <2>1, <2>2
  <2> QED
    BY <1>7, <2>1, <2>2, <2>3 DEF FoldersOnce
<1>13. (\A k \in DOMAIN tasks' : tasks'[k].kind = "list") /\ tasks'[1].kind = "list"
  BY <1>1, <1>2, ExecuteAdds, ListIsTask DEF Settled
<1>14. TasksFit' /\ ListFits' /\ ValuesNew'
  BY <1>1, <1>2, <1>13 DEF TasksFit, ListFits, ValuesNew
<1>15. FoldersParts'
  BY <1>11, <1>12, <1>14
<1>16. RenamedTo(i, new)
  BY <1>3, <1>5, <1>6, <1>7, <1>8, <1>9, <1>10 DEF RenamedTo
<1> QED
  BY <1>15, <1>16

\* and every task.
LEMMA TasksOfFolders ==
  ASSUME Basics, TasksInv, OrphansInv, FoldersParts, RunTask, UNCHANGED use
  PROVE  FoldersParts'
<1> USE DEF Basics, FoldersParts
<1>1. ~Settled
  BY DEF RunTask, Settled
<1>2. 1 \in DOMAIN tasks /\ Task = tasks[1]
  BY <1>1, HeadTask
<1>3. CASE LoadFolders \/ Saved
  <2>1. UNCHANGED <<exists, folders, videos>> /\ Done /\ values = {} /\ values' = {}
    BY <1>1, <1>3, HeadInOrder DEF LoadFolders, Saved, card, tables
  <2>2. FoldersThere' /\ FoldersOnce' /\ ValuesNew'
    BY <2>1 DEF FoldersThere, FoldersOnce, ValuesNew
  <2>3. TasksFit'
    BY <1>1, <2>1, DoneLeaves DEF TasksFit
  <2>4. CASE LoadFolders
    <3>1. Len(tasks) = 1
      BY <1>1, <2>4, HeadInOrder DEF LoadFolders
    <3>2. Settled'
      BY <1>1, <2>1, <3>1, FirstTask DEF QueueTypes, Settled, Done
    <3> QED
      BY <2>2, <2>3, <3>2 DEF ListFits
  <2>5. CASE Saved
    <3>1. listed' = listed /\ tasks[1].kind = "save"
      BY <1>2, <2>5 DEF Saved, ui
    <3>2. ListFits'
      BY <1>1, <2>1, <3>1 DEF ListFits, Known
    <3> QED
      BY <2>2, <2>3, <3>2
  <2> QED
    BY <1>3, <2>4, <2>5
<1>4. CASE SaveFolder
  <2>1. UNCHANGED <<exists, videos, listed>> /\ Task.kind = "save"
    BY <1>4 DEF SaveFolder, card, ui
  <2>2. PICK p \in Task.paths \cap exists :
          /\ tasks' = <<Save(Task.paths \ {p})>> \o Tail(tasks) /\ p \in Paths
          /\ \/ UNCHANGED <<folders, values>>
             \/ /\ ~folderExist(p)
                /\ \E f \in FolderRow : folders' = folders \cup {f} /\ f.path = p
                /\ values' = values \cup ({p} \X disk[p])
    BY <1>1, <1>4, SaveEffect
  <2>3. Task.paths \ {p} \in SUBSET Paths /\ Task.paths \subseteq exists
    BY <1>1, <1>2, <2>1, HeadTask DEF TasksFit
  <2>4. /\ DOMAIN tasks' = DOMAIN tasks /\ tasks'[1] = Save(Task.paths \ {p})
        /\ \A i \in DOMAIN tasks : i # 1 => tasks'[i] = tasks[i]
    BY <1>1, <2>1, <2>2, <2>3, SaveKeepsReload
  <2>5. FoldersThere' /\ FoldersOnce'
    BY <2>1, <2>2 DEF FoldersThere, FoldersOnce, folderExist
  <2>6. ASSUME NEW i \in DOMAIN tasks'
        PROVE  /\ tasks'[i].kind = "save" => tasks'[i].paths \subseteq exists'
               /\ tasks'[i].kind # "erase"
    <3>1. CASE i = 1
      BY <2>1, <2>3, <2>4, <3>1 DEF Save
    <3>2. CASE i # 1
      <4>1. tasks'[i] = tasks[i] /\ tasks[i].kind # "erase" /\ i \in DOMAIN tasks
        BY <2>4, <3>2 DEF TasksInv
      <4> QED
        BY <2>1, <4>1 DEF TasksFit
    <3> QED
      BY <3>1, <3>2
  <2>7. TasksFit'
    BY <2>6 DEF TasksFit
  <2>8. folders \subseteq folders'
    BY <2>2
  <2>9. ListFits'
    BY <1>1, <1>2, <2>1, <2>8 DEF ListFits, Known
  <2>10. ValuesNew'
    <3> SUFFICES ASSUME NEW x \in values', NEW v \in videos, v.parent = x[1] PROVE FALSE
      BY <2>1 DEF ValuesNew
    <3>1. x \notin values
      BY DEF ValuesNew
    <3>2. ~folderExist(p) /\ x \in {p} \X disk[p]
      BY <2>2, <3>1
    <3> QED
      BY <3>2 DEF folderExist, OrphansInv, NoOrphans
  <2> QED
    BY <2>5, <2>7, <2>9, <2>10
<1>5. CASE InsertAll
  BY <1>5 DEF InsertAll, card, ui, FoldersThere, FoldersOnce, TasksFit, ListFits, ValuesNew,
              Known, Settled
<1>6. CASE SaveDies
  BY <1>2, <1>6 DEF SaveDies, TasksFit
<1>7. CASE EraseFiles
  <2>1. /\ RemoveDirectories(tasks[1].paths) /\ tasks[1].kind = "erase" /\ Done
        /\ UNCHANGED <<folders, videos, listed, values>>
    BY <1>2, <1>7 DEF EraseFiles, tables, ui
  <2>2. values = {} /\ Len(tasks) = 2 /\ screen = "folders"
    BY <1>2, <2>1 DEF TasksInv
  <2>3. FoldersThere'
    <3> SUFFICES ASSUME NEW f \in folders PROVE f.path \in exists'
      BY <2>1 DEF FoldersThere
    <3>1. f.path \in Paths /\ f.path \in exists
      BY DEF TypeInv, TypeOK, FoldersThere
    <3>2. \A d \in tasks[1].paths : ~Within(f.path, d)
      BY <1>2, <2>1 DEF TasksFit
    <3>3. CardTypes
      BY TypesInParts
    <3> QED
      BY <2>1, <3>1, <3>2, <3>3, RemoveEffect
  <2>4. FoldersThere' /\ FoldersOnce' /\ ValuesNew'
    BY <2>1, <2>2, <2>3 DEF FoldersOnce, ValuesNew
  <2>5. DOMAIN tasks = 1..2
    BY <2>2 DEF QueueTypes
  <2>6. tasks[2].kind = "list"
    BY <1>1, <2>2 DEF TasksInv
  <2>7. \A i \in DOMAIN tasks' : tasks'[i].kind = "list"
    <3>1. ASSUME NEW i \in DOMAIN tasks' PROVE tasks'[i].kind = "list"
      <4>1. i + 1 \in 1..2 /\ i + 1 # 1 /\ tasks'[i] = tasks[i + 1]
        BY <1>1, <2>1, <2>5, DoneLeaves
      <4>2. i + 1 = 2
        BY <4>1
      <4> QED
        BY <2>6, <4>1, <4>2
    <3> QED
      BY <3>1
  <2>8. ~Settled' => tasks'[1].kind = "list"
    BY <1>1, <2>1, <2>6, DoneLeaves
  <2> QED
    BY <2>4, <2>7, <2>8 DEF TasksFit, ListFits
<1> QED
  BY <1>3, <1>4, <1>5, <1>6, <1>7 DEF RunTask

\* The folders, action by action.
LEMMA FoldersStep ==
  ASSUME Basics, TasksInv, ListedInv, OrphansInv, FoldersInv, [Next]_vars
  PROVE  FoldersInv'
<1> SUFFICES ASSUME Alone PROVE FoldersParts'
  <2>1. Alone' => Alone
    BY DEF Alone, Does, Next, vars
  <2> QED
    BY <2>1 DEF FoldersInv, FoldersParts
<1>1. FoldersParts
  BY DEF FoldersInv, FoldersParts
<1>2. UNCHANGED <<exists, folders, videos, listed, tasks, values>> => FoldersParts'
  BY <1>1 DEF FoldersParts, FoldersThere, FoldersOnce, TasksFit, ListFits, ValuesNew, Known,
              Settled
<1>3. UNCHANGED use
  BY DEF Next, vars
<1>4. CASE Refresh \/ ReturnToFolders \/ LeaveLastVideo
  BY <1>1, <1>3, <1>4, RefreshFolders
<1>5. CASE FolderNotExist \/ DeleteFolder
  BY <1>1, <1>3, <1>5, DeletedFolders
<1>6. CASE RenameFolder
  BY <1>1, <1>6, RenamedFolder
<1>7. CASE RunTask
  BY <1>1, <1>3, <1>7, TasksOfFolders
<1>8. CASE SaveFolders
  <2>1. /\ UNCHANGED <<exists, folders, videos, listed>> /\ screen = "files"
        /\ \E ps \in SUBSET exists : Execute(Save(ps))
    BY <1>8 DEF SaveFolders, Checkable, card, tables, ui
  <2>2. PICK ps \in SUBSET exists : Execute(Save(ps))
    BY <2>1
  <2>3. Save(ps) \in TaskSet
    BY DEF Save, TaskSet, Basics, TypeInv, TypeOK
  <2>4. /\ \A i \in DOMAIN tasks' :
             tasks'[i] = Save(ps) \/ (i \in DOMAIN tasks /\ tasks'[i] = tasks[i])
        /\ values' = values
    BY <2>2, <2>3, ExecuteAdds DEF Basics
  <2>5. TasksFit'
    BY <1>1, <2>1, <2>4 DEF FoldersParts, TasksFit, Save
  <2>6. \A i \in listed : Known(i)
    BY <2>1, ItemsKnown
  <2> QED
    BY <1>1, <2>1, <2>4, <2>5, <2>6
    DEF FoldersParts, FoldersThere, FoldersOnce, ListFits, ValuesNew, Known
<1>9. CASE DeleteVideo \/ RenameVideo
  <2>1. UNCHANGED <<exists, folders, listed, tasks, values>>
    BY <1>9 DEF DeleteVideo, RenameVideo, jobs
  <2>2. \A w \in videos' : \E v \in videos : v.parent = w.parent
    <3>1. CASE DeleteVideo
      BY <3>1 DEF DeleteVideo
    <3>2. CASE RenameVideo
      <4>1. PICK i \in items, n \in Names : videos' = Renamed(i, n)
        BY <3>2 DEF RenameVideo, Renamed
      <4> QED
        BY <2>1, <4>1, RenameVideoEffect DEF Basics
    <3> QED
      BY <1>9, <3>1, <3>2
  <2>3. ValuesNew'
    BY <1>1, <2>1, <2>2 DEF FoldersParts, ValuesNew
  <2> QED
    BY <1>1, <2>1, <2>3
    DEF FoldersParts, FoldersThere, FoldersOnce, TasksFit, ListFits, Known, Settled
<1>10. CASE PlayOtherVideo \/ PauseVideo
  <2>1. PICK i \in items : updatePlayedTime(i)
    BY <1>10 DEF PlayOtherVideo, PauseVideo
  <2>2. Settled /\ UNCHANGED <<exists, tasks, values>> /\ values = {}
    BY <1>10 DEF PlayOtherVideo, PauseVideo, card, jobs, TasksInv
  <2>3. /\ \A g \in folders' : \E f \in folders : f.id = g.id /\ f.path = g.path
        /\ IdsInv'
    BY <2>1, PlayEffect DEF Basics
  <2>4. FoldersThere' /\ FoldersOnce'
    BY <1>1, <2>2, <2>3 DEF FoldersParts, FoldersThere, FoldersOnce, IdsInv
  <2>5. DOMAIN tasks = {}
    BY <2>2 DEF Settled
  <2> QED
    BY <2>2, <2>4, <2>5 DEF FoldersParts, TasksFit, ListFits, ValuesNew, Settled
<1>11. CASE ToFiles \/ OpenFolder \/ Search \/ PlayLastVideo \/ PlayVideo \/ UNCHANGED vars
  BY <1>2, <1>11 DEF ToFiles, OpenFolder, Search, PlayLastVideo, PlayVideo,
                     card, tables, ui, jobs, vars
<1>12. ~CardChanges
  BY DEF CardChanges, Alone
<1>13. CASE ResumeVideo \/ LeaveVideo \/ DestroyVideo
  BY <1>2, <1>13 DEF ResumeVideo, LeaveVideo, DestroyVideo, card, tables, jobs
<1>14. CASE Killed
  <2>1. tasks' = <<List>> /\ values' = {} /\ UNCHANGED <<exists, folders, videos>>
    BY <1>14 DEF Killed, Restart, card, tables
  <2>2. (\A k \in DOMAIN tasks' : tasks'[k].kind = "list") /\ tasks'[1].kind = "list"
    BY <2>1, ListIsTask
  <2> QED
    BY <1>1, <2>1, <2>2
    DEF FoldersParts, FoldersThere, FoldersOnce, TasksFit, ListFits, ValuesNew
<1> QED
  BY <1>4, <1>5, <1>6, <1>7, <1>8, <1>9, <1>10, <1>11, <1>12, <1>13, <1>14
  DEF Next, FolderScreen, VideoScreens

\* Folders are directories, each once, in every use without other programs.
LEMMA FoldersHold ==
  ASSUME AllWait
  PROVE  Spec => []FoldersInv
<1>1. Init => ListedInv /\ OrphansInv /\ FoldersInv
  BY DEF Init, ListedInv, OrphansInv, NoOrphans, ValuesInv, FoldersInv, FoldersThere,
         FoldersOnce, TasksFit, ListFits, ValuesNew, Settled
<1>2. Basics /\ TasksInv /\ ListedInv /\ OrphansInv /\ FoldersInv /\ [Next]_vars
      => ListedInv' /\ OrphansInv' /\ FoldersInv'
  BY ListedStep, OrphansStep, FoldersStep
<1> QED
  BY <1>1, <1>2, BasicsHold, QueueInOrder, PTL DEF Spec

-----------------------------------------------------------------------------
(* The list of videos.                                                      *)

ItemsMatch(is, rows) ==
  \A i \in is :
    /\ i.parent = i.dir
    /\ \E v \in rows : v.id = i.id /\ v.name = i.name /\ v.parent = i.dir

\* Two items that match rows and have one id are one item.
LEMMA ItemsDistinct ==
  ASSUME TypeInv, IdsInv, ItemsMatch(items, videos),
         NEW i \in items, NEW j \in items, i.id = j.id
  PROVE  i = j
<1>1. PICK v \in videos : v.id = i.id /\ v.name = i.name /\ v.parent = i.dir
  BY DEF ItemsMatch
<1>2. PICK w \in videos : w.id = j.id /\ w.name = j.name /\ w.parent = j.dir
  BY DEF ItemsMatch
<1>3. v = w
  BY <1>1, <1>2 DEF IdsInv
<1>4. i \in VideoItem /\ j \in VideoItem /\ i.parent = i.dir /\ j.parent = j.dir
  BY DEF TypeInv, ItemsMatch
<1> QED
  BY <1>1, <1>2, <1>3, <1>4 DEF VideoItem

\* The list of a folder shows rows of the table, action by action.
LEMMA ItemsStep ==
  ASSUME Basics, TasksInv, ItemsInv, [Next]_vars
  PROVE  ItemsInv'
<1> USE DEF Basics
<1>1. CASE UNCHANGED <<screen, listing, items, videos>>
  BY <1>1 DEF ItemsInv
<1>2. CASE screen' \notin {"list", "video", "paused"} \/ listing'.by # "folder"
  BY <1>2 DEF ItemsInv
<1>3. ItemsMatch(items', videos') => ItemsInv'
  BY DEF ItemsInv, ItemsMatch
<1>4. screen \in {"list", "video", "paused"} /\ listing.by = "folder" => ItemsMatch(items, videos)
  BY DEF ItemsInv, ItemsMatch
<1>5. CASE Refresh \/ FolderNotExist \/ DeleteFolder \/ RenameFolder
  <2>1. screen' = "folders"
    BY <1>5 DEF Refresh, FolderNotExist, DeleteFolder, RenameFolder, OnFolders, ui
  <2> QED
    BY <1>2, <2>1
<1>6. CASE ReturnToFolders \/ ToFiles \/ LeaveLastVideo \/ Killed
  BY <1>2, <1>6 DEF ReturnToFolders, ToFiles, LeaveLastVideo, Killed, Restart
<1>7. CASE OpenFolder
  <2>1. PICK l : l.by = "folder" /\ items' = Items(l, videos) /\ videos' = videos
    BY <1>7 DEF OpenFolder, Show, Listing, tables
  <2>2. ItemsMatch(items', videos')
    BY <2>1, ItemsAreRows DEF ItemsMatch
  <2> QED
    BY <1>3, <2>2
<1>8. CASE Search \/ PlayLastVideo
  <2>1. \E by \in {"search", "last"} : \E of : listing' = Listing(by, of)
    BY <1>8 DEF Search, PlayLastVideo, Show
  <2>2. listing'.by # "folder"
    BY <2>1 DEF Listing
  <2> QED
    BY <1>2, <2>2
<1>9. CASE SaveFolders \/ CardChanges \/ DestroyVideo
  BY <1>1, <1>9 DEF SaveFolders, CardChanges, DestroyVideo, tables, ui
<1>10. CASE PlayVideo \/ ResumeVideo
  BY <1>10 DEF PlayVideo, ResumeVideo, OnList, tables, ItemsInv
<1>11. CASE DeleteVideo
  <2> SUFFICES ASSUME listing'.by = "folder" PROVE ItemsMatch(items', videos')
    BY <1>2, <1>3
  <2>1. ItemsMatch(items, videos)
    BY <1>4, <1>11 DEF DeleteVideo, OnList
  <2>2. PICK i \in items : /\ videos' = {v \in videos : v.id # i.id}
                           /\ items' = items \ {i}
    BY <1>11 DEF DeleteVideo
  <2>3. \A j \in items' : j \in items /\ j.id # i.id
    BY <2>1, <2>2, ItemsDistinct
  <2> QED
    BY <2>1, <2>2, <2>3 DEF ItemsMatch
<1>12. CASE RenameVideo
  <2> SUFFICES ASSUME listing'.by = "folder" PROVE ItemsMatch(items', videos')
    BY <1>2, <1>3
  <2>1. ItemsMatch(items, videos) /\ UNCHANGED folders
    BY <1>4, <1>12 DEF RenameVideo, OnList
  <2>2. PICK i \in items, n \in Names :
          /\ videos' = Renamed(i, n)
          /\ items' = (items \ {i}) \cup {[i EXCEPT !.name = n, !.dir = i.parent]}
    BY <1>12 DEF RenameVideo, Renamed
  <2>3. \A v \in videos : \E w \in videos' :
          /\ v.id = w.id /\ v.parent = w.parent
          /\ w.name = IF v.id = i.id THEN n ELSE v.name
    BY <2>1, <2>2, RenameVideoEffect
  <2> DEFINE k == [i EXCEPT !.name = n, !.dir = i.parent]
  <2>4. k.id = i.id /\ k.name = n /\ k.dir = i.parent /\ k.parent = i.parent
    BY DEF TypeInv, VideoItem
  <2>5. ASSUME NEW j \in items \ {i}
        PROVE  /\ j.parent = j.dir
               /\ \E w \in videos' : w.id = j.id /\ w.name = j.name /\ w.parent = j.dir
    <3>1. j.id # i.id
      BY <2>1, ItemsDistinct
    <3> QED
      BY <2>1, <2>3, <3>1 DEF ItemsMatch
  <2>6. \E w \in videos' : w.id = k.id /\ w.name = k.name /\ w.parent = k.dir
    <3>1. PICK v \in videos : v.id = i.id /\ v.parent = i.dir
      BY <2>1 DEF ItemsMatch
    <3>2. i.parent = i.dir
      BY <2>1 DEF ItemsMatch
    <3> HIDE DEF k
    <3> QED
      BY <2>3, <2>4, <3>1, <3>2
  <2> HIDE DEF k
  <2>7. items' = (items \ {i}) \cup {k}
    BY <2>2 DEF k
  <2> QED
    BY <2>4, <2>5, <2>6, <2>7 DEF ItemsMatch
<1>13. CASE PlayOtherVideo \/ PauseVideo
  <2> SUFFICES ASSUME listing.by = "folder" PROVE ItemsMatch(items', videos')
    BY <1>2, <1>3, <1>13 DEF PlayOtherVideo, PauseVideo
  <2>1. PICK i \in items : updatePlayedTime(i)
    BY <1>13 DEF PlayOtherVideo, PauseVideo
  <2>2. \A v \in videos : \E w \in videos' :
          v.id = w.id /\ v.name = w.name /\ v.parent = w.parent
    BY <2>1, PlayEffect
  <2>3. ItemsMatch(items', videos)
    BY <1>4, <1>13 DEF PlayOtherVideo, PauseVideo
  <2> QED
    BY <2>2, <2>3 DEF ItemsMatch
<1>14. CASE LeaveVideo
  <2> SUFFICES ASSUME listing.by = "folder" PROVE ItemsMatch(items', videos')
    BY <1>2, <1>3, <1>14 DEF LeaveVideo
  <2> QED
    BY <1>14, ItemsAreRows DEF LeaveVideo, ItemsMatch, tables
<1>15. CASE RunTask
  <2>1. screen \notin {"list", "video", "paused"}
    BY <1>15 DEF RunTask, TasksInv, Settled
  <2>2. screen' = screen \/ screen' = "folders"
    BY <1>15 DEF RunTask, LoadFolders, SaveFolder, InsertAll, Saved, SaveDies, Restart,
                 EraseFiles, ui
  <2> QED
    BY <1>2, <2>1, <2>2
<1>16. CASE UNCHANGED vars
  BY <1>1, <1>16 DEF vars, tables, ui
<1> QED
  BY <1>5, <1>6, <1>7, <1>8, <1>9, <1>10, <1>11, <1>12, <1>13, <1>15, <1>16,
  <1>14
  DEF Next, FolderScreen, VideoScreens

\* Without a search a list is that of a folder, action by action.
LEMMA ListingStep ==
  ASSUME TasksInv, ListingInv, [Next]_vars
  PROVE  ListingInv'
<1>1. UNCHANGED use
  BY DEF Next, vars
<1>2. CASE UNCHANGED <<screen, listing>>
  BY <1>1, <1>2 DEF ListingInv, Does
<1>3. CASE screen' \notin {"list", "video", "paused"}
  BY <1>3 DEF ListingInv
<1>4. CASE Refresh \/ FolderNotExist \/ DeleteFolder \/ RenameFolder \/ SaveFolders \/ CardChanges
  BY <1>2, <1>4 DEF Refresh, FolderNotExist, DeleteFolder, RenameFolder, SaveFolders,
                    CardChanges, ui
<1>5. CASE ReturnToFolders \/ ToFiles \/ LeaveLastVideo \/ Killed
  BY <1>3, <1>5 DEF ReturnToFolders, ToFiles, LeaveLastVideo, Killed, Restart
<1>6. CASE OpenFolder
  BY <1>6 DEF OpenFolder, Show, Listing, ListingInv
<1>7. CASE Search
  BY <1>1, <1>7 DEF Search, ListingInv, Does
<1>8. CASE PlayLastVideo
  BY <1>1, <1>8 DEF PlayLastVideo, Show, Listing, ListingInv, Does
<1>9. CASE DeleteVideo \/ RenameVideo \/ PlayOtherVideo \/ DestroyVideo
  BY <1>2, <1>9 DEF DeleteVideo, RenameVideo, PlayOtherVideo, DestroyVideo
<1>10. CASE PlayVideo
  BY <1>1, <1>10 DEF PlayVideo, OnList, ListingInv, Does
<1>11. CASE PauseVideo \/ ResumeVideo \/ LeaveVideo
  BY <1>1, <1>11 DEF PauseVideo, ResumeVideo, LeaveVideo, Leave, ListingInv, Does
<1>12. CASE RunTask
  <2>1. UNCHANGED <<screen, listing>> \/ screen' = "folders"
    BY <1>12 DEF RunTask, LoadFolders, SaveFolder, InsertAll, Saved, SaveDies, Restart,
                 EraseFiles, ui
  <2> QED
    BY <1>2, <1>3, <2>1
<1>13. CASE UNCHANGED vars
  BY <1>2, <1>13 DEF vars, ui
<1> QED
  BY <1>4, <1>5, <1>6, <1>7, <1>8, <1>9, <1>10, <1>11, <1>12, <1>13
  DEF Next, FolderScreen, VideoScreens

-----------------------------------------------------------------------------
(* The files, where videos are not renamed from a search either.            *)

FilesParts == FilesThere /\ FilesOnce /\ ValuesThere /\ AllRows

\* A refresh finds the rows equal to the files already, or makes them so.
LEMMA RefreshFiles ==
  ASSUME Basics, TasksInv, ListedInv, FoldersParts, FilesParts, UNCHANGED use,
         Refresh \/ ReturnToFolders \/ LeaveLastVideo
  PROVE  FilesParts'
<1> USE DEF Basics, FoldersParts, FilesParts
<1>1. RefreshList /\ Execute(List) /\ UNCHANGED <<disk, values>>
  BY DEF Refresh, ReturnToFolders, LeaveLastVideo, RefreshList, Execute, card
<1>2. Settled \/ screen # "folders"
  BY FolderScreenWaits DEF Refresh, ReturnToFolders, LeaveLastVideo, Leave
<1>3. (\A i \in listed : Known(i)) /\ Gone = {}
  BY <1>2, ItemsKnown, NothingGone
<1>4. /\ \A g \in folders' : \E f \in folders : f.path = g.path
      /\ videos' = Stays \cup Numbered(New) /\ New \in SUBSET (Paths \X Names) /\ Room(New)
  BY <1>1, RefreshEffect
<1>5. Stays = {v \in videos : v.parent \in Here => v.name \in disk[v.parent]}
  BY <1>3 DEF Stays
<1>6. Stays = videos
  BY <1>5 DEF FilesThere
<1>7. ASSUME NEW v \in Numbered(New)
      PROVE  v.name \in disk[v.parent] /\ ~\E w \in videos : w.parent = v.parent /\ w.name = v.name
  <2>1. <<v.parent, v.name>> \in New
    BY <1>4, RowsAreNew
  <2> QED
    BY <1>6, <2>1 DEF New
<1>8. \A v, w \in Numbered(New) : v.parent = w.parent /\ v.name = w.name => v = w
  BY <1>4, RowsAreNew
<1>9. FilesThere'
  BY <1>1, <1>4, <1>6, <1>7 DEF FilesThere
<1>10. FilesOnce'
  BY <1>4, <1>6, <1>7, <1>8 DEF FilesOnce
<1>11. ValuesThere'
  BY <1>1 DEF ValuesThere
<1>12. AllRows'
  BY <1>1, <1>4, <1>6 DEF AllRows, Does
<1> QED
  BY <1>9, <1>10, <1>11, <1>12

\* The rows and the files when a folder is deleted,
LEMMA DeletedFiles ==
  ASSUME Basics, TasksInv, ListedInv, FoldersParts, FilesParts, UNCHANGED use,
         FolderNotExist \/ DeleteFolder
  PROVE  FilesParts'
<1> USE DEF Basics, FoldersParts, FilesParts
<1>1. UNCHANGED <<disk, values>> /\ OnFolders
  BY DEF FolderNotExist, DeleteFolder, Execute, card
<1>2. PICK i \in listed : DeleteFolders({i})
  BY DEF FolderNotExist, DeleteFolder
<1>3. PICK e \in folders : e.id = i.id /\ e.path = i.path
  BY <1>1, FolderScreenWaits, ItemsKnown DEF Known
<1>4. /\ folders' = {f \in folders : f.id # i.id}
      /\ videos' = {v \in videos : v.parent # i.path}
  BY <1>2, DeleteEffect
<1>5. \A f \in folders' : f \in folders /\ f.path # i.path
  BY <1>3, <1>4 DEF FoldersOnce
<1>6. FilesThere' /\ FilesOnce' /\ ValuesThere'
  BY <1>1, <1>4 DEF FilesThere, FilesOnce, ValuesThere
<1>7. AllRows'
  BY <1>1, <1>4, <1>5 DEF AllRows, Does
<1> QED
  BY <1>6, <1>7

\* when a folder is renamed,
LEMMA RenamedFiles ==
  ASSUME Basics, TasksInv, ListedInv, OrphansInv, FoldersParts, FilesParts, IdsInv',
         Alone, UNCHANGED use, RenameFolder
  PROVE  FilesParts'
<1> USE DEF Basics, FoldersParts, FilesParts
<1>1. PICK i \in listed, new \in Paths : RenamedTo(i, new)
  BY RenamedFolder
<1>2. UNCHANGED values /\ OnFolders
  BY DEF RenameFolder, Execute
<1>3. values' = {}
  BY <1>2, FolderScreenWaits DEF TasksInv
<1>4. \A f \in folders : f.path # i.path => disk'[f.path] = disk[f.path]
  BY <1>1 DEF RenamedTo
<1>5. disk'[new] = disk[i.path] /\ \A f \in folders : f.path # new
  BY <1>1 DEF RenamedTo
<1>6. \A v \in videos : v.parent # new /\ (v.parent # i.path => disk'[v.parent] = disk[v.parent])
  BY <1>1, <1>4 DEF RenamedTo, OrphansInv, NoOrphans
<1>7. FilesThere'
  <2> SUFFICES ASSUME NEW w \in videos' PROVE w.name \in disk'[w.parent]
    BY DEF FilesThere
  <2>1. PICK v \in videos : /\ v.name = w.name
                            /\ w.parent = IF v.parent = i.path THEN new ELSE v.parent
    BY <1>1 DEF RenamedTo
  <2>2. v.name \in disk[v.parent]
    BY DEF FilesThere
  <2> QED
    BY <1>5, <1>6, <2>1, <2>2
<1>8. FilesOnce'
  <2> SUFFICES ASSUME NEW w \in videos', NEW x \in videos', w.parent = x.parent, w.name = x.name
               PROVE  w = x
    BY DEF FilesOnce
  <2>1. PICK v \in videos : /\ v.id = w.id /\ v.name = w.name
                            /\ w.parent = IF v.parent = i.path THEN new ELSE v.parent
    BY <1>1 DEF RenamedTo
  <2>2. PICK u \in videos : /\ u.id = x.id /\ u.name = x.name
                            /\ x.parent = IF u.parent = i.path THEN new ELSE u.parent
    BY <1>1 DEF RenamedTo
  <2>3. v.parent = u.parent
    BY <1>6, <2>1, <2>2
  <2> QED
    BY <2>1, <2>2, <2>3 DEF FilesOnce, IdsInv
<1>9. AllRows'
  <2> SUFFICES ASSUME ~Does("killed"), NEW g \in folders', NEW n \in disk'[g.path]
               PROVE  \E w \in videos' : w.parent = g.path /\ w.name = n
    BY DEF AllRows, Does
  <2>1. PICK f \in folders : g.path = IF f.path = i.path THEN new ELSE f.path
    BY <1>1 DEF RenamedTo
  <2>2. n \in disk[f.path]
    BY <1>4, <1>5, <2>1
  <2>3. PICK v \in videos : v.parent = f.path /\ v.name = n
    BY <1>2, <1>3, <2>2 DEF AllRows
  <2>4. PICK w \in videos' : /\ v.name = w.name
                             /\ w.parent = IF v.parent = i.path THEN new ELSE v.parent
    BY <1>1 DEF RenamedTo
  <2> QED
    BY <2>1, <2>3, <2>4
<1> QED
  BY <1>3, <1>7, <1>8, <1>9 DEF ValuesThere

\* A video that is edited has one row, and its file.
LEMMA EditedVideo ==
  ASSUME Basics, TasksInv, ItemsInv, ListingInv, Tidy, FilesParts, OnList, NEW i \in items
  PROVE  /\ values = {} /\ i.parent = i.dir /\ i.dir \in Paths /\ HasFile(i)
         /\ \E e \in videos : /\ e.id = i.id /\ e.name = i.name /\ e.parent = i.dir
                              /\ \A v \in videos : v.id = i.id => v = e
                              /\ \A v \in videos : v.parent = i.dir /\ v.name = i.name => v = e
<1> USE DEF Basics
<1>1. screen = "list" /\ values = {} /\ listing.by = "folder"
  BY DEF OnList, TasksInv, ListingInv, Tidy
<1>2. i.parent = i.dir /\ \E e \in videos : e.id = i.id /\ e.name = i.name /\ e.parent = i.dir
  BY <1>1 DEF ItemsInv
<1>3. PICK e \in videos : e.id = i.id /\ e.name = i.name /\ e.parent = i.dir
  BY <1>2
<1>4. e.parent \in Paths /\ e.name \in disk[e.parent]
  BY DEF TypeInv, TypeOK, FilesParts, FilesThere
<1>5. /\ \A v \in videos : v.id = i.id => v = e
      /\ \A v \in videos : v.parent = i.dir /\ v.name = i.name => v = e
  BY <1>3 DEF IdsInv, FilesParts, FilesOnce
<1> QED
  BY <1>1, <1>2, <1>3, <1>4, <1>5 DEF HasFile

\* when a video is deleted,
LEMMA DeletedVideo ==
  ASSUME Basics, TasksInv, ItemsInv, ListingInv, Tidy, FilesParts, DeleteVideo,
         UNCHANGED use
  PROVE  FilesParts'
<1> USE DEF Basics, FilesParts
<1>1. UNCHANGED <<folders, values>> /\ OnList
  BY DEF DeleteVideo, jobs
<1>2. PICK i \in items :
        /\ videos' = {v \in videos : v.id # i.id}
        /\ disk' = IF HasFile(i) THEN [disk EXCEPT ![i.dir] = @ \ {i.name}] ELSE disk
  BY DEF DeleteVideo
<1>3. values = {} /\ i.dir \in Paths /\ HasFile(i)
  BY <1>1, EditedVideo
<1>4. PICK e \in videos : /\ e.id = i.id /\ e.name = i.name /\ e.parent = i.dir
                          /\ \A v \in videos : v.id = i.id => v = e
                          /\ \A v \in videos : v.parent = i.dir /\ v.name = i.name => v = e
  BY <1>1, EditedVideo
<1>5. disk \in [Paths -> SUBSET Names] /\ \A v \in videos : v.parent \in Paths
  BY DEF TypeInv, TypeOK
<1>6. \A p \in Paths : disk'[p] = IF p = i.dir THEN disk[p] \ {i.name} ELSE disk[p]
  BY <1>2, <1>3, <1>5
<1>7. FilesThere'
  BY <1>2, <1>4, <1>5, <1>6 DEF FilesThere
<1>8. FilesOnce' /\ ValuesThere'
  BY <1>1, <1>2, <1>3 DEF FilesOnce, ValuesThere
<1>9. AllRows'
  <2> SUFFICES ASSUME ~Does("killed"), NEW f \in folders, NEW n \in disk'[f.path]
               PROVE  \E v \in videos' : v.parent = f.path /\ v.name = n
    BY <1>1 DEF AllRows, Does
  <2>1. f.path \in Paths
    BY DEF TypeInv, TypeOK
  <2>2. n \in disk[f.path] /\ ~(f.path = i.dir /\ n = i.name)
    BY <1>6, <2>1
  <2>3. PICK v \in videos : v.parent = f.path /\ v.name = n
    BY <1>3, <2>2 DEF AllRows
  <2>4. v.id # i.id
    BY <1>4, <2>2, <2>3
  <2> QED
    BY <1>2, <2>3, <2>4
<1> QED
  BY <1>7, <1>8, <1>9

\* when a video is renamed,
LEMMA RenamedVideo ==
  ASSUME Basics, TasksInv, ItemsInv, ListingInv, Tidy, FilesParts, IdsInv', RenameVideo,
         UNCHANGED use
  PROVE  FilesParts'
<1> USE DEF Basics, FilesParts
<1>1. UNCHANGED <<folders, values>> /\ OnList
  BY DEF RenameVideo, jobs
<1>2. PICK i \in items, n \in Names :
        /\ i.parent \in Paths => n \notin disk[i.parent]
        /\ disk' = IF i.parent \in Paths
                   THEN [disk EXCEPT ![i.dir] = (@ \ {i.name}) \cup {n}] ELSE disk
        /\ videos' = Renamed(i, n)
  BY DEF RenameVideo, Renamed
<1>3. values = {} /\ i.parent = i.dir /\ i.dir \in Paths /\ HasFile(i)
  BY <1>1, EditedVideo
<1>4. PICK e \in videos : /\ e.id = i.id /\ e.name = i.name /\ e.parent = i.dir
                          /\ \A v \in videos : v.id = i.id => v = e
                          /\ \A v \in videos : v.parent = i.dir /\ v.name = i.name => v = e
  BY <1>1, EditedVideo
<1>5. disk \in [Paths -> SUBSET Names] /\ \A v \in videos : v.parent \in Paths
  BY DEF TypeInv, TypeOK
<1>6. /\ \A p \in Paths :
           disk'[p] = IF p = i.dir THEN (disk[p] \ {i.name}) \cup {n} ELSE disk[p]
      /\ n \notin disk[i.dir]
  BY <1>2, <1>3, <1>5
<1>7. /\ \A w \in videos' : \E v \in videos :
           /\ v.id = w.id /\ v.parent = w.parent
           /\ w.name = IF v.id = i.id THEN n ELSE v.name
      /\ \A v \in videos : \E w \in videos' :
           /\ v.id = w.id /\ v.parent = w.parent
           /\ w.name = IF v.id = i.id THEN n ELSE v.name
  BY <1>1, <1>2, RenameVideoEffect
<1>8. FilesThere'
  <2> SUFFICES ASSUME NEW w \in videos' PROVE w.name \in disk'[w.parent]
    BY DEF FilesThere
  <2>1. PICK v \in videos : /\ v.parent = w.parent
                            /\ w.name = IF v.id = i.id THEN n ELSE v.name
    BY <1>7
  <2>2. v.name \in disk[v.parent] /\ v.parent \in Paths
    BY <1>5 DEF FilesThere
  <2>3. CASE v.id = i.id
    BY <1>4, <1>6, <2>1, <2>2, <2>3
  <2>4. CASE v.id # i.id
    <3>1. ~(v.parent = i.dir /\ v.name = i.name)
      BY <1>4, <2>4
    <3> QED
      BY <1>6, <2>1, <2>2, <2>4, <3>1
  <2> QED
    BY <2>3, <2>4
<1>9. FilesOnce'
  <2> SUFFICES ASSUME NEW w \in videos', NEW x \in videos', w.parent = x.parent, w.name = x.name
               PROVE  w = x
    BY DEF FilesOnce
  <2>1. PICK v \in videos : /\ v.id = w.id /\ v.parent = w.parent
                            /\ w.name = IF v.id = i.id THEN n ELSE v.name
    BY <1>7
  <2>2. PICK u \in videos : /\ u.id = x.id /\ u.parent = x.parent
                            /\ x.name = IF u.id = i.id THEN n ELSE u.name
    BY <1>7
  <2>3. ~(v.parent = i.dir /\ v.name = n) /\ ~(u.parent = i.dir /\ u.name = n)
    BY <1>6 DEF FilesThere
  <2>4. v.id = u.id
    <3>1. CASE v.id = i.id
      BY <1>4, <2>1, <2>2, <2>3, <3>1
    <3>2. CASE u.id = i.id
      BY <1>4, <2>1, <2>2, <2>3, <3>2
    <3>3. CASE v.id # i.id /\ u.id # i.id
      BY <2>1, <2>2, <3>3 DEF FilesOnce
    <3> QED
      BY <3>1, <3>2, <3>3
  <2> QED
    BY <2>1, <2>2, <2>4 DEF IdsInv
<1>10. AllRows'
  <2> SUFFICES ASSUME ~Does("killed"), NEW f \in folders, NEW m \in disk'[f.path]
               PROVE  \E w \in videos' : w.parent = f.path /\ w.name = m
    BY <1>1 DEF AllRows, Does
  <2>1. f.path \in Paths
    BY DEF TypeInv, TypeOK
  <2>2. CASE f.path = i.dir /\ m = n
    BY <1>4, <1>7, <2>2
  <2>3. CASE ~(f.path = i.dir /\ m = n)
    <3>1. m \in disk[f.path] /\ ~(f.path = i.dir /\ m = i.name)
      <4>1. CASE f.path = i.dir
        <5>1. i.name # n
          BY <1>3, <1>6 DEF HasFile
        <5> QED
          BY <1>6, <2>1, <2>3, <4>1, <5>1
      <4>2. CASE f.path # i.dir
        BY <1>6, <2>1, <4>2
      <4> QED
        BY <4>1, <4>2
    <3>2. PICK v \in videos : v.parent = f.path /\ v.name = m
      BY <1>3, <3>1 DEF AllRows
    <3>3. v.id # i.id
      BY <1>4, <3>1, <3>2
    <3> QED
      BY <1>7, <3>2, <3>3
  <2> QED
    BY <2>2, <2>3
<1> QED
  BY <1>1, <1>3, <1>8, <1>9, <1>10 DEF ValuesThere

\* and when a task is at work.
LEMMA TasksOfFiles ==
  ASSUME Basics, TasksInv, OrphansInv, FoldersParts, FilesParts, RunTask, UNCHANGED use
  PROVE  FilesParts'
<1> USE DEF Basics, FoldersParts, FilesParts
<1>1. ~Settled
  BY DEF RunTask, Settled
<1>2. 1 \in DOMAIN tasks /\ Task = tasks[1]
  BY <1>1, HeadTask
<1>3. UNCHANGED <<disk, folders, videos, values>> => FilesParts'
  BY DEF FilesThere, FilesOnce, ValuesThere, AllRows, Does
<1>4. CASE LoadFolders \/ Saved
  BY <1>3, <1>4 DEF LoadFolders, Saved, card, tables
<1>5. CASE SaveFolder
  <2>1. UNCHANGED <<disk, videos>>
    BY <1>5 DEF SaveFolder, card
  <2>2. PICK p \in Task.paths :
          \/ UNCHANGED <<folders, values>>
          \/ /\ \E f \in FolderRow : folders' = folders \cup {f} /\ f.path = p
             /\ values' = values \cup ({p} \X disk[p])
    BY <1>1, <1>5, SaveEffect
  <2>3. CASE UNCHANGED <<folders, values>>
    BY <1>3, <2>1, <2>3
  <2>4. CASE /\ \E f \in FolderRow : folders' = folders \cup {f} /\ f.path = p
             /\ values' = values \cup ({p} \X disk[p])
    <3>1. FilesThere' /\ FilesOnce'
      BY <2>1 DEF FilesThere, FilesOnce
    <3>2. ASSUME NEW x \in {p} \X disk[p] PROVE x[2] \in disk[x[1]]
      OBVIOUS
    <3>3. ValuesThere'
      BY <2>1, <2>4, <3>2 DEF ValuesThere
    <3>4. \A n \in disk[p] : <<p, n>> \in values'
      BY <2>4
    <3>5. AllRows'
      BY <2>1, <2>4, <3>4 DEF AllRows, Does
    <3> QED
      BY <3>1, <3>3, <3>5
  <2> QED
    BY <2>2, <2>3, <2>4
<1>6. CASE InsertAll
  <2>1. /\ UNCHANGED <<disk, folders>> /\ values' = {}
        /\ videos' = videos \cup Numbered(values) /\ Room(values)
    BY <1>6 DEF InsertAll, card
  <2>2. /\ \A v \in Numbered(values) : <<v.parent, v.name>> \in values
        /\ \A x \in values : \E v \in Numbered(values) : v.parent = x[1] /\ v.name = x[2]
        /\ \A v, w \in Numbered(values) : v.parent = w.parent /\ v.name = w.name => v = w
    BY <2>1, RowsAreNew DEF QueueTypes
  <2>3. ASSUME NEW v \in Numbered(values)
        PROVE  v.name \in disk[v.parent] /\ \A w \in videos : w.parent # v.parent
    <3>1. <<v.parent, v.name>> \in values
      BY <2>2
    <3> QED
      BY <3>1 DEF ValuesThere, ValuesNew
  <2>4. FilesThere'
    BY <2>1, <2>3 DEF FilesThere
  <2>5. FilesOnce'
    BY <2>1, <2>2, <2>3 DEF FilesOnce
  <2>6. AllRows'
    <3> SUFFICES ASSUME ~Does("killed"), NEW f \in folders, NEW n \in disk[f.path]
                 PROVE  \E v \in videos' : v.parent = f.path /\ v.name = n
      BY <2>1 DEF AllRows, Does
    <3>1. CASE <<f.path, n>> \in values
      BY <2>1, <2>2, <3>1
    <3>2. CASE <<f.path, n>> \notin values
      BY <2>1, <3>2 DEF AllRows
    <3> QED
      BY <3>1, <3>2
  <2> QED
    BY <2>1, <2>4, <2>5, <2>6 DEF ValuesThere
<1>7. CASE SaveDies
  BY <1>2, <1>7 DEF SaveDies, TasksFit
<1>8. CASE EraseFiles
  <2>1. /\ UNCHANGED <<folders, videos, values>> /\ tasks[1].kind = "erase"
        /\ RemoveDirectories(tasks[1].paths)
    BY <1>2, <1>8 DEF EraseFiles, tables
  <2>2. values = {} /\ CardTypes
    BY <1>2, <2>1, TypesInParts DEF TasksInv
  <2>3. ASSUME NEW f \in folders PROVE disk'[f.path] = disk[f.path]
    <3>1. f.path \in Paths /\ \A d \in tasks[1].paths : ~Within(f.path, d)
      BY <1>2, <2>1 DEF TasksFit, TypeInv, TypeOK
    <3> QED
      BY <2>1, <2>2, <3>1, RemoveEffect
  <2>4. \A v \in videos : disk'[v.parent] = disk[v.parent]
    BY <2>3 DEF OrphansInv, NoOrphans
  <2> QED
    BY <2>1, <2>2, <2>3, <2>4 DEF FilesThere, FilesOnce, ValuesThere, AllRows, Does
<1> QED
  BY <1>4, <1>5, <1>6, <1>7, <1>8 DEF RunTask

\* The rows and the files, action by action.
LEMMA FilesStep ==
  ASSUME Basics, TasksInv, ListedInv, OrphansInv, FoldersInv, ItemsInv, ListingInv, FilesInv,
         [Next]_vars
  PROVE  FilesInv'
<1> SUFFICES ASSUME Tidy PROVE FilesParts'
  <2>1. Tidy' => Tidy
    BY DEF Tidy, Alone, Does, Next, vars
  <2> QED
    BY <2>1 DEF FilesInv, FilesParts
<1>1. FilesParts /\ FoldersParts /\ UNCHANGED use
  BY DEF FilesInv, FilesParts, FoldersInv, FoldersParts, Tidy, Next, vars
<1>2. IdsInv'
  BY RowsStep DEF Basics
<1>3. CASE UNCHANGED <<disk, folders, videos, values>>
  BY <1>1, <1>3 DEF FilesParts, FilesThere, FilesOnce, ValuesThere, AllRows, Does
<1>4. CASE Refresh \/ ReturnToFolders \/ LeaveLastVideo
  BY <1>1, <1>4, RefreshFiles
<1>5. CASE FolderNotExist \/ DeleteFolder
  BY <1>1, <1>5, DeletedFiles
<1>6. CASE RenameFolder
  BY <1>1, <1>2, <1>6, RenamedFiles DEF Tidy
<1>7. CASE DeleteVideo
  BY <1>1, <1>7, DeletedVideo
<1>8. CASE RenameVideo
  BY <1>1, <1>2, <1>8, RenamedVideo
<1>9. CASE RunTask
  BY <1>1, <1>9, TasksOfFiles
<1>10. CASE PlayOtherVideo \/ PauseVideo
  <2>1. PICK i \in items : updatePlayedTime(i)
    BY <1>10 DEF PlayOtherVideo, PauseVideo
  <2>2. UNCHANGED <<disk, values>>
    BY <1>10 DEF PlayOtherVideo, PauseVideo, card, jobs
  <2>3. /\ \A g \in folders' : \E f \in folders : f.path = g.path
        /\ \A w \in videos' : \E v \in videos :
             v.id = w.id /\ v.name = w.name /\ v.parent = w.parent
        /\ \A v \in videos : \E w \in videos' :
             v.id = w.id /\ v.name = w.name /\ v.parent = w.parent
    BY <2>1, PlayEffect DEF Basics
  <2>4. FilesThere'
    BY <1>1, <2>2, <2>3 DEF FilesParts, FilesThere
  <2>5. FilesOnce'
    <3> SUFFICES ASSUME NEW w \in videos', NEW x \in videos', w.parent = x.parent, w.name = x.name
                 PROVE  w = x
      BY DEF FilesOnce
    <3>1. PICK v \in videos : v.id = w.id /\ v.name = w.name /\ v.parent = w.parent
      BY <2>3
    <3>2. PICK u \in videos : u.id = x.id /\ u.name = x.name /\ u.parent = x.parent
      BY <2>3
    <3>3. v = u
      BY <1>1, <3>1, <3>2 DEF FilesParts, FilesOnce
    <3> QED
      BY <1>2, <3>1, <3>2, <3>3 DEF IdsInv
  <2>6. ValuesThere'
    BY <1>1, <2>2 DEF FilesParts, ValuesThere
  <2>7. AllRows'
    <3> SUFFICES ASSUME ~Does("killed"), NEW g \in folders', NEW n \in disk[g.path]
                 PROVE  \/ \E w \in videos' : w.parent = g.path /\ w.name = n
                        \/ <<g.path, n>> \in values
      BY <1>1, <2>2 DEF AllRows, Does
    <3>1. \/ \E v \in videos : v.parent = g.path /\ v.name = n
          \/ <<g.path, n>> \in values
      BY <1>1, <2>3 DEF FilesParts, AllRows
    <3> QED
      BY <2>3, <3>1
  <2> QED
    BY <2>4, <2>5, <2>6, <2>7 DEF FilesParts
<1>11. CASE ToFiles \/ OpenFolder \/ Search \/ PlayLastVideo \/ PlayVideo \/ SaveFolders
            \/ UNCHANGED vars
  BY <1>3, <1>11 DEF ToFiles, OpenFolder, Search, PlayLastVideo, PlayVideo, SaveFolders,
                     Execute, card, tables, jobs, vars
<1>12. ~CardChanges
  BY DEF CardChanges, Tidy, Alone
<1>13. CASE ResumeVideo \/ LeaveVideo \/ DestroyVideo
  BY <1>3, <1>13 DEF ResumeVideo, LeaveVideo, DestroyVideo, card, tables, jobs
<1>14. CASE Killed
  <2>1. /\ Does("killed") /\ Does("killed")' /\ values' = {}
        /\ UNCHANGED <<disk, folders, videos>>
    BY <1>1, <1>14 DEF Killed, Restart, Does, card, tables
  <2> QED
    BY <1>1, <2>1 DEF FilesParts, FilesThere, FilesOnce, ValuesThere, AllRows
<1> QED
  BY <1>4, <1>5, <1>6, <1>7, <1>8, <1>9, <1>10, <1>11, <1>12, <1>13, <1>14
  DEF Next, FolderScreen, VideoScreens

\* The rows of the folders are their files, and lists show rows.
LEMMA FilesHold ==
  ASSUME AllWait
  PROVE  Spec => [](FilesInv /\ ItemsInv /\ ListingInv)
<1>1. Init => ListedInv /\ OrphansInv /\ ItemsInv /\ ListingInv /\ FilesInv
  BY DEF Init, ListedInv, OrphansInv, NoOrphans, ValuesInv, ItemsInv, ListingInv,
         FilesInv, FilesThere, FilesOnce, ValuesThere, AllRows
<1>2. Basics /\ TasksInv /\ ListedInv /\ OrphansInv /\ FoldersInv
      /\ ItemsInv /\ ListingInv /\ FilesInv /\ [Next]_vars
      => ListedInv' /\ OrphansInv' /\ ItemsInv' /\ ListingInv' /\ FilesInv'
  BY ListedStep, OrphansStep, ItemsStep, ListingStep, FilesStep
<1> QED
  BY <1>1, <1>2, BasicsHold, QueueInOrder, FoldersHold, PTL DEF Spec

(* No directory and no file is in the tables twice, however saves, reloads, *)
(* erasures and renames overlap.                                            *)
THEOREM FoldersAndFilesOnce ==
  ASSUME AllWait
  PROVE  Spec => []RowsDistinct
<1>1. FoldersInv /\ FilesInv => RowsDistinct
  BY DEF FoldersInv, FoldersOnce, FilesInv, FilesOnce, Tidy, Alone, RowsDistinct
<1> QED
  BY <1>1, FoldersHold, FilesHold, PTL

(* When no task is left, every row of a video names a file on the card.     *)
THEOREM VideosAreFiles ==
  ASSUME AllWait
  PROVE  Spec => []RowsHaveFiles
<1>1. FilesInv => RowsHaveFiles
  BY DEF FilesInv, FilesThere, Tidy, Alone, RowsHaveFiles
<1> QED
  BY <1>1, FilesHold, PTL

-----------------------------------------------------------------------------
(* The counts of the folder screen.                                         *)

Counted == \A f \in folders : f.count = Cardinality(disk[f.path])

\* A refresh counts the files of all folders, or those it does not count were right.
LEMMA RefreshCounts ==
  ASSUME Basics, TasksInv, ListedInv, FoldersParts, Tidy, ~Does("killed"), CountInv,
         Refresh \/ ReturnToFolders \/ LeaveLastVideo
  PROVE  Counted'
<1> USE DEF Basics
<1>1. RefreshList /\ UNCHANGED disk
  BY DEF Refresh, ReturnToFolders, LeaveLastVideo, card
<1>2. Settled \/ screen # "folders"
  BY FolderScreenWaits DEF Refresh, ReturnToFolders, LeaveLastVideo, Leave
<1>3. \A i \in listed : Known(i)
  BY <1>2, ItemsKnown
<1>4. \A g \in folders' : \E f \in folders :
        /\ f.path = g.path
        /\ f.id \notin ListedIds => g.count = f.count
        /\ f.id \in ListedIds => \E i \in listed : i.id = f.id /\ g.count = getVideoCount(i.path)
  BY <1>1, RefreshEffect
<1> SUFFICES ASSUME NEW g \in folders' PROVE g.count = Cardinality(disk[g.path])
  BY <1>1 DEF Counted
<1>5. PICK f \in folders :
        /\ f.path = g.path
        /\ f.id \notin ListedIds => g.count = f.count
        /\ f.id \in ListedIds => \E i \in listed : i.id = f.id /\ g.count = getVideoCount(i.path)
  BY <1>4
<1>6. CASE f.id \in ListedIds
  <2>1. PICK i \in listed : i.id = f.id /\ g.count = getVideoCount(i.path)
    BY <1>5, <1>6
  <2>2. i.path = f.path
    BY <1>3, <2>1 DEF Known, IdsInv
  <2> QED
    BY <1>5, <2>1, <2>2 DEF getVideoCount
<1>7. CASE f.id \notin ListedIds
  <2>1. screen \in {"folders", "files"}
    BY <1>7 DEF ListedIds, ListedInv, TasksInv
  <2>2. f.count = Cardinality(disk[f.path])
    BY <2>1 DEF CountInv
  <2> QED
    BY <1>5, <1>7, <2>2
<1> QED
  BY <1>6, <1>7

\* The counts, action by action.
LEMMA CountStep ==
  ASSUME Basics, TasksInv, ListedInv, OrphansInv, FoldersInv, CountInv, [Next]_vars
  PROVE  CountInv'
<1> USE DEF Basics
<1> SUFFICES ASSUME Tidy, ~Does("killed"), screen' \in {"folders", "files"} PROVE Counted'
  <2>1. (Tidy' => Tidy) /\ (~Does("killed")' => ~Does("killed"))
    BY DEF Tidy, Alone, Does, Next, vars
  <2> QED
    BY <2>1 DEF CountInv, Counted
<1>1. FoldersParts
  BY DEF FoldersInv, FoldersParts, Tidy
<1>2. screen \in {"folders", "files"} => Counted
  BY DEF CountInv, Counted
<1>3. UNCHANGED <<disk, folders>> /\ screen \in {"folders", "files"} => Counted'
  BY <1>2 DEF Counted
<1>4. CASE Refresh \/ ReturnToFolders \/ LeaveLastVideo
  BY <1>1, <1>4, RefreshCounts
<1>5. CASE FolderNotExist \/ DeleteFolder
  <2>1. screen = "folders" /\ UNCHANGED disk /\ \E i \in listed : DeleteFolders({i})
    BY <1>5 DEF FolderNotExist, DeleteFolder, OnFolders, card
  <2>2. folders' \subseteq folders
    BY <2>1, DeleteEffect
  <2> QED
    BY <1>2, <2>1, <2>2 DEF Counted
<1>6. CASE RenameFolder
  <2>1. PICK i \in listed, new \in Paths : RenamedTo(i, new)
    BY <1>1, <1>6, RenamedFolder DEF Tidy
  <2>2. Counted
    BY <1>2, <1>6 DEF RenameFolder, OnFolders
  <2>3. \A f \in folders : disk[f.path] = disk'[IF f.path = i.path THEN new ELSE f.path]
    BY <2>1 DEF RenamedTo
  <2> SUFFICES ASSUME NEW g \in folders' PROVE g.count = Cardinality(disk'[g.path])
    BY DEF Counted
  <2>4. PICK f \in folders : /\ f.count = g.count
                             /\ g.path = IF f.path = i.path THEN new ELSE f.path
    BY <2>1 DEF RenamedTo
  <2>5. disk'[g.path] = disk[f.path]
    BY <2>3, <2>4
  <2> QED
    BY <2>2, <2>4, <2>5 DEF Counted
<1>7. CASE ToFiles \/ SaveFolders \/ DestroyVideo \/ UNCHANGED vars
  BY <1>3, <1>7 DEF ToFiles, SaveFolders, DestroyVideo, card, tables, ui, vars
<1>8. CASE OpenFolder \/ Search \/ PlayVideo \/ PlayLastVideo \/ DeleteVideo \/ RenameVideo
           \/ PlayOtherVideo \/ PauseVideo \/ ResumeVideo \/ LeaveVideo
  <2>1. screen' \in {"list", "video", "paused"}
    BY <1>8 DEF OpenFolder, Search, PlayVideo, PlayLastVideo, DeleteVideo, RenameVideo, OnList,
                PlayOtherVideo, PauseVideo, ResumeVideo, LeaveVideo
  <2> QED
    BY <2>1
<1>9. CASE RunTask
  <2>1. ~Settled
    BY <1>9 DEF RunTask, Settled
  <2>2. screen \in {"folders", "files"} /\ Counted
    BY <1>2, <2>1 DEF TasksInv
  <2>3. 1 \in DOMAIN tasks /\ Task = tasks[1]
    BY <2>1, HeadTask
  <2>4. CASE LoadFolders \/ InsertAll \/ Saved
    BY <1>3, <2>2, <2>4 DEF LoadFolders, InsertAll, Saved, card, tables
  <2>5. CASE SaveFolder
    <3>1. UNCHANGED disk
      BY <2>5 DEF SaveFolder, card
    <3>2. UNCHANGED folders
          \/ \E p \in Task.paths, f \in FolderRow :
               folders' = folders \cup {f} /\ f.path = p /\ f.count = getVideoCount(p)
      BY <2>1, <2>5, SaveEffect
    <3> QED
      BY <2>2, <3>1, <3>2 DEF Counted, getVideoCount
  <2>6. CASE SaveDies
    BY <1>1, <2>3, <2>6 DEF SaveDies, FoldersParts, TasksFit
  <2>7. CASE EraseFiles
    <3>1. /\ UNCHANGED folders /\ tasks[1].kind = "erase"
          /\ RemoveDirectories(tasks[1].paths)
      BY <2>3, <2>7 DEF EraseFiles, tables
    <3>2. ASSUME NEW f \in folders PROVE disk'[f.path] = disk[f.path]
      <4>1. f.path \in Paths /\ (\A d \in tasks[1].paths : ~Within(f.path, d)) /\ CardTypes
        BY <1>1, <2>3, <3>1, TypesInParts DEF FoldersParts, TasksFit, TypeInv, TypeOK
      <4> QED
        BY <3>1, <4>1, RemoveEffect
    <3> QED
      BY <2>2, <3>1, <3>2 DEF Counted
  <2> QED
    BY <1>9, <2>4, <2>5, <2>6, <2>7 DEF RunTask
<1>10. ~CardChanges
  BY DEF CardChanges, Tidy, Alone
<1> QED
  BY <1>4, <1>5, <1>6, <1>7, <1>8, <1>9, <1>10 DEF Next, FolderScreen, VideoScreens, Killed

\* The rows of a folder are as many as its files.
LEMMA RowsForFiles ==
  ASSUME Basics, TasksInv, FilesParts, ~Does("killed"), Settled, NEW f \in folders
  PROVE  Cardinality(RowsOf(f.path)) = Cardinality(disk[f.path])
<1> DEFINE p == f.path
           R == RowsOf(p)
           D == disk[p]
           name == [v \in R |-> v.name]
<1>1. p \in Paths /\ D \in SUBSET Names /\ R = {v \in videos : v.parent = p}
  BY DEF Basics, TypeInv, TypeOK, RowsOf
<1>2. IsFiniteSet(D)
  BY <1>1, LibraryAssumption, FS_Subset
<1>3. /\ \A v \in R : v.name \in D
      /\ \A v, w \in R : v.name = w.name => v = w
  BY <1>1 DEF FilesParts, FilesThere, FilesOnce
<1>4. \A n \in D : \E v \in R : v.name = n
  <2>1. values = {}
    BY DEF TasksInv
  <2> QED
    BY <1>1, <2>1 DEF FilesParts, AllRows
<1> HIDE DEF R, D
<1>5. name \in Injection(R, D) /\ name \in Surjection(R, D)
  BY <1>3, <1>4 DEF Injection, Surjection, IsInjective
<1>6. Cardinality(R) = Cardinality(D)
  BY <1>2, <1>5, FS_Injection
<1> QED
  BY <1>6 DEF R, D

(* The folder screen shows for each folder how many videos it has, in the   *)
(* table and on the card.                                                   *)
THEOREM CountsAreRight ==
  ASSUME AllWait
  PROVE  Spec => []CountAgrees
<1>1. Init => ListedInv /\ OrphansInv /\ CountInv
  BY DEF Init, ListedInv, OrphansInv, NoOrphans, ValuesInv, CountInv
<1>2. Basics /\ TasksInv /\ ListedInv /\ OrphansInv /\ FoldersInv /\ CountInv /\ [Next]_vars
      => ListedInv' /\ OrphansInv' /\ CountInv'
  BY ListedStep, OrphansStep, CountStep
<1>3. Basics /\ TasksInv /\ FilesInv /\ CountInv => CountAgrees
  <2> SUFFICES ASSUME Basics, TasksInv, FilesInv, CountInv, Tidy, ~Does("killed"),
                      screen = "folders", Settled, NEW f \in folders
               PROVE  /\ f.count = Cardinality(disk[f.path])
                      /\ f.count = Cardinality(RowsOf(f.path))
    BY DEF CountAgrees, Tidy, Alone, Settled
  <2>1. f.count = Cardinality(disk[f.path]) /\ FilesParts
    BY DEF CountInv, FilesInv, FilesParts
  <2> QED
    BY <2>1, RowsForFiles
<1> QED
  BY <1>1, <1>2, <1>3, BasicsHold, QueueInOrder, FoldersHold, FilesHold, PTL DEF Spec

-----------------------------------------------------------------------------
(* The marks of the last video and of its folder.                           *)

\* The two marks, action by action.
LEMMA RecentAgreesStep ==
  ASSUME Basics, TasksInv, ListedInv, OrphansInv, FoldersInv, ItemsInv, ListingInv,
         RecentAgrees, [Next]_vars
  PROVE  RecentAgrees'
<1> USE DEF Basics
<1> DEFINE Marked == \A v \in videos :
                       v.recent = 1 => \E f \in folders : f.recent = 1 /\ f.path = v.parent
<1> SUFFICES ASSUME Tidy, ~Does("last") PROVE Marked'
  BY DEF RecentAgrees, Tidy, Alone, Does, Next, vars
<1>1. FoldersParts /\ Marked
  BY DEF FoldersInv, FoldersParts, RecentAgrees, Tidy, Alone
<1>2. CASE UNCHANGED tables
  BY <1>1, <1>2 DEF tables
<1>3. CASE Refresh \/ ReturnToFolders \/ LeaveLastVideo
  <2>1. RefreshList
    BY <1>3 DEF Refresh, ReturnToFolders, LeaveLastVideo
  <2>2. Settled \/ screen # "folders"
    BY <1>3, FolderScreenWaits DEF Refresh, ReturnToFolders, LeaveLastVideo, Leave
  <2>3. GoneIds = {}
    BY <1>1, <2>2, ItemsKnown, NothingGone DEF FoldersParts
  <2>4. /\ \A f \in folders : \E g \in folders' : f.path = g.path /\ f.recent = g.recent
        /\ videos' = Stays \cup Numbered(New) /\ New \in SUBSET (Paths \X Names) /\ Room(New)
    BY <2>1, <2>3, RefreshEffect
  <2>5. ASSUME NEW v \in videos', v.recent = 1 PROVE v \in videos
    <3>1. \A w \in Numbered(New) : w.recent = 0
      BY <2>4, RowsAreNew
    <3>2. v \notin Numbered(New)
      BY <2>5, <3>1
    <3> QED
      BY <2>4, <3>2 DEF Stays
  <2> QED
    BY <1>1, <2>4, <2>5
<1>4. CASE FolderNotExist \/ DeleteFolder
  <2>1. OnFolders
    BY <1>4 DEF FolderNotExist, DeleteFolder
  <2>2. PICK i \in listed : DeleteFolders({i})
    BY <1>4 DEF FolderNotExist, DeleteFolder
  <2>3. PICK e \in folders : e.id = i.id /\ e.path = i.path
    BY <2>1, FolderScreenWaits, ItemsKnown DEF Known
  <2>4. /\ folders' = {f \in folders : f.id # i.id}
        /\ videos' = {v \in videos : v.parent # i.path}
    BY <2>2, DeleteEffect
  <2>5. \A f \in folders : f.path # i.path => f \in folders'
    BY <2>3, <2>4 DEF IdsInv
  <2> QED
    BY <1>1, <2>4, <2>5
<1>5. CASE RenameFolder
  <2>1. PICK i \in listed, new \in Paths : RenamedTo(i, new)
    BY <1>1, <1>5, RenamedFolder DEF Tidy
  <2> SUFFICES ASSUME NEW w \in videos', w.recent = 1
               PROVE  \E g \in folders' : g.recent = 1 /\ g.path = w.parent
    OBVIOUS
  <2>2. PICK v \in videos : /\ v.recent = w.recent
                            /\ w.parent = IF v.parent = i.path THEN new ELSE v.parent
    BY <2>1 DEF RenamedTo
  <2>3. PICK f \in folders : f.recent = 1 /\ f.path = v.parent
    BY <1>1, <2>2
  <2>4. PICK g \in folders' : /\ f.recent = g.recent
                              /\ g.path = IF f.path = i.path THEN new ELSE f.path
    BY <2>1 DEF RenamedTo
  <2> QED
    BY <2>2, <2>3, <2>4
<1>6. CASE DeleteVideo
  BY <1>1, <1>6 DEF DeleteVideo
<1>7. CASE RenameVideo
  <2>1. UNCHANGED folders
    BY <1>7 DEF RenameVideo
  <2>2. PICK i \in items, n \in Names : videos' = Renamed(i, n)
    BY <1>7 DEF RenameVideo, Renamed
  <2>3. \A w \in videos' : \E v \in videos : v.parent = w.parent /\ v.recent = w.recent
    BY <2>1, <2>2, RenameVideoEffect
  <2> QED
    BY <1>1, <2>1, <2>3
<1>8. CASE PlayOtherVideo \/ PauseVideo
  <2>1. PICK i \in items : updatePlayedTime(i)
    BY <1>8 DEF PlayOtherVideo, PauseVideo
  <2>2. screen = "video" /\ listing.by = "folder"
    BY <1>8 DEF PlayOtherVideo, PauseVideo, ListingInv, Tidy
  <2>3. PICK e \in videos : e.id = i.id /\ e.parent = i.parent
    BY <2>2 DEF ItemsInv
  <2>4. /\ \A f \in folders : \E g \in folders' :
             f.path = g.path /\ (g.recent = 1 <=> f.path = i.parent)
        /\ \A w \in videos' : \E v \in videos :
             v.id = w.id /\ v.parent = w.parent /\ (w.recent = 1 <=> v.id = i.id)
    BY <2>1, PlayEffect
  <2>5. PICK f \in folders : f.path = e.parent
    BY DEF OrphansInv, NoOrphans
  <2>6. \A w \in videos' : w.recent = 1 => w.parent = i.parent
    BY <2>3, <2>4 DEF IdsInv
  <2> QED
    BY <2>3, <2>4, <2>5, <2>6
<1>9. CASE RunTask
  <2>1. ~Settled
    BY <1>9 DEF RunTask, Settled
  <2>2. CASE LoadFolders \/ Saved \/ SaveDies \/ EraseFiles
    BY <1>2, <2>2 DEF LoadFolders, Saved, SaveDies, Restart, EraseFiles
  <2>3. CASE SaveFolder
    <3>1. UNCHANGED videos
      BY <2>3 DEF SaveFolder
    <3>2. folders \subseteq folders'
      BY <2>1, <2>3, SaveEffect
    <3> QED
      BY <1>1, <3>1, <3>2
  <2>4. CASE InsertAll
    <3>1. /\ UNCHANGED folders
          /\ videos' = videos \cup Numbered(values) /\ Room(values)
      BY <2>4 DEF InsertAll
    <3>2. \A v \in Numbered(values) : v.recent = 0
      BY <3>1, RowsAreNew DEF QueueTypes
    <3> QED
      BY <1>1, <3>1, <3>2
  <2> QED
    BY <1>9, <2>2, <2>3, <2>4 DEF RunTask
<1>10. CASE ToFiles \/ OpenFolder \/ Search \/ PlayLastVideo \/ PlayVideo \/ SaveFolders
            \/ CardChanges \/ UNCHANGED vars
  BY <1>2, <1>10 DEF ToFiles, OpenFolder, Search, PlayLastVideo, PlayVideo, SaveFolders,
                     CardChanges, vars
<1>11. CASE ResumeVideo \/ LeaveVideo \/ DestroyVideo \/ Killed
  BY <1>2, <1>11 DEF ResumeVideo, LeaveVideo, DestroyVideo, Killed, Restart
<1> QED
  BY <1>3, <1>4, <1>5, <1>6, <1>7, <1>8, <1>9, <1>10, <1>11 DEF Next, FolderScreen, VideoScreens

(* Played from the lists of their folders, the video marked as the last one *)
(* lies in a folder that is marked.                                         *)
THEOREM MarksAgree ==
  ASSUME AllWait
  PROVE  Spec => []RecentAgrees
<1>1. Init => ListedInv /\ OrphansInv /\ RecentAgrees
  BY DEF Init, ListedInv, OrphansInv, NoOrphans, ValuesInv, RecentAgrees
<1>2. Basics /\ TasksInv /\ ListedInv /\ OrphansInv /\ FoldersInv /\ ItemsInv /\ ListingInv
      /\ RecentAgrees /\ [Next]_vars
      => ListedInv' /\ OrphansInv' /\ RecentAgrees'
  BY ListedStep, OrphansStep, RecentAgreesStep
<1> QED
  BY <1>1, <1>2, BasicsHold, QueueInOrder, FoldersHold, FilesHold, PTL DEF Spec

-----------------------------------------------------------------------------
(* How the list of folders is filled while LoadFolders is at work           *)
(* (FolderList, a system of its own beside this one): for any folders and   *)
(* any number of refreshes.                                                 *)

CONSTANTS Folders, Quick
VARIABLES table, shown, waiting, task, rows, published
Loading == INSTANCE FolderList WITH folders <- shown

\* What no task has yet to read is on its way to the list or in it.
OnItsWay ==
  /\ task \in {"none", "clear", "query"} => rows = {}
  /\ waiting = 0 /\ task \in {"none", "publish"} =>
       \A f \in table : f \in rows \/ published[f] > 0 \/ shown[f] > 0

\* Where nobody refreshes before the list is there, only one task is at work
\* and it starts from an empty list.
OneTask ==
  /\ waiting > 0 => waiting = 1 /\ task = "none"
  /\ waiting > 0 \/ task \in {"clear", "query"} => \A f \in Folders : published[f] = 0
  /\ task = "query" => \A f \in Folders : shown[f] = 0
  /\ rows \subseteq table
  /\ waiting = 0 /\ task \in {"none", "publish"} =>
       \A f \in Folders : shown[f] + published[f] = IF f \in table \ rows THEN 1 ELSE 0

(* The table, the list and the messages keep their types.                   *)
THEOREM ListTypeCorrect == Loading!Spec => []Loading!TypeOK
<1>1. Loading!Init => Loading!TypeOK
  BY DEF Loading!Init, Loading!TypeOK
<1>2. Loading!TypeOK /\ [Loading!Next]_Loading!vars => Loading!TypeOK'
  <2> SUFFICES ASSUME Loading!TypeOK, [Loading!Next]_Loading!vars PROVE Loading!TypeOK'
    OBVIOUS
  <2> USE DEF Loading!TypeOK
  <2>1. CASE Loading!refreshList
    BY <2>1 DEF Loading!refreshList, Loading!QueueTask
  <2>2. CASE Loading!Begin
    BY <2>2 DEF Loading!Begin
  <2>3. CASE Loading!Clear
    BY <2>3 DEF Loading!Clear, Loading!Cleared
  <2>4. CASE Loading!Query
    BY <2>4 DEF Loading!Query
  <2>5. CASE Loading!Publish
    BY <2>5 DEF Loading!Publish
  <2>6. CASE Loading!End
    BY <2>6 DEF Loading!End
  <2>7. ASSUME NEW f \in Folders, Loading!Add(f) PROVE Loading!TypeOK'
    BY <2>7 DEF Loading!Add
  <2>8. CASE UNCHANGED Loading!vars
    BY <2>8 DEF Loading!vars
  <2> QED
    BY <2>1, <2>2, <2>3, <2>4, <2>5, <2>6, <2>7, <2>8 DEF Loading!Next, Loading!Reload
<1> QED
  BY <1>1, <1>2, PTL DEF Loading!Spec

\* No folder gets lost on its way to the list.
LEMMA StepKeepsOnItsWay ==
  Loading!TypeOK /\ Loading!TypeOK' /\ OnItsWay /\ [Loading!Next]_Loading!vars => OnItsWay'
<1> SUFFICES ASSUME Loading!TypeOK, Loading!TypeOK', OnItsWay, [Loading!Next]_Loading!vars
             PROVE  OnItsWay'
  OBVIOUS
<1> USE DEF Loading!TypeOK, OnItsWay
<1>1. CASE Loading!refreshList
  BY <1>1 DEF Loading!refreshList, Loading!QueueTask
<1>2. CASE Loading!Begin
  BY <1>2 DEF Loading!Begin
<1>3. CASE Loading!Clear
  BY <1>3 DEF Loading!Clear, Loading!Cleared
<1>4. CASE Loading!Query
  BY <1>4 DEF Loading!Query
<1>5. CASE Loading!Publish
  BY <1>5 DEF Loading!Publish
<1>6. CASE Loading!End
  BY <1>6 DEF Loading!End
<1>7. ASSUME NEW f \in Folders, Loading!Add(f) PROVE OnItsWay'
  BY <1>7 DEF Loading!Add
<1>8. CASE UNCHANGED Loading!vars
  BY <1>8 DEF Loading!vars
<1> QED
  BY <1>1, <1>2, <1>3, <1>4, <1>5, <1>6, <1>7, <1>8 DEF Loading!Next, Loading!Reload

(* However refreshes overlap, no folder of the table stays out of the list. *)
THEOREM NoFolderIsMissing == Loading!Spec => []Loading!NothingMissing
<1>1. Loading!Init => OnItsWay
  BY DEF Loading!Init, OnItsWay
<1>2. Loading!TypeOK /\ OnItsWay => Loading!NothingMissing
  <2> SUFFICES ASSUME Loading!TypeOK, OnItsWay, Loading!Quiet, NEW f \in table
               PROVE  shown[f] > 0
    BY DEF Loading!NothingMissing
  <2>1. f \in Folders /\ published[f] = 0 /\ rows = {}
    BY DEF Loading!TypeOK, OnItsWay, Loading!Quiet
  <2>2. f \in rows \/ published[f] > 0 \/ shown[f] > 0
    BY DEF OnItsWay, Loading!Quiet
  <2> QED
    BY <2>1, <2>2
<1> QED
  BY <1>1, <1>2, ListTypeCorrect, StepKeepsOnItsWay, PTL DEF Loading!Spec

\* One task at a time counts each folder once.
LEMMA StepKeepsOneTask ==
  ASSUME Quick = FALSE
  PROVE  Loading!TypeOK /\ Loading!TypeOK' /\ OnItsWay /\ OneTask
         /\ [Loading!Next]_Loading!vars => OneTask'
<1> SUFFICES ASSUME Loading!TypeOK, Loading!TypeOK', OnItsWay, OneTask,
                    [Loading!Next]_Loading!vars
             PROVE  OneTask'
  OBVIOUS
<1> USE DEF Loading!TypeOK, OneTask, OnItsWay
<1>1. CASE Loading!refreshList
  <2>1. Loading!Quiet
    BY <1>1 DEF Loading!refreshList
  <2> QED
    BY <1>1, <2>1 DEF Loading!refreshList, Loading!QueueTask, Loading!Quiet
<1>2. CASE Loading!Begin
  BY <1>2 DEF Loading!Begin
<1>3. CASE Loading!Clear
  BY <1>3 DEF Loading!Clear, Loading!Cleared
<1>4. CASE Loading!Query
  <2>1. waiting = 0 /\ waiting' = 0 /\ task' = "publish" /\ rows' = table'
    BY <1>4 DEF Loading!Query
  <2>2. \A f \in Folders : shown'[f] = 0 /\ published'[f] = 0
    BY <1>4 DEF Loading!Query
  <2>3. \A f \in Folders : f \notin table' \ rows'
    BY <2>1
  <2>4. \A f \in Folders : shown'[f] + published'[f] = IF f \in table' \ rows' THEN 1 ELSE 0
    BY <2>2, <2>3
  <2> QED
    BY <2>1, <2>4
<1>5. CASE Loading!Publish
  <2>1. PICK g \in rows : /\ rows' = rows \ {g}
                         /\ published' = [published EXCEPT ![g] = @ + 1]
    BY <1>5 DEF Loading!Publish
  <2>2. task = "publish" /\ waiting = 0 /\ UNCHANGED <<table, shown, waiting, task>>
    BY <1>5 DEF Loading!Publish
  <2>3. ASSUME NEW f \in Folders
        PROVE  shown'[f] + published'[f] = IF f \in table' \ rows' THEN 1 ELSE 0
    <3>1. shown[f] + published[f] = IF f \in table \ rows THEN 1 ELSE 0
      BY <2>2
    <3>2. CASE f = g
      <4>1. f \in rows /\ g \in Folders /\ shown[f] + published[f] = 0
        BY <3>1, <3>2
      <4>2. published'[f] = published[f] + 1 /\ shown'[f] = shown[f]
        BY <2>1, <2>2, <3>2
      <4> QED
        BY <4>1, <4>2, <3>2, <2>1, <2>2
    <3>3. CASE f # g
      BY <3>1, <3>3, <2>1, <2>2
    <3> QED
      BY <3>2, <3>3
  <2>4. rows' \subseteq table'
    BY <2>1, <2>2
  <2> QED
    BY <2>2, <2>3, <2>4
<1>6. CASE Loading!End
  BY <1>6 DEF Loading!End
<1>7. ASSUME NEW f \in Folders, Loading!Add(f) PROVE OneTask'
  BY <1>7 DEF Loading!Add
<1>8. CASE UNCHANGED Loading!vars
  BY <1>8 DEF Loading!vars
<1> QED
  BY <1>1, <1>2, <1>3, <1>4, <1>5, <1>6, <1>7, <1>8 DEF Loading!Next, Loading!Reload

(* When nobody refreshes before the list is there, it shows the table: each *)
(* folder once and no other.                                                *)
THEOREM ListIsExact ==
  ASSUME Quick = FALSE
  PROVE  Loading!Spec => []Loading!ListIsTable
<1>1. Loading!Init => OnItsWay /\ OneTask
  BY DEF Loading!Init, OnItsWay, OneTask
<1>2. Loading!TypeOK /\ OnItsWay /\ OneTask => Loading!ListIsTable
  <2> SUFFICES ASSUME Loading!TypeOK, OnItsWay, OneTask, Loading!Quiet, NEW f \in Folders
               PROVE  shown[f] = IF f \in table THEN 1 ELSE 0
    BY DEF Loading!ListIsTable
  <2>1. published[f] = 0 /\ rows = {} /\ shown[f] \in Nat
    BY DEF Loading!TypeOK, OnItsWay, Loading!Quiet
  <2>2. shown[f] + published[f] = IF f \in table \ rows THEN 1 ELSE 0
    BY DEF OneTask, Loading!Quiet
  <2> QED
    BY <2>1, <2>2
<1> QED
  BY <1>1, <1>2, ListTypeCorrect, StepKeepsOnItsWay, StepKeepsOneTask, PTL DEF Loading!Spec

=============================================================================
