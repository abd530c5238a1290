------------------------------ MODULE PlayerUi ------------------------------
(***************************************************************************)
(* The playing screen, VideoActivity, and its FFmpegPlayer: what the user  *)
(* and the system do on the UI thread, the AsyncTasks in which FFmpegPlayer*)
(* calls the native player, and their results, which come back to the UI   *)
(* thread one by one.                                                      *)
(*                                                                         *)
(* A native operation holds mutex_operation from its first to its last     *)
(* step, so a task's call is one step here; PlayerPipeline shows what is   *)
(* inside.  onFFStop and onFFSeeked do nothing and are left out.           *)
(***************************************************************************)
EXTENDS Integers, Sequences, SequencesExt

CONSTANTS
  videoCount,  \* the videos of the folder, numbered from 0
  Progress,    \* the places of the seek bar the user may drag to, in seconds
  None,        \* no source, no seek
  Serial,      \* tasks run one by one (API 11 and later), or in a pool
  MaxActs      \* how often the user and the system act

ASSUME UiAssumption ==
  /\ videoCount \in Nat \ {0} /\ None \notin 0..(videoCount - 1)
  /\ Progress \subseteq Nat
  /\ Serial \in BOOLEAN /\ MaxActs \in Nat

Videos == 0..(videoCount - 1)

VARIABLES
  activity,             \* "shown", "covered" (paused), "hidden" (stopped), "destroyed"
  currentVideoPosition,
  isPlaying,            \* FFmpegPlayer.isPlaying
  button,               \* playOrPauseBtn is enabled
  tasks,                \* the tasks whose native call is still to come
  messages,             \* the results and callbacks posted to the UI thread
  source, paused,       \* the native player
  failed,               \* the last load has failed (not in the program)
  sought,               \* the last seek: what the user asked for, what was passed on
  acts                  \* the steps left to the user and the system

native == <<source, paused, failed>>
vars == <<activity, currentVideoPosition, isPlaying, button, tasks, messages,
          native, sought, acts>>

Load(v)   == [kind |-> "load", video |-> v]
Task(k)   == [kind |-> k, video |-> None]

Tasks == [kind : {"load", "stop", "pause", "resume", "seek"}, video : Videos \cup {None}]
Messages == [kind : {"loaded", "paused", "resumed"}, ok : BOOLEAN]

\* onCreate ends with the first setDataSource.
Init ==
  /\ activity = "shown" /\ currentVideoPosition \in Videos
  /\ isPlaying = FALSE /\ button = TRUE
  /\ tasks = <<Load(currentVideoPosition)>> /\ messages = <<>>
  /\ source = None /\ paused = FALSE /\ failed = FALSE
  /\ sought = [asked |-> None, passed |-> None]
  /\ acts = MaxActs

-----------------------------------------------------------------------------
(* The UI thread acts.                                                     *)

Act == acts > 0 /\ acts' = acts - 1
Execute(new) == tasks' = tasks \o new

NextUnwrapped == currentVideoPosition + 1
NextPosition == (currentVideoPosition + 1) % videoCount
PreviousPosition ==
  IF currentVideoPosition = 0 THEN videoCount - 1 ELSE currentVideoPosition - 1

\* playNextVideo and playPreviousVideo: stop(), then setDataSource().
LoadThenStop(v) == <<Load(v), Task("stop")>>
StopThenLoad(v) == <<Task("stop"), Load(v)>>

PlayOtherVideo ==
  /\ Act /\ activity = "shown"
  /\ \E v \in {NextPosition, PreviousPosition} :
       currentVideoPosition' = v /\ Execute(StopThenLoad(v))
  /\ isPlaying' = FALSE
  /\ UNCHANGED <<activity, button, messages, native, sought>>

resumePause ==
  /\ Act /\ activity = "shown" /\ button
  /\ button' = FALSE
  /\ Execute(<<Task(IF isPlaying THEN "pause" ELSE "resume")>>)
  /\ UNCHANGED <<activity, currentVideoPosition, isPlaying, messages, native, sought>>

\* progress * 1000 * 1000 in int, as a multiple of 64: 15625 * 64 = 1000000
\* and the 32 bits of the product are 26 bits of multiples.
Wrapped(x) == ((x + 2^25) % 2^26) - 2^25
PositionAsFloat(progress) == Wrapped(((progress * 15625) \div 2) * 2)
PositionOf(progress) == Wrapped(progress * 15625)

onProgressChanged ==
  /\ Act /\ activity = "shown"
  /\ \E progress \in Progress :
       sought' = [asked |-> progress * 15625, passed |-> PositionOf(progress)]
  /\ Execute(<<Task("seek")>>)
  /\ UNCHANGED <<activity, currentVideoPosition, isPlaying, button, messages, native>>

onPause ==
  /\ Act /\ activity = "shown"
  /\ activity' = "covered"
  /\ isPlaying' = FALSE
  /\ Execute(IF isPlaying THEN <<Task("pause")>> ELSE <<>>)
  /\ UNCHANGED <<currentVideoPosition, button, messages, native, sought>>

\* onResume does nothing of its own; after onStop it comes with onRestart.
onStop ==
  /\ Act /\ activity = "covered"
  /\ activity' = "hidden"
  /\ UNCHANGED <<currentVideoPosition, isPlaying, button, tasks, messages, native, sought>>

onResume ==
  /\ Act /\ activity = "covered"
  /\ activity' = "shown"
  /\ UNCHANGED <<currentVideoPosition, isPlaying, button, tasks, messages, native, sought>>

onRestart ==
  /\ Act /\ activity = "hidden"
  /\ activity' = "shown"
  /\ Execute(<<Task("resume")>>)
  /\ UNCHANGED <<currentVideoPosition, isPlaying, button, messages, native, sought>>

\* The listener is removed, and renderFrameStop stops the player on this
\* thread; the tasks that are waiting are not cancelled.
onDestroy ==
  /\ Act /\ activity = "hidden"
  /\ activity' = "destroyed"
  /\ messages' = <<>>
  /\ source' = None
  /\ UNCHANGED <<currentVideoPosition, isPlaying, button, tasks, paused, failed, sought>>

UserActs == PlayOtherVideo \/ resumePause \/ onProgressChanged
SystemActs == onPause \/ onStop \/ onResume \/ onRestart \/ onDestroy

-----------------------------------------------------------------------------
(* The tasks: doInBackground, and the post of onPostExecute.               *)

Finish(kind, ok) ==
  messages' = IF activity = "destroyed" THEN messages
              ELSE Append(messages, [kind |-> kind, ok |-> ok])

Call(task) ==
  \/ /\ task.kind = "load" /\ paused' = TRUE
     /\ \E ok \in BOOLEAN :
          /\ source' = IF ok THEN task.video ELSE None
          /\ failed' = ~ok
          /\ Finish("loaded", ok)
  \/ task.kind = "stop" /\ source' = None /\ UNCHANGED <<paused, failed, messages>>
  \/ task.kind = "seek" /\ UNCHANGED <<native, messages>>
  \/ /\ task.kind = "pause" /\ UNCHANGED <<source, failed>>
     /\ paused' = (source # None \/ paused)
     /\ Finish("paused", source # None)
  \/ /\ task.kind = "resume" /\ UNCHANGED <<source, failed>>
     /\ paused' = (source = None /\ paused)
     /\ Finish("resumed", source # None)

RunTask ==
  /\ \E i \in DOMAIN tasks :
       /\ Serial => i = 1
       /\ Call(tasks[i])
       /\ tasks' = RemoveAt(tasks, i)
  /\ UNCHANGED <<activity, currentVideoPosition, isPlaying, button, sought, acts>>

-----------------------------------------------------------------------------
(* The results: FFmpegListener's methods, whatever happened meanwhile.      *)

Toggles(now) == ~isPlaying
Becomes(now) == now
OnlyPlaying(now) == button \/ now
Enabled(now) == TRUE

\* An exception is shown and nothing is resumed.
onFFDataSourceLoaded(ok) ==
  /\ isPlaying' = (ok \/ isPlaying)
  /\ Execute(IF ok THEN <<Task("resume")>> ELSE <<>>)
  /\ UNCHANGED button

\* onFFResume and onFFPause do not look at the exception.
onFFResumeOrPause(now) ==
  /\ isPlaying' = Becomes(now) /\ button' = Enabled(now)
  /\ UNCHANGED tasks

Deliver ==
  /\ messages # <<>>
  /\ messages' = Tail(messages)
  /\ LET m == Head(messages) IN
       \/ m.kind = "loaded" /\ onFFDataSourceLoaded(m.ok)
       \/ m.kind = "resumed" /\ onFFResumeOrPause(TRUE)
       \/ m.kind = "paused" /\ onFFResumeOrPause(FALSE)
  /\ UNCHANGED <<activity, currentVideoPosition, native, sought, acts>>

-----------------------------------------------------------------------------
Next == UserActs \/ SystemActs \/ RunTask \/ Deliver

Spec == Init /\ [][Next]_vars

\* The executor runs what it is given and the UI thread handles what is
\* posted; native calls return (PlayerPipeline).  Nobody has to act.
FairSpec == Spec /\ WF_vars(RunTask) /\ WF_vars(Deliver)

-----------------------------------------------------------------------------
(* Properties.                                                             *)

TypeOK ==
  /\ activity \in {"shown", "covered", "hidden", "destroyed"}
  /\ currentVideoPosition \in Videos
  /\ isPlaying \in BOOLEAN /\ button \in BOOLEAN
  /\ tasks \in Seq(Tasks) /\ messages \in Seq(Messages)
  /\ source \in Videos \cup {None} /\ paused \in BOOLEAN /\ failed \in BOOLEAN
  /\ acts \in 0..MaxActs

Alive == activity # "destroyed"

\* No task and no result is on its way.
Quiet == tasks = <<>> /\ messages = <<>>

(* What plays is the video whose name the screen shows, however often next  *)
(* and previous were pressed while sources were loading ("set the source,   *)
(* play the video", VideoActivity.java:337); nothing plays if it could not  *)
(* be loaded.                                                               *)
PlaysWhatIsShown ==
  Alive /\ Quiet => source = IF failed THEN None ELSE currentVideoPosition

(* isPlaying is the state of the player ("playing state",                   *)
(* FFmpegPlayer.java:192), once everything has settled, unless the last     *)
(* load failed: onFFResume does not look at its exception.                  *)
FlagAgrees == Alive /\ Quiet /\ ~failed => isPlaying = (source # None /\ ~paused)

(* A screen that is not in front is paused (VideoActivity.java:297 takes    *)
(* isPlaying for "is playing").                                             *)
(* The code does not keep this: README.md, section 4.                       *)
SilentWhenCovered ==
  activity \in {"covered", "hidden"} /\ Quiet => source = None \/ paused

(* A seek goes where the bar was dragged to, while the product fits in an   *)
(* int, that is for 35 minutes.                                             *)
LongestSeek == 2147
SeekIsExact ==
  sought.asked # None /\ sought.asked <= LongestSeek * 15625 => sought.passed = sought.asked

(* The play button comes back.                                              *)
ButtonComesBack == ~button ~> button \/ ~Alive
=============================================================================
