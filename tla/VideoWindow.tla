---------------------------- MODULE VideoWindow ----------------------------
(***************************************************************************)
(* The window of the video: jni_player_render and                          *)
(* jni_player_render_frame_stop on the UI thread, the video decoder that   *)
(* locks the window for every frame, and the background thread that loads  *)
(* another source, of jni/player.c, with the two callers of the former in  *)
(* FFmpegSurfaceView and VideoActivity.                                    *)
(*                                                                         *)
(* Of the player there is only what decides who may use the window, and    *)
(* how long a stop takes: the holder of mutex_operation, stop, pause, the  *)
(* two decoders and the reader that asks them to stop.  A step of one      *)
(* thread under mutex_queue is one action.  Threads that cannot be created *)
(* or attached are left to PlayerPipeline.                                 *)
(***************************************************************************)
EXTENDS Naturals

CONSTANTS
  Windows,   \* the native windows the surface of the activity may get
  NoWindow,  \* NULL
  MaxLoads   \* how many sources the app asks for

ASSUME WindowAssumption == NoWindow \notin Windows /\ MaxLoads \in Nat

VARIABLES
  surface,   \* the native window of the surface while there is one
  created,   \* the windows a surface has had
  window,    \* player->window
  refs,      \* the references the player has taken on each window
  ui,        \* where the UI thread is
  task,      \* where the thread that runs set_data_source is
  loads,     \* the sources still to be asked for
  op,        \* who holds mutex_operation
  playing, stop, pause,
  decoder,   \* where the video decoder is
  held,      \* the window whose buffer it has locked
  sound,     \* where the audio decoder is
  reader,    \* where player_read_from_stream is
  stop_streams \* the streams asked to stop that have not answered

surfaceVars == <<surface, created>>
windowVars  == <<window, refs>>
playerVars  == <<playing, stop, pause>>
decoderVars == <<decoder, held>>
readerVars  == <<sound, reader, stop_streams>>
taskVars    == <<task, loads>>
vars == <<surfaceVars, windowVars, ui, taskVars, op, playerVars, decoderVars, readerVars>>

Init ==
  /\ surface = NoWindow /\ created = {}
  /\ window = NoWindow /\ refs = [w \in Windows |-> 0]
  /\ ui = "ready" /\ task = "idle" /\ loads = MaxLoads /\ op = "free"
  /\ playing = FALSE /\ stop = TRUE /\ pause = FALSE
  /\ decoder = "none" /\ held = NoWindow
  /\ sound = "none" /\ reader = "none" /\ stop_streams = {}

-----------------------------------------------------------------------------
(* The UI thread.                                                          *)

\* ANativeWindow_fromSurface takes a reference, ANativeWindow_acquire another.
FromSurfaceOnly == 1
FromSurfaceAndAcquire == 2

\* surfaceCreated -> jni_player_render; surfaceChanged could have called it too,
\* for a surface that only got another size.
NewSurfaces == IF surface = NoWindow THEN Windows \ created ELSE {}

SurfaceCreated ==
  /\ ui = "ready"
  /\ \E w \in NewSurfaces :
       /\ surface' = w /\ created' = created \cup {w}
       /\ window' = w
       /\ refs' = [refs EXCEPT ![w] = @ + FromSurfaceAndAcquire]
  /\ UNCHANGED <<ui, taskVars, op, playerVars, decoderVars, readerVars>>

\* The end of jni_player_render_frame_stop, under mutex_queue.
ReleaseWindow ==
  /\ window # NoWindow
  /\ refs' = [refs EXCEPT ![window] = @ - 1]
  /\ window' = NoWindow

\* What surfaceDestroyed does.
KeepWindow == UNCHANGED windowVars

\* The surface goes when the activity is hidden.
SurfaceDestroyed ==
  /\ surface # NoWindow
  /\ surface' = NoWindow
  /\ KeepWindow
  /\ UNCHANGED <<created, ui, taskVars, op, playerVars, decoderVars, readerVars>>

\* onDestroy -> renderFrameStop -> player_stop.
Destroy ==
  /\ ui = "ready"
  /\ ui' = "stopping"
  /\ UNCHANGED <<surfaceVars, windowVars, taskVars, op, playerVars, decoderVars, readerVars>>

StopPlayer ==
  /\ ui = "stopping" /\ op = "free"
  /\ IF playing
     THEN ui' = "joining" /\ op' = "ui" /\ playing' = FALSE /\ stop' = TRUE
     ELSE ui' = "releasing" /\ UNCHANGED <<op, playing, stop>>
  /\ UNCHANGED <<surfaceVars, windowVars, taskVars, pause, decoderVars, readerVars>>

\* The reader is joined, then the decoders.
Ended ==
  /\ reader \in {"none", "done"}
  /\ decoder \in {"none", "done"} /\ sound \in {"none", "done"}

Join ==
  /\ Ended
  /\ reader' = "none" /\ decoder' = "none" /\ sound' = "none"
  /\ UNCHANGED stop_streams

PlayerStopped ==
  /\ ui = "joining" /\ Join
  /\ ui' = "releasing" /\ op' = "free"
  /\ UNCHANGED <<surfaceVars, windowVars, taskVars, playerVars, held>>

\* Without a window the process exits.
RenderFrameStop ==
  /\ ui = "releasing"
  /\ \/ ReleaseWindow /\ ui' = "gone"
     \/ window = NoWindow /\ ui' = "exit" /\ UNCHANGED windowVars
  /\ UNCHANGED <<surfaceVars, taskVars, op, playerVars, decoderVars, readerVars>>

Alive == ui # "exit"

UIContinues == StopPlayer \/ PlayerStopped \/ RenderFrameStop

-----------------------------------------------------------------------------
(* The tasks of FFmpegPlayer.  One that was queued before onDestroy runs    *)
(* after it all the same.                                                  *)

Ask ==
  /\ Alive /\ ui = "ready" /\ loads > 0 /\ task = "idle"
  /\ loads' = loads - 1 /\ task' = "queued"
  /\ UNCHANGED <<surfaceVars, windowVars, ui, op, playerVars, decoderVars, readerVars>>

SetDataSource ==
  /\ Alive /\ task = "queued" /\ op = "free"
  /\ op' = "task" /\ task' = "joining"
  /\ playing' = FALSE /\ stop' = (stop \/ playing)
  /\ UNCHANGED <<surfaceVars, windowVars, ui, loads, pause, decoderVars, readerVars>>

SourceStopped ==
  /\ Alive /\ task = "joining" /\ Join
  /\ task' = "opening" /\ pause' = TRUE
  /\ UNCHANGED <<surfaceVars, windowVars, ui, loads, op, playing, stop, held>>

SourceOpened ==
  /\ Alive /\ task = "opening"
  /\ \/ /\ playing' = TRUE /\ stop' = FALSE /\ stop_streams' = {}
        /\ decoder' = "pop" /\ sound' = "runs" /\ reader' = "reads"
     \/ UNCHANGED <<playing, stop, decoder, readerVars>>
  /\ task' = "idle" /\ op' = "free"
  /\ UNCHANGED <<surfaceVars, windowVars, ui, loads, pause, held>>

PauseOrResume ==
  /\ Alive /\ op = "free" /\ playing
  /\ pause' = ~pause
  /\ UNCHANGED <<surfaceVars, windowVars, ui, taskVars, op, playing, stop, decoderVars, readerVars>>

TaskContinues == SetDataSource \/ SourceStopped \/ SourceOpened

-----------------------------------------------------------------------------
(* The video decoder: player_decode_video.                                 *)

\* A buffer of the window is locked; without a window, or when the lock
\* fails, the frame is dropped without waiting for its time.
LockFrame ==
  /\ Alive /\ decoder = "pop" /\ window # NoWindow
  /\ decoder' = "locked" /\ held' = window
  /\ UNCHANGED <<surfaceVars, windowVars, ui, taskVars, op, playerVars, readerVars>>

\* player_wait_for_frame; the frame is posted whatever it answered.
Unlock == held' = NoWindow

WaitEndsOnResume == ~pause
WaitEnds == ~pause \/ stop

PostFrame ==
  /\ Alive /\ decoder = "locked" /\ WaitEnds
  /\ decoder' = "pop" /\ Unlock
  /\ UNCHANGED <<surfaceVars, windowVars, ui, taskVars, op, playerVars, readerVars>>

\* A decoder that ends clears its request to stop, if there is one yet.
Answer(stream) == stop_streams' = stop_streams \ {stream}

\* Asked to stop, or on an error.
DecoderEnds ==
  /\ Alive /\ decoder = "pop"
  /\ decoder' = "done" /\ Answer("video")
  /\ UNCHANGED <<surfaceVars, windowVars, ui, taskVars, op, playerVars, held, sound, reader>>

DecoderStops == "video" \in stop_streams /\ DecoderEnds

-----------------------------------------------------------------------------
(* The audio decoder, and the reader: only how they end.                   *)

SoundEnds ==
  /\ Alive /\ sound = "runs"
  /\ sound' = "done" /\ Answer("audio")
  /\ UNCHANGED <<surfaceVars, windowVars, ui, taskVars, op, playerVars, decoderVars, reader>>

SoundStops == "audio" \in stop_streams /\ SoundEnds

\* exit_loop: told to stop, or when av_dup_packet has failed.  Both decoders are
\* asked, also one that has ended already, and waited for.
AskStreams ==
  /\ Alive /\ reader = "reads"
  /\ reader' = "waits" /\ stop_streams' = {"video", "audio"}
  /\ UNCHANGED <<surfaceVars, windowVars, ui, taskVars, op, playerVars, decoderVars, sound>>

ReaderStops == stop /\ AskStreams

ReaderEnds ==
  /\ Alive /\ reader = "waits" /\ stop_streams = {}
  /\ reader' = "done"
  /\ UNCHANGED <<surfaceVars, windowVars, ui, taskVars, op, playerVars, decoderVars,
                 sound, stop_streams>>

-----------------------------------------------------------------------------
Next ==
  \/ SurfaceCreated \/ SurfaceDestroyed \/ Destroy \/ UIContinues
  \/ Ask \/ TaskContinues \/ PauseOrResume
  \/ LockFrame \/ PostFrame \/ DecoderEnds \/ SoundEnds
  \/ AskStreams \/ ReaderEnds

Spec == Init /\ [][Next]_vars

\* Threads that can run do, and sources answer.  The video decoder looks at the
\* request to stop between two frames: strong fairness, because there may be
\* some frames before that.
FairSpec ==
  /\ Spec
  /\ WF_vars(UIContinues) /\ WF_vars(TaskContinues)
  /\ WF_vars(ReaderStops) /\ WF_vars(ReaderEnds)
  /\ WF_vars(PostFrame) /\ SF_vars(DecoderStops) /\ WF_vars(SoundStops)

-----------------------------------------------------------------------------
(* Properties.                                                             *)

TypeOK ==
  /\ surface \in Windows \cup {NoWindow} /\ created \subseteq Windows
  /\ window \in Windows \cup {NoWindow} /\ refs \in [Windows -> 0..2]
  /\ ui \in {"ready", "stopping", "joining", "releasing", "gone", "exit"}
  /\ task \in {"idle", "queued", "joining", "opening"} /\ loads \in 0..MaxLoads
  /\ op \in {"free", "ui", "task"}
  /\ playing \in BOOLEAN /\ stop \in BOOLEAN /\ pause \in BOOLEAN
  /\ decoder \in {"none", "pop", "locked", "done"} /\ held \in Windows \cup {NoWindow}
  /\ sound \in {"none", "runs", "done"} /\ reader \in {"none", "reads", "waits", "done"}
  /\ stop_streams \subseteq {"video", "audio"}

(* The window of a locked buffer is referenced until the buffer is posted,  *)
(* although jni_player_render replaces player->window and                   *)
(* jni_player_render_frame_stop releases it behind the back of a decoder    *)
(* that a queued load has started: the second reference, which nobody ever  *)
(* releases, is what keeps it.                                              *)
LockedIsAlive == held # NoWindow => refs[held] > 0

(* No decoder leaves a buffer locked: the next lock of that window would    *)
(* fail for ever.                                                           *)
EveryLockIsPosted == held # NoWindow <=> decoder = "locked"

(* exit(1) is only reached when the activity never had a surface.           *)
ExitMeansNeverShown == ui = "exit" => created = {}

(* The window is NULL when jni_player_render is called (player.c:2346).     *)
(* The code does not keep this: README.md, section 4.                       *)
RenderFindsNoWindow == [][SurfaceCreated => window = NoWindow]_vars

(* The streams that the reader waits for, or will wait for, although their  *)
(* decoder has ended: no one is left to clear their request.                *)
NeverAnswers ==
  {x \in {"video", "audio"} :
     /\ IF x = "video" THEN decoder = "done" ELSE sound = "done"
     /\ reader = "reads" \/ x \in stop_streams}

(* The UI thread comes back from onDestroy, whatever it finds the player    *)
(* doing, loading another source or paused with a frame locked, unless a    *)
(* decoder has ended on an error before the reader asked it to stop.        *)
DestroyReturns ==
  ui = "stopping" ~> ui \in {"gone", "exit"} \/ NeverAnswers # {}

(* onDestroy always comes back (VideoActivity.java:313).  The code does not *)
(* keep this: README.md, section 4.                                         *)
DestroyAlwaysReturns == ui = "stopping" ~> ui \in {"gone", "exit"}

(* A stream that never answers stays so, and nothing that joins the threads *)
(* gets past it: the exception above is what the code never gets out of.    *)
LostForEver ==
  [][/\ NeverAnswers \subseteq NeverAnswers'
     /\ NeverAnswers # {} => ~PlayerStopped /\ ~SourceStopped]_vars
=============================================================================
