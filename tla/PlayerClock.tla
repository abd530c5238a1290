----------------------------- MODULE PlayerClock -----------------------------
(***************************************************************************)
(* The clock of jni/player.c while a source plays: start_time and          *)
(* pause_time, which pause, resume and seek rewrite, and which a decoder   *)
(* corrects when its frame is late (player_wait_for_frame).  Every access  *)
(* is made with mutex_queue held; a decoder decodes without it.            *)
(*                                                                         *)
(* Times are integers of any unit.  The seek handshake is the one of       *)
(* PlayerPipeline, reduced to the flush requests; a frame is old when its  *)
(* packet was taken before the last seek, a mark the program does not have.*)
(* A stop is seen from its end only: Reload finds every decoder at rest.   *)
(***************************************************************************)
EXTENDS Integers

CONSTANTS
  Streams,
  FrameTimes,  \* when frames are due; the audio adjustment makes some negative
  Targets,     \* positions to seek to
  Late,        \* 300 ms: a frame later than this moves the clock
  MinSleep,    \* MIN_SLEEP_TIME_US: a shorter wait is not worth it
  MaxTime      \* bound of the wall clock

ASSUME ClockAssumption ==
  /\ FrameTimes \subseteq Int /\ Targets \subseteq Int
  /\ Late \in Nat /\ MinSleep \in Nat \ {0} /\ MaxTime \in Nat

VARIABLES
  now,            \* av_gettime
  pause, start_time, pause_time,
  flush_streams,
  seeking,        \* the reader waits for the answers to flush_streams
  target,         \* where the last seek went
  place,          \* of each decoder: "pop", "decode", "wait", "report"
  frame,          \* when the frame it holds is due
  old             \* whether that frame is from before the last seek

clock    == <<pause, start_time, pause_time>>
seekVars == <<flush_streams, seeking, target>>
decoders == <<place, frame, old>>
vars     == <<now, clock, seekVars, decoders>>

\* player_get_current_video_time
Position == IF pause THEN pause_time - start_time ELSE now - start_time

\* A source was just opened: paused at its beginning, nothing decoded.
Init ==
  /\ now = 0
  /\ pause = TRUE /\ start_time = 0 /\ pause_time = 0
  /\ flush_streams = [s \in Streams |-> FALSE] /\ seeking = FALSE
  /\ target \in Targets
  /\ place = [s \in Streams |-> "pop"]
  /\ frame \in [Streams -> FrameTimes]
  /\ old = [s \in Streams |-> FALSE]

Tick ==
  /\ now < MaxTime /\ now' = now + 1
  /\ UNCHANGED <<clock, seekVars, decoders>>

-----------------------------------------------------------------------------
(* The operations.  jni_player_seek keeps mutex_operation until the reader  *)
(* is done, so nobody pauses, resumes or reloads during a seek.             *)

\* The next source: the threads of the last one are gone.
Reload ==
  /\ ~seeking /\ \A s \in Streams : place[s] = "pop"
  /\ pause' = TRUE /\ start_time' = 0 /\ pause_time' = 0
  /\ UNCHANGED <<now, seekVars, decoders>>

Pause ==
  /\ ~seeking /\ ~pause
  /\ pause' = TRUE /\ pause_time' = now
  /\ UNCHANGED <<now, start_time, seekVars, decoders>>

ResumeAtNow ==
  /\ ~seeking /\ pause
  /\ pause' = FALSE
  /\ UNCHANGED <<now, start_time, pause_time, seekVars, decoders>>

Resume ==
  /\ ~seeking /\ pause
  /\ pause' = FALSE /\ start_time' = start_time + (now - pause_time)
  /\ UNCHANGED <<now, pause_time, seekVars, decoders>>

\* seek_loop: set the clock and ask for flushes in one critical section.
SeekWithoutPauseTime ==
  /\ ~seeking
  /\ \E t \in Targets : target' = t /\ start_time' = now - t
  /\ flush_streams' = [s \in Streams |-> TRUE] /\ seeking' = TRUE
  /\ old' = [s \in Streams |-> place[s] # "pop"]
  /\ UNCHANGED <<now, pause, pause_time, place, frame>>

SeekStarts ==
  /\ ~seeking
  /\ \E t \in Targets : target' = t /\ start_time' = now - t
  /\ pause_time' = now
  /\ flush_streams' = [s \in Streams |-> TRUE] /\ seeking' = TRUE
  /\ old' = [s \in Streams |-> place[s] # "pop"]
  /\ UNCHANGED <<now, pause, place, frame>>

SeekEnds ==
  /\ seeking /\ \A s \in Streams : ~flush_streams[s]
  /\ seeking' = FALSE
  /\ UNCHANGED <<now, clock, flush_streams, target, decoders>>

-----------------------------------------------------------------------------
(* The decoder of stream s.                                                 *)

Move(s, to) == place' = [place EXCEPT ![s] = to]

\* During a seek the queues are empty and nobody fills them.
Take(s) ==
  /\ place[s] = "pop" /\ ~seeking
  /\ Move(s, "decode")
  /\ \E t \in FrameTimes : frame' = [frame EXCEPT ![s] = t]
  /\ old' = [old EXCEPT ![s] = FALSE]
  /\ UNCHANGED <<now, clock, seekVars>>

Flush(s) ==
  /\ place[s] = "pop" /\ flush_streams[s]
  /\ flush_streams' = [flush_streams EXCEPT ![s] = FALSE]
  /\ UNCHANGED <<now, clock, seeking, target, decoders>>

\* A frame to wait for, or none.
Decode(s) ==
  /\ place[s] = "decode"
  /\ Move(s, "wait") \/ Move(s, "report")
  /\ UNCHANGED <<now, clock, seekVars, frame, old>>

\* One turn of the loop of player_wait_for_frame.
sleep_time(s) == frame[s] - Position

SkipFrame(s) ==
  /\ place[s] = "wait" /\ flush_streams[s]
  /\ Move(s, "report")
  /\ UNCHANGED <<now, clock, seekVars, frame, old>>

MayShowUnlessPaused(s) == place[s] = "wait" /\ ~pause
MayShow(s) == place[s] = "wait" /\ ~flush_streams[s] /\ ~pause

FrameInTime(s) ==
  /\ MayShow(s) /\ sleep_time(s) >= -Late /\ sleep_time(s) < MinSleep
  /\ Move(s, "report")
  /\ UNCHANGED <<now, clock, seekVars, frame, old>>

\* The clock goes back to the frame, which is then shown.
CorrectClock(s) == start_time' = start_time - sleep_time(s)

LateFrame(s) ==
  /\ MayShow(s) /\ sleep_time(s) < -Late
  /\ CorrectClock(s)
  /\ Move(s, "report")
  /\ UNCHANGED <<now, pause, pause_time, seekVars, frame, old>>

Report(s) ==
  /\ place[s] = "report"
  /\ Move(s, "pop")
  /\ UNCHANGED <<now, clock, seekVars, frame, old>>

DecoderNext(s) ==
  \/ Take(s) \/ Flush(s) \/ Decode(s)
  \/ SkipFrame(s) \/ FrameInTime(s) \/ LateFrame(s) \/ Report(s)

Next ==
  \/ Tick \/ Reload \/ Pause \/ Resume \/ SeekStarts \/ SeekEnds
  \/ \E s \in Streams : DecoderNext(s)

Spec == Init /\ [][Next]_vars

-----------------------------------------------------------------------------
(* Properties.                                                             *)

TypeOK ==
  /\ now \in Int /\ pause \in BOOLEAN
  /\ start_time \in Int /\ pause_time \in Int
  /\ flush_streams \in [Streams -> BOOLEAN] /\ seeking \in BOOLEAN
  /\ target \in Targets
  /\ place \in [Streams -> {"pop", "decode", "wait", "report"}]
  /\ frame \in [Streams -> FrameTimes]
  /\ old \in [Streams -> BOOLEAN]

(* The position is continuous: pausing and resuming, however often, however *)
(* long and around whatever seeks, neither lose nor gain time.  Only time   *)
(* itself, a seek, another source or a late frame moves the position, and   *)
(* the last one takes it back, by more than Late, to where the frame is:    *)
(* the second of two late decoders starts from what the first has made of   *)
(* the clock, and never adds its own delay to the other's.                  *)
PositionIsContinuous ==
  [][\/ Position' = Position
     \/ ~pause /\ now' # now
     \/ ~seeking /\ seeking'
     \/ \E s \in Streams :
          LateFrame(s) /\ Position' = frame[s] /\ Position' < Position - Late
     \/ Reload]_vars

(* A frame from before a seek never pulls the clock back to where it was:   *)
(* the corrections of player_wait_for_frame are made by fresh frames only.  *)
OldFramesLeaveClock == [][\A s \in Streams : LateFrame(s) => ~old[s]]_vars

(* While the decoders answer a seek the clock stands at the target when     *)
(* paused, and otherwise is not before it.                                  *)
SeekLands ==
  seeking => IF pause THEN Position = target ELSE Position >= target

(* A frame that is shown because its time has come is due by the clock at   *)
(* that moment: at most MinSleep early and, after the correction, at most   *)
(* Late behind.                                                             *)
ShownWhenDue ==
  [][\A s \in Streams :
       /\ place[s] = "wait" /\ place'[s] # "wait"
       /\ ~flush_streams[s]
       => /\ frame[s] - MinSleep < Position'
          /\ Position' <= frame[s] + Late]_vars

-----------------------------------------------------------------------------
(* The inductive invariant: an old frame that has not been waited for yet   *)
(* has a flush request against it, and the clock is not touched in a seek.  *)
FlushInv ==
  \A s \in Streams :
    /\ flush_streams[s] => seeking
    /\ seeking /\ place[s] # "pop" => flush_streams[s]
    /\ old[s] /\ place[s] \in {"decode", "wait"} => flush_streams[s]

ClockInv == FlushInv /\ SeekLands
=============================================================================
