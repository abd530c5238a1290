---------------------------- MODULE TimeReports ----------------------------
(***************************************************************************)
(* How the time of the video reaches the screen: player_update_time of     *)
(* jni/player.c, called by both decoders after every packet, onUpdateTime  *)
(* of FFmpegPlayer, which it calls without a lock, and the runnable that   *)
(* onUpdateTime posts to the UI thread.                                    *)
(*                                                                         *)
(* The position of the playback is any time (PlayerClock shows how it      *)
(* moves); writes and reads of the three fields are steps of their own.    *)
(*                                                                         *)
(* A system of its own beside PlayerUi, whose proofs extend both: hence the*)
(* names of the specification and its variables.                           *)
(***************************************************************************)
EXTENDS Integers

CONSTANTS
  Video, Audio,    \* the decoders
  Times,           \* the positions of the playback
  video_duration,  \* as the file states or FFmpeg estimates it
  Gap,             \* 500000, how far the time moves between two reports
  MaxPosted        \* bounds the runnables waiting for the UI thread

ASSUME TimesAssumption ==
  /\ Video # Audio
  /\ Times \subseteq Nat /\ 0 \in Times /\ video_duration \in Times
  /\ Gap \in Nat /\ MaxPosted \in Nat \ {0}

Decoders == {Video, Audio}
Reports == [time : Times, duration : Times, finished : BOOLEAN]
Nothing == [time |-> 0, duration |-> 0, finished |-> FALSE]

VARIABLES
  last_updated_time,
  place,    \* where a decoder is: decoding, or about to write a field or to post
  report,   \* the arguments of its call of onUpdateTime
  ended,    \* the end-of-stream packet has been taken
  fields,   \* mCurrentTimeUs, mVideoDurationUs, mIsFinished
  posted,   \* the runnables that wait for the UI thread
  ui,       \* "idle", or the next field the runnable reads
  heard,    \* what it has read, for onFFUpdateTime
  closed    \* finish() was called

decoderVars == <<last_updated_time, place, report, ended>>
screenVars == <<ui, heard, closed>>
reportVars == <<decoderVars, fields, posted, screenVars>>

ReportsInit ==
  /\ last_updated_time = -1 /\ ended = FALSE
  /\ place = [d \in Decoders |-> "decode"] /\ report = [d \in Decoders |-> Nothing]
  /\ fields = Nothing /\ posted = 0
  /\ ui = "idle" /\ heard = Nothing /\ closed = FALSE

-----------------------------------------------------------------------------
(* A decoder: player_update_time after a packet, then onUpdateTime.        *)

Differs(time) ==
  last_updated_time - time > Gap \/ last_updated_time - time < -Gap

AtLeast(time) == IF time > video_duration THEN time ELSE video_duration

\* Under mutex_queue.  The end-of-stream packet is the video decoder's.
UpdateTime(d) ==
  /\ place[d] = "decode"
  /\ \E time \in Times, is_finished \in BOOLEAN :
       /\ is_finished => d = Video /\ ~ended
       /\ ended' = (ended \/ is_finished)
       /\ last_updated_time' = IF Differs(time) THEN time ELSE last_updated_time
       /\ IF is_finished \/ Differs(time)
          THEN /\ place' = [place EXCEPT ![d] = "time"]
               /\ report' = [report EXCEPT ![d] =
                    [time |-> time, duration |-> AtLeast(time), finished |-> is_finished]]
          ELSE UNCHANGED <<place, report>>
  /\ UNCHANGED <<fields, posted, screenVars>>

WriteTime(d) ==
  /\ place[d] = "time"
  /\ fields' = [fields EXCEPT !.time = report[d].time]
  /\ place' = [place EXCEPT ![d] = "duration"]
  /\ UNCHANGED <<last_updated_time, report, ended, posted, screenVars>>

WriteDuration(d) ==
  /\ place[d] = "duration"
  /\ fields' = [fields EXCEPT !.duration = report[d].duration]
  /\ place' = [place EXCEPT ![d] = "finished"]
  /\ UNCHANGED <<last_updated_time, report, ended, posted, screenVars>>

WriteFinished(d) ==
  /\ place[d] = "finished"
  /\ fields' = [fields EXCEPT !.finished = report[d].finished]
  /\ place' = [place EXCEPT ![d] = "post"]
  /\ UNCHANGED <<last_updated_time, report, ended, posted, screenVars>>

\* runOnUiThread; a variant leaves it to a runnable that is already running.
PostUnlessRunning == posted' = IF ui = "idle" THEN posted + 1 ELSE posted
Post == posted' = posted + 1

PostReport(d) ==
  /\ place[d] = "post" /\ posted < MaxPosted
  /\ Post
  /\ place' = [place EXCEPT ![d] = "decode"]
  /\ UNCHANGED <<last_updated_time, report, ended, fields, screenVars>>

Decode(d) ==
  \/ UpdateTime(d) \/ WriteTime(d) \/ WriteDuration(d) \/ WriteFinished(d)
  \/ PostReport(d)

-----------------------------------------------------------------------------
(* The UI thread: updateTimeRunnable reads the fields for onFFUpdateTime.   *)

ReadTime ==
  /\ ui = "idle" /\ posted > 0
  /\ posted' = posted - 1
  /\ heard' = [heard EXCEPT !.time = fields.time]
  /\ ui' = "duration"
  /\ UNCHANGED <<decoderVars, fields, closed>>

ReadDuration ==
  /\ ui = "duration"
  /\ heard' = [heard EXCEPT !.duration = fields.duration]
  /\ ui' = "finished"
  /\ UNCHANGED <<decoderVars, fields, posted, closed>>

\* onFFUpdateTime closes the screen of a video that is finished.
ReadFinished ==
  /\ ui = "finished"
  /\ heard' = [heard EXCEPT !.finished = fields.finished]
  /\ closed' = (closed \/ fields.finished)
  /\ ui' = "idle"
  /\ UNCHANGED <<decoderVars, fields, posted>>

UiRuns == ReadTime \/ ReadDuration \/ ReadFinished

-----------------------------------------------------------------------------
ReportsNext == (\E d \in Decoders : Decode(d)) \/ UiRuns

ReportsSpec == ReportsInit /\ [][ReportsNext]_reportVars

\* A report that was begun is completed and the UI thread runs what was
\* posted.  Nothing makes a decoder take another packet.
FairReportsSpec ==
  /\ ReportsSpec /\ WF_reportVars(UiRuns)
  /\ \A d \in Decoders : WF_reportVars(Decode(d) /\ place[d] # "decode")

-----------------------------------------------------------------------------
(* Properties.                                                             *)

ReportsTypeOK ==
  /\ last_updated_time \in Times \cup {-1} /\ ended \in BOOLEAN
  /\ place \in [Decoders -> {"decode", "time", "duration", "finished", "post"}]
  /\ report \in [Decoders -> Reports]
  /\ fields \in Reports /\ posted \in 0..MaxPosted
  /\ ui \in {"idle", "duration", "finished"} /\ heard \in Reports
  /\ closed \in BOOLEAN

Settled == posted = 0 /\ ui = "idle" /\ \A d \in Decoders : place[d] = "decode"

(* However the two decoders and the runnable overlap, what the screen was   *)
(* told last is what the fields hold once everybody is done.                *)
FieldsReachScreen == Settled => heard = fields

(* The duration the screen is told is not smaller than the time ("we have   *)
(* to ensure that it will not be smaller than current time",                *)
(* player.c:1028-1029).                                                     *)
(* The code does not keep this: README.md, section 4.                       *)
DurationCoversTime == ui = "idle" => heard.time <= heard.duration

(* When the video has ended the screen closes ("end the video",             *)
(* VideoActivity.java:450).                                                 *)
(* The code does not keep this: README.md, section 4.                       *)
EndCloses == ended ~> closed
=============================================================================
