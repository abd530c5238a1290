-------------------------- MODULE SourceResources --------------------------
(***************************************************************************)
(* What player_set_data_source of jni/player.c allocates while it opens a  *)
(* source, and what the error path and player_stop_without_lock give back. *)
(*                                                                         *)
(* All of it runs under mutex_operation, so one program counter is enough. *)
(* The threads of the source run beside it and may end at any time.        *)
(*                                                                         *)
(* A resource has a kind and the number of the captured stream it belongs  *)
(* to, 0 when it belongs to none.  heap holds what really is allocated,    *)
(* fields the pointers of struct Player that are not NULL (and the flags   *)
(* that say a thread was created), leaked what lost its last pointer while *)
(* it was allocated.  The struct DecoderData of a stream is no field: its  *)
(* only pointer is the argument of the thread, which frees it at its end.  *)
(***************************************************************************)
EXTENDS Integers

VARIABLES
  pc,        \* the stage the holder of mutex_operation is at, or "idle"
  why,       \* why it closes: "stop", "load" (a new source follows), "error"
  heap, fields, leaked,
  n,         \* caputre_streams_no
  video_stream_no, audio_stream_no,
  playing,
  stop,
  running,      \* the threads that have not ended
  decoder_data  \* the streams whose thread has its struct DecoderData

memory  == <<heap, fields, leaked>>
streams == <<n, video_stream_no, audio_stream_no>>
flags   == <<playing, stop>>
threads == <<running, decoder_data>>
vars == <<pc, why, memory, streams, flags, threads>>

The(kind)   == <<kind, 0>>
Captured    == 0..(n - 1)
Each(kind)  == {<<kind, i>> : i \in Captured}

VideoFrames == <<"rgb_frame", "tmp_frame", "tmp_frame2", "tmp_buffer", "tmp_buffer2">>

\* Pointers assigned to fresh memory: what a field pointed to is lost.
Allocate(new) ==
  /\ heap' = heap \cup new /\ fields' = fields \cup new
  /\ leaked' = leaked \cup (new \cap heap)

\* What the fields of old point to is freed and they are set to NULL.
Free(old) ==
  /\ heap' = heap \ (old \cap fields) /\ fields' = fields \ old
  /\ UNCHANGED leaked

Init ==
  /\ pc = "idle" /\ why = "stop"
  /\ heap = {} /\ fields = {} /\ leaked = {}
  /\ n = 0 /\ video_stream_no = -1 /\ audio_stream_no = -1
  /\ playing = FALSE /\ stop = TRUE
  /\ running = {} /\ decoder_data = {}

-----------------------------------------------------------------------------
(* Opening: the stages of player_set_data_source in their order.           *)

Begin ==
  /\ pc = "idle" /\ ~playing
  /\ pc' = "create_context"
  /\ UNCHANGED <<why, memory, streams, flags, threads>>

At(stage) == pc = stage /\ UNCHANGED threads
GoesTo(next) == pc' = next /\ UNCHANGED why
Fails == pc' = "play_prepare_free" /\ why' = "error"

CreateContext ==
  /\ At("create_context")
  /\ \/ GoesTo("open_input") /\ Allocate({The("context")})
     \/ Fails /\ UNCHANGED memory
  /\ UNCHANGED <<streams, flags>>

\* avformat_open_input frees the context it cannot open.
OpenInput ==
  /\ At("open_input")
  /\ \/ GoesTo("find_stream_info") /\ Allocate({The("input")})
     \/ Fails /\ Free({The("context")})
  /\ UNCHANGED <<streams, flags>>

FindStreamInfo ==
  /\ At("find_stream_info")
  /\ Fails \/ GoesTo("report_streams")
  /\ UNCHANGED <<memory, streams, flags>>

ReportStreams ==
  /\ At("report_streams")
  /\ Fails \/ GoesTo("find_video")
  /\ UNCHANGED <<memory, streams, flags>>

\* player_find_stream opens a codec and takes the next number.
FindVideo ==
  /\ At("find_video")
  /\ \/ /\ GoesTo("find_audio")
        /\ Allocate({<<"codec", n>>})
        /\ video_stream_no' = n /\ n' = n + 1
     \/ Fails /\ video_stream_no' = -1 /\ UNCHANGED <<memory, n>>
  /\ UNCHANGED <<audio_stream_no, flags>>

FindAudio ==
  /\ At("find_audio")
  /\ \/ /\ GoesTo("alloc_video_frames")
        /\ Allocate({<<"codec", n>>})
        /\ audio_stream_no' = n /\ n' = n + 1
     \/ Fails /\ audio_stream_no' = -1 /\ UNCHANGED <<memory, n>>
  /\ UNCHANGED <<video_stream_no, flags>>

\* A stage that allocates one thing after the other and fails at the first
\* that it does not get.
AllocVideoFrames ==
  /\ At("alloc_video_frames")
  /\ \E got \in 0..5 :
       /\ Allocate({The(VideoFrames[k]) : k \in 1..got})
       /\ IF got = 5 THEN GoesTo("alloc_frames") ELSE Fails
  /\ UNCHANGED <<streams, flags>>

AllocFrames ==
  /\ At("alloc_frames")
  /\ \E got \in 0..n :
       /\ Allocate({<<"frame", i>> : i \in 0..(got - 1)})
       /\ IF got = n THEN GoesTo("alloc_queues") ELSE Fails
  /\ UNCHANGED <<streams, flags>>

AllocQueues ==
  /\ At("alloc_queues")
  /\ \E got \in 0..n :
       /\ Allocate({<<"queue", i>> : i \in 0..(got - 1)})
       /\ IF got = n THEN GoesTo("create_audio_track") ELSE Fails
  /\ UNCHANGED <<streams, flags>>

\* The sample rate converter is only made when the sound needs one, and stays
\* allocated when it cannot be initialised.
CreateAudioTrack ==
  /\ At("create_audio_track")
  /\ \/ Fails /\ UNCHANGED memory
     \/ /\ Fails \/ GoesTo("play_prepare")
        /\ Allocate({The("audio_track")})
     \/ /\ Fails \/ GoesTo("play_prepare")
        /\ Allocate({The("audio_track"), The("swr")})
  /\ UNCHANGED <<streams, flags>>

PlayPrepare ==
  /\ At("play_prepare")
  /\ GoesTo("start_threads")
  /\ stop' = FALSE
  /\ UNCHANGED <<memory, streams, playing>>

Start(t) == Allocate({t}) /\ running' = running \cup {t}

\* player_start_decoding_threads: the decoders in their order, each with a
\* struct DecoderData of its own, then the reader.
NextDecoder(i) ==
  /\ i \in Captured /\ <<"decoder", i>> \notin fields
  /\ \A j \in 0..(i - 1) : <<"decoder", j>> \in fields

StartDecoder ==
  /\ pc = "start_threads"
  /\ \E i \in Captured :
       /\ NextDecoder(i)
       /\ Start(<<"decoder", i>>)
       /\ decoder_data' = decoder_data \cup {i}
  /\ UNCHANGED <<pc, why, streams, flags>>

StartReader ==
  /\ pc = "start_threads" /\ Each("decoder") \subseteq fields
  /\ Start(The("reader"))
  /\ playing' = TRUE
  /\ GoesTo("idle")
  /\ UNCHANGED <<streams, stop, decoder_data>>

\* Without attributes or a reader nothing is lost.  A decoder that cannot be
\* created leaves its struct DecoderData behind.
LosesNothing == Each("decoder") \cap fields \in {{}, Each("decoder")} /\ UNCHANGED leaked
LosesData == \E i \in Captured : NextDecoder(i) /\ leaked' = leaked \cup {<<"decoder_data", i>>}

CannotStart ==
  /\ At("start_threads")
  /\ Fails
  /\ LosesNothing \/ LosesData
  /\ UNCHANGED <<heap, fields, streams, flags>>

Open ==
  \/ Begin \/ CreateContext \/ OpenInput \/ FindStreamInfo \/ ReportStreams
  \/ FindVideo \/ FindAudio \/ AllocVideoFrames \/ AllocFrames \/ AllocQueues
  \/ CreateAudioTrack \/ PlayPrepare \/ StartDecoder \/ StartReader \/ CannotStart

-----------------------------------------------------------------------------
(* Closing: player_stop_without_lock, and the error path.                  *)

\* From player_stop, or from player_set_data_source before it opens.
StopPlaying ==
  /\ pc = "idle" /\ playing
  /\ playing' = FALSE
  /\ why' \in {"stop", "load"}
  /\ pc' = "play_prepare_free"
  /\ UNCHANGED <<memory, streams, stop, threads>>

PlayPrepareFree ==
  /\ At("play_prepare_free")
  /\ stop' = TRUE
  /\ GoesTo("threads_free")
  /\ UNCHANGED <<memory, streams, playing>>

\* Joins the reader, then the decoders, those that were created.
Threads == Each("decoder") \cup {The("reader")}
JoinedReader == The("reader") \notin running
Joined == Threads \cap fields \cap running = {}

JoinThreads ==
  /\ At("threads_free")
  /\ Joined
  /\ Free(Threads)
  /\ GoesTo("audio_track_free")
  /\ UNCHANGED <<streams, flags>>

\* player_create_audio_track_free also closes the codec of the sound, before
\* player_find_streams_free closes the codecs there are.
AudioCodec == IF audio_stream_no >= 0 THEN {<<"codec", audio_stream_no>>} ELSE {}

CloseAudioCodecOnly ==
  /\ heap' = heap \ ({The("swr"), The("audio_track")} \cup AudioCodec)
  /\ fields' = fields \ {The("swr"), The("audio_track")}
  /\ UNCHANGED leaked
CloseAudio == Free({The("swr"), The("audio_track")} \cup AudioCodec)

AudioTrackFree ==
  /\ At("audio_track_free")
  /\ CloseAudio
  /\ GoesTo("queues_free")
  /\ UNCHANGED <<streams, flags>>

\* The error path does not look for a conversion context.
AfterQueuesAlways == "frames_free"
AfterQueues == IF why = "error" THEN "frames_free" ELSE "sws_free"

QueuesFree ==
  /\ At("queues_free")
  /\ Free(Each("queue"))
  /\ GoesTo(AfterQueues)
  /\ UNCHANGED <<streams, flags>>

SwsContextFree ==
  /\ At("sws_free")
  /\ Free({The("sws")})
  /\ GoesTo("frames_free")
  /\ UNCHANGED <<streams, flags>>

FramesFree ==
  /\ At("frames_free")
  /\ Free(Each("frame"))
  /\ GoesTo("video_frames_free")
  /\ UNCHANGED <<streams, flags>>

VideoFramesFree ==
  /\ At("video_frames_free")
  /\ Free({The(VideoFrames[k]) : k \in 1..5})
  /\ GoesTo("find_streams_free")
  /\ UNCHANGED <<streams, flags>>

\* player_find_streams_free.
CloseAfterReset == UNCHANGED memory
CloseCodecs == Free(Each("codec"))

ResetStreams == n' = 0 /\ video_stream_no' = -1 /\ audio_stream_no' = -1

FindStreamsFree ==
  /\ At("find_streams_free")
  /\ CloseCodecs /\ ResetStreams
  /\ GoesTo("open_input_free")
  /\ UNCHANGED flags

\* avformat_close_input frees the context with the input.
OpenInputFree ==
  /\ At("open_input_free")
  /\ Free(IF The("input") \in fields THEN {The("input"), The("context")} ELSE {})
  /\ GoesTo("create_context_free")
  /\ UNCHANGED <<streams, flags>>

CreateContextFree ==
  /\ At("create_context_free")
  /\ Free({The("context")})
  /\ GoesTo(IF why = "load" THEN "create_context" ELSE "idle")
  /\ UNCHANGED <<streams, flags>>

Close ==
  \/ StopPlaying \/ PlayPrepareFree \/ JoinThreads \/ AudioTrackFree
  \/ QueuesFree \/ SwsContextFree \/ FramesFree \/ VideoFramesFree
  \/ FindStreamsFree \/ OpenInputFree \/ CreateContextFree

-----------------------------------------------------------------------------
(* The threads.                                                            *)

\* The video decoder makes the conversion context with its first picture that
\* needs one.  Its packets come from the reader, and a reader only ends when
\* its decoders are gone or have never had a packet.
ConvertPicture ==
  /\ {<<"decoder", 0>>, The("reader")} \subseteq running
  /\ The("sws") \notin fields
  /\ Allocate({The("sws")})
  /\ UNCHANGED <<pc, why, streams, flags, threads>>

\* Because it was asked to stop, or on an error; PlayerPipeline says when.  A
\* decoder frees its struct DecoderData, also when it could not be attached.
ThreadEnds(t) ==
  /\ running' = running \ {t}
  /\ decoder_data' = {i \in decoder_data : t # <<"decoder", i>>}
  /\ UNCHANGED <<pc, why, memory, streams, flags>>

Next == Open \/ Close \/ ConvertPicture \/ \E t \in running : ThreadEnds(t)

Spec == Init /\ [][Next]_vars

-----------------------------------------------------------------------------
(* Properties.                                                             *)

OpeningStages ==
  {"create_context", "open_input", "find_stream_info", "report_streams",
   "find_video", "find_audio", "alloc_video_frames", "alloc_frames",
   "alloc_queues", "create_audio_track", "play_prepare", "start_threads"}
ClosingStages ==
  {"play_prepare_free", "threads_free", "audio_track_free", "queues_free",
   "sws_free", "frames_free", "video_frames_free", "find_streams_free",
   "open_input_free", "create_context_free"}
Kinds ==
  {"context", "input", "codec", "rgb_frame", "tmp_frame", "tmp_frame2",
   "tmp_buffer", "tmp_buffer2", "frame", "queue", "audio_track", "swr", "sws",
   "decoder", "reader"}
Resources == Kinds \X {0, 1}

TypeOK ==
  /\ pc \in {"idle"} \cup OpeningStages \cup ClosingStages
  /\ why \in {"stop", "load", "error"}
  /\ heap \subseteq Resources /\ fields \subseteq Resources
  /\ n \in 0..2 /\ video_stream_no \in {-1, 0} /\ audio_stream_no \in {-1, 1}
  /\ playing \in BOOLEAN /\ stop \in BOOLEAN
  /\ running \subseteq Resources /\ decoder_data \subseteq {0, 1}

(* Every allocation has exactly its pointer, whichever stage failed and     *)
(* however far it had come: nothing is freed twice (the codec of the sound  *)
(* is closed in two places), no pointer is overwritten while the next       *)
(* source is opened, and each decoder, nobody else, has a DecoderData.      *)
(* One kind of thing is lost: the DecoderData of a decoder whose            *)
(* pthread_create failed (README.md, section 4).                            *)
MemoryMatches ==
  /\ heap = fields
  /\ leaked \subseteq {"decoder_data"} \X {0, 1}
  /\ decoder_data = {i \in {0, 1} : <<"decoder", i>> \in running}

(* No allocation loses its last pointer.  The code does not keep this:      *)
(* README.md, section 4.                                                    *)
NothingIsLeaked == leaked = {}

(* When the operation is over and nothing plays, everything the source had  *)
(* and MemoryMatches does not except has been given back: no loop over      *)
(* caputre_streams_no comes after the one that sets it to 0, the error path *)
(* never needs sws_context freed, and no thread has kept its DecoderData.   *)
IdleHoldsNothing == pc \in {"idle", "create_context"} /\ ~playing =>
  heap = {} /\ running = {} /\ decoder_data = {} /\ n = 0

(* A thread finds all it uses, from its first instruction to its last.      *)
Needs(t) ==
  {The("context"), The("input"), The("audio_track")}
  \cup {<<kind, i>> : kind \in {"codec", "queue", "frame"}, i \in {0, 1}}
  \cup {The(VideoFrames[k]) : k \in 1..5}
  \cup {t}
ThreadsHaveTheirs == \A t \in running : Needs(t) \subseteq heap

(* A codec is closed before the input its context belongs to.               *)
CodecsCloseFirst ==
  \A i \in {0, 1} : <<"codec", i>> \in heap => {The("input"), The("context")} \subseteq heap
=============================================================================
