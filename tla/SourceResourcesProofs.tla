------------------------ MODULE SourceResourcesProofs ------------------------
(***************************************************************************)
(* What SourceResources gives back, for any number of sources opened and   *)
(* closed one after another, whichever stage of each failed.               *)
(***************************************************************************)
EXTENDS SourceResources, TLAPS

-----------------------------------------------------------------------------
(* The inductive invariant behind these properties.                        *)

Container == {The("context"), The("input")}
Both(kind) == {<<kind, 0>>, <<kind, 1>>}
Pictures ==
  {The("rgb_frame"), The("tmp_frame"), The("tmp_frame2"), The("tmp_buffer"), The("tmp_buffer2")}

\* TypeOK, but for decoder_data.
Types ==
  /\ pc \in {"idle"} \cup OpeningStages \cup ClosingStages
  /\ why \in {"stop", "load", "error"}
  /\ heap \subseteq Resources /\ fields \subseteq Resources
  /\ n \in 0..2 /\ video_stream_no \in {-1, 0} /\ audio_stream_no \in {-1, 1}
  /\ playing \in BOOLEAN /\ stop \in BOOLEAN
  /\ running \subseteq Resources

\* What a stage of the opening finds, exactly.
AtOpening(stages, opened, count) == pc \in stages => heap = opened /\ n = count
OpeningInv ==
  /\ AtOpening({"create_context"}, {}, 0)
  /\ AtOpening({"open_input"}, {The("context")}, 0)
  /\ AtOpening({"find_stream_info", "report_streams", "find_video"}, Container, 0)
  /\ AtOpening({"find_audio"}, Container \cup {<<"codec", 0>>}, 1)
  /\ AtOpening({"alloc_video_frames"}, Container \cup Both("codec"), 2)
  /\ AtOpening({"alloc_frames"}, Container \cup Both("codec") \cup Pictures, 2)
  /\ AtOpening({"alloc_queues"},
               Container \cup Both("codec") \cup Pictures \cup Both("frame"), 2)
  /\ AtOpening({"create_audio_track"},
               Container \cup Both("codec") \cup Pictures \cup Both("frame") \cup Both("queue"), 2)

\* All that the threads need.
Source == Container \cup Both("codec") \cup Pictures \cup Both("frame") \cup Both("queue")
          \cup {The("audio_track")}
OpenInv ==
  pc \in {"play_prepare", "start_threads"} \/ (pc = "idle" /\ playing) \/ running # {} =>
    Source \subseteq heap /\ n = 2

\* A stage of the closing finds nothing of a kind that an earlier one freed.
Gone(stages, kinds) == pc \in stages => \A kind \in kinds : heap \cap Both(kind) = {}
ClosingInv ==
  /\ Gone({"audio_track_free", "queues_free", "sws_free", "frames_free", "video_frames_free",
           "find_streams_free", "open_input_free", "create_context_free"},
          {"reader", "decoder"})
  /\ Gone({"queues_free", "sws_free", "frames_free", "video_frames_free",
           "find_streams_free", "open_input_free", "create_context_free"},
          {"swr", "audio_track"})
  /\ Gone({"sws_free", "frames_free", "video_frames_free",
           "find_streams_free", "open_input_free", "create_context_free"}, {"queue"})
  /\ Gone({"frames_free", "video_frames_free",
           "find_streams_free", "open_input_free", "create_context_free"}, {"sws"})
  /\ Gone({"video_frames_free", "find_streams_free", "open_input_free",
           "create_context_free"}, {"frame"})
  /\ Gone({"find_streams_free", "open_input_free", "create_context_free"},
          {"rgb_frame", "tmp_frame", "tmp_frame2", "tmp_buffer", "tmp_buffer2"})
  /\ Gone({"open_input_free", "create_context_free"}, {"codec"})
  /\ Gone({"create_context_free"}, {"input", "context"})

\* What is allocated belongs to a captured stream or to none, the threads that
\* run are among it, and only a source that was opened has a reader and the
\* conversion context.
ScopeInv ==
  /\ \A r \in heap :
       IF r[1] \in {"codec", "frame", "queue", "decoder"} THEN r[2] < n ELSE r[2] = 0
  /\ pc # "open_input" /\ The("context") \in heap => The("input") \in heap
  /\ running \subseteq heap \cap (Both("decoder") \cup Both("reader"))
  /\ pc = "start_threads" \/ (why = "error" /\ pc \in ClosingStages) =>
       The("reader") \notin heap /\ The("sws") \notin heap
  /\ pc = "play_prepare" => heap \cap (Both("decoder") \cup Both("sws") \cup Both("reader")) = {}
  /\ pc = "sws_free" => why # "error"
  /\ playing => pc = "idle"
  /\ pc \in {"idle", "open_input_free", "create_context_free"} /\ ~playing => n = 0
  /\ pc = "idle" /\ ~playing => heap = {}

\* The first two parts of MemoryMatches; the third is DataInv below.
PointersMatch == heap = fields /\ leaked \subseteq {"decoder_data"} \X {0, 1}

IInv == Types /\ PointersMatch /\ OpeningInv /\ OpenInv /\ ClosingInv /\ ScopeInv /\ CodecsCloseFirst
-----------------------------------------------------------------------------
(* Every step keeps it.                                                     *)

LEMMA InitIInv == Init => IInv
<1> SUFFICES ASSUME Init
             PROVE  IInv
  OBVIOUS
<1> USE DEF Init
<1>1. Types
  <2>1. playing \in BOOLEAN /\ stop \in BOOLEAN
    BY Zenon
  <2> QED
    BY <2>1 DEF Types
<1>2. PointersMatch
  BY DEF PointersMatch
<1>3. OpeningInv /\ OpenInv /\ ClosingInv
  BY DEF OpeningInv, AtOpening, OpenInv, ClosingInv, Gone
<1>4. ScopeInv /\ CodecsCloseFirst
  BY DEF ScopeInv, CodecsCloseFirst
<1> QED
  BY <1>1, <1>2, <1>3, <1>4 DEF IInv

LEMMA AllocateNew ==
  ASSUME PointersMatch, NEW new, heap \cap new = {}, Allocate(new)
  PROVE  PointersMatch' /\ heap' = heap \cup new
BY DEF PointersMatch, Allocate

LEMMA FreeOld ==
  ASSUME PointersMatch, NEW old, Free(old)
  PROVE  PointersMatch' /\ heap' = heap \ old
BY DEF PointersMatch, Free

LEMMA KeepMemory ==
  ASSUME PointersMatch, UNCHANGED memory
  PROVE  PointersMatch' /\ heap' = heap
BY DEF PointersMatch, memory

\* The five pictures' memory, as a set.
LEMMA PicturesAre == {The(VideoFrames[k]) : k \in 1..5} = Pictures
<1>1. 1..5 = {1, 2, 3, 4, 5}
  OBVIOUS
<1>2. /\ VideoFrames[1] = "rgb_frame" /\ VideoFrames[2] = "tmp_frame"
      /\ VideoFrames[3] = "tmp_frame2" /\ VideoFrames[4] = "tmp_buffer"
      /\ VideoFrames[5] = "tmp_buffer2"
  BY DEF VideoFrames
<1> QED
  BY <1>1, <1>2 DEF Pictures

LEMMA SomePictures ==
  ASSUME NEW got \in 0..5
  PROVE  {The(VideoFrames[k]) : k \in 1..got} \subseteq Pictures
<1>1. 1..got \subseteq 1..5
  OBVIOUS
<1> QED
  BY <1>1, PicturesAre

Typed == /\ pc \in {"idle"} \cup OpeningStages \cup ClosingStages
         /\ why \in {"stop", "load", "error"}
         /\ n \in 0..2 /\ video_stream_no \in {-1, 0} /\ audio_stream_no \in {-1, 1}
         /\ playing \in BOOLEAN /\ stop \in BOOLEAN

Parts == /\ Typed /\ heap \subseteq Resources /\ PointersMatch
         /\ OpeningInv /\ OpenInv /\ ClosingInv /\ ScopeInv /\ CodecsCloseFirst

LEMMA Assembled == Parts' => IInv'
BY DEF Parts, IInv, Typed, Types, PointersMatch, ScopeInv

LEMMA BeginIInv ==
  ASSUME IInv, Begin
  PROVE  IInv'
<1> USE DEF IInv, threads, Begin, At, GoesTo, Fails, streams, flags, The, Both
<1>1. PointersMatch' /\ heap' = heap
  BY KeepMemory
<1>2. Typed'
  BY DEF Typed, Types, OpeningStages, ClosingStages, OpeningInv, AtOpening
<1>3. heap' \subseteq Resources
  BY <1>1 DEF Types, Resources, Kinds
<1>4. OpeningInv' /\ OpenInv'
  BY <1>1 DEF OpeningInv, AtOpening, OpenInv, ScopeInv, Container, ClosingStages
<1>5. ClosingInv'
  BY <1>1 DEF ClosingInv, Gone
<1>6. ScopeInv'
  BY <1>1 DEF ScopeInv, OpeningInv, AtOpening, Container, ClosingStages
<1>7. CodecsCloseFirst'
  BY <1>1 DEF CodecsCloseFirst, OpeningInv, AtOpening, Container
<1> QED
  BY <1>1, <1>2, <1>3, <1>4, <1>5, <1>6, <1>7, Assembled DEF Parts

LEMMA CreateContextIInv ==
  ASSUME IInv, CreateContext
  PROVE  IInv'
<1> USE DEF IInv, threads, CreateContext, At, GoesTo, Fails, streams, flags, The, Both
<1>1. PointersMatch' /\ \/ heap' = heap \cup {The("context")} /\ pc' = "open_input"
                        \/ heap' = heap /\ pc' = "play_prepare_free" /\ why' = "error"
  <2>1. heap \cap {The("context")} = {}
    BY DEF OpeningInv, AtOpening, Container
  <2>2. CASE Allocate({The("context")}) /\ GoesTo("open_input")
    BY <2>1, <2>2, AllocateNew
  <2>3. CASE Fails /\ UNCHANGED memory
    BY <2>3, KeepMemory
  <2> QED
    BY <2>2, <2>3
<1>2. Typed'
  BY DEF Typed, Types, OpeningStages, ClosingStages, OpeningInv, AtOpening
<1>3. heap' \subseteq Resources
  BY <1>1 DEF Types, Resources, Kinds
<1>4. OpeningInv' /\ OpenInv'
  BY <1>1 DEF OpeningInv, AtOpening, OpenInv, ScopeInv, Container, ClosingStages
<1>5. ClosingInv'
  BY <1>1 DEF ClosingInv, Gone
<1>6. ScopeInv'
  BY <1>1 DEF ScopeInv, OpeningInv, AtOpening, Container, ClosingStages
<1>7. CodecsCloseFirst'
  BY <1>1 DEF CodecsCloseFirst, OpeningInv, AtOpening, Container
<1> QED
  BY <1>1, <1>2, <1>3, <1>4, <1>5, <1>6, <1>7, Assembled DEF Parts

LEMMA OpenInputIInv ==
  ASSUME IInv, OpenInput
  PROVE  IInv'
<1> USE DEF IInv, threads, OpenInput, At, GoesTo, Fails, streams, flags, The, Both
<1>1. PointersMatch' /\ \/ heap' = heap \cup {The("input")} /\ pc' = "find_stream_info"
                        \/ heap' = heap \ {The("context")} /\ pc' = "play_prepare_free" /\ why' = "error"
  <2>1. heap \cap {The("input")} = {}
    BY DEF OpeningInv, AtOpening, Container
  <2>2. CASE Allocate({The("input")}) /\ GoesTo("find_stream_info")
    BY <2>1, <2>2, AllocateNew
  <2>3. CASE Fails /\ Free({The("context")})
    BY <2>3, FreeOld
  <2> QED
    BY <2>2, <2>3
<1>2. Typed'
  BY DEF Typed, Types, OpeningStages, ClosingStages, OpeningInv, AtOpening
<1>3. heap' \subseteq Resources
  BY <1>1 DEF Types, Resources, Kinds
<1>4. OpeningInv' /\ OpenInv'
  BY <1>1 DEF OpeningInv, AtOpening, OpenInv, ScopeInv, Container, ClosingStages
<1>5. ClosingInv'
  BY <1>1 DEF ClosingInv, Gone
<1>6. ScopeInv'
  BY <1>1 DEF ScopeInv, OpeningInv, AtOpening, Container, ClosingStages
<1>7. CodecsCloseFirst'
  BY <1>1 DEF CodecsCloseFirst, OpeningInv, AtOpening, Container
<1> QED
  BY <1>1, <1>2, <1>3, <1>4, <1>5, <1>6, <1>7, Assembled DEF Parts

LEMMA FindStreamInfoIInv ==
  ASSUME IInv, FindStreamInfo
  PROVE  IInv'
<1> USE DEF IInv, threads, FindStreamInfo, At, GoesTo, Fails, streams, flags, The, Both
<1>1. PointersMatch' /\ heap' = heap
  BY KeepMemory
<1>2. Typed'
  BY DEF Typed, Types, OpeningStages, ClosingStages, OpeningInv, AtOpening
<1>3. heap' \subseteq Resources
  BY <1>1 DEF Types, Resources, Kinds
<1>4. OpeningInv' /\ OpenInv'
  BY <1>1 DEF OpeningInv, AtOpening, OpenInv, ScopeInv, Container, ClosingStages
<1>5. ClosingInv'
  BY <1>1 DEF ClosingInv, Gone
<1>6. ScopeInv'
  BY <1>1 DEF ScopeInv, OpeningInv, AtOpening, Container, ClosingStages
<1>7. CodecsCloseFirst'
  BY <1>1 DEF CodecsCloseFirst, OpeningInv, AtOpening, Container
<1> QED
  BY <1>1, <1>2, <1>3, <1>4, <1>5, <1>6, <1>7, Assembled DEF Parts

LEMMA ReportStreamsIInv ==
  ASSUME IInv, ReportStreams
  PROVE  IInv'
<1> USE DEF IInv, threads, ReportStreams, At, GoesTo, Fails, streams, flags, The, Both
<1>1. PointersMatch' /\ heap' = heap
  BY KeepMemory
<1>2. Typed'
  BY DEF Typed, Types, OpeningStages, ClosingStages, OpeningInv, AtOpening
<1>3. heap' \subseteq Resources
  BY <1>1 DEF Types, Resources, Kinds
<1>4. OpeningInv' /\ OpenInv'
  BY <1>1 DEF OpeningInv, AtOpening, OpenInv, ScopeInv, Container, ClosingStages
<1>5. ClosingInv'
  BY <1>1 DEF ClosingInv, Gone
<1>6. ScopeInv'
  BY <1>1 DEF ScopeInv, OpeningInv, AtOpening, Container, ClosingStages
<1>7. CodecsCloseFirst'
  BY <1>1 DEF CodecsCloseFirst, OpeningInv, AtOpening, Container
<1> QED
  BY <1>1, <1>2, <1>3, <1>4, <1>5, <1>6, <1>7, Assembled DEF Parts

LEMMA FindVideoIInv ==
  ASSUME IInv, FindVideo
  PROVE  IInv'
<1> USE DEF IInv, threads, FindVideo, At, GoesTo, Fails, streams, flags, The, Both
<1>1. PointersMatch' /\ \/ heap' = heap \cup {<<"codec", n>>} /\ n' = n + 1 /\ pc' = "find_audio"
                        \/ heap' = heap /\ n' = n /\ pc' = "play_prepare_free" /\ why' = "error"
  <2>1. heap \cap {<<"codec", n>>} = {}
    BY DEF OpeningInv, AtOpening, Container
  <2>2. CASE Allocate({<<"codec", n>>}) /\ GoesTo("find_audio") /\ n' = n + 1
    BY <2>1, <2>2, AllocateNew
  <2>3. CASE Fails /\ UNCHANGED <<memory, n>>
    BY <2>3, KeepMemory
  <2> QED
    BY <2>2, <2>3
<1>2. Typed'
  BY DEF Typed, Types, OpeningStages, ClosingStages, OpeningInv, AtOpening
<1>3. heap' \subseteq Resources
  BY <1>1 DEF Types, Resources, Kinds, OpeningInv, AtOpening
<1>4. OpeningInv' /\ OpenInv'
  BY <1>1 DEF OpeningInv, AtOpening, OpenInv, ScopeInv, Container, ClosingStages
<1>5. ClosingInv'
  BY <1>1 DEF ClosingInv, Gone
<1>6. ScopeInv'
  BY <1>1 DEF ScopeInv, OpeningInv, AtOpening, Container, ClosingStages
<1>7. CodecsCloseFirst'
  BY <1>1 DEF CodecsCloseFirst, OpeningInv, AtOpening, Container
<1> QED
  BY <1>1, <1>2, <1>3, <1>4, <1>5, <1>6, <1>7, Assembled DEF Parts

LEMMA FindAudioIInv ==
  ASSUME IInv, FindAudio
  PROVE  IInv'
<1> USE DEF IInv, threads, FindAudio, At, GoesTo, Fails, streams, flags, The, Both
<1>1. PointersMatch' /\ \/ heap' = heap \cup {<<"codec", n>>} /\ n' = n + 1 /\ pc' = "alloc_video_frames"
                        \/ heap' = heap /\ n' = n /\ pc' = "play_prepare_free" /\ why' = "error"
  <2>1. heap \cap {<<"codec", n>>} = {}
    BY DEF OpeningInv, AtOpening, Container
  <2>2. CASE Allocate({<<"codec", n>>}) /\ GoesTo("alloc_video_frames") /\ n' = n + 1
    BY <2>1, <2>2, AllocateNew
  <2>3. CASE Fails /\ UNCHANGED <<memory, n>>
    BY <2>3, KeepMemory
  <2> QED
    BY <2>2, <2>3
<1>2. Typed'
  BY DEF Typed, Types, OpeningStages, ClosingStages, OpeningInv, AtOpening
<1>3. heap' \subseteq Resources
  BY <1>1 DEF Types, Resources, Kinds, OpeningInv, AtOpening
<1>4. OpeningInv' /\ OpenInv'
  BY <1>1 DEF OpeningInv, AtOpening, OpenInv, ScopeInv, Container, ClosingStages
<1>5. ClosingInv'
  BY <1>1 DEF ClosingInv, Gone
<1>6. ScopeInv'
  BY <1>1 DEF ScopeInv, OpeningInv, AtOpening, Container, ClosingStages
<1>7. CodecsCloseFirst'
  BY <1>1 DEF CodecsCloseFirst, OpeningInv, AtOpening, Container
<1> QED
  BY <1>1, <1>2, <1>3, <1>4, <1>5, <1>6, <1>7, Assembled DEF Parts

LEMMA AllocVideoFramesIInv ==
  ASSUME IInv, AllocVideoFrames
  PROVE  IInv'
<1> USE DEF IInv, threads, AllocVideoFrames, At, GoesTo, Fails, streams, flags, The, Both
<1>1. PointersMatch' /\ \/ heap' = heap \cup Pictures /\ pc' = "alloc_frames"
                        \/ /\ heap \subseteq heap' /\ heap' \subseteq heap \cup Pictures
                           /\ pc' = "play_prepare_free" /\ why' = "error"
  <2>1. heap \cap Pictures = {} /\ n = 2
    BY DEF OpeningInv, AtOpening, Container, Pictures
  <2>2. PICK got \in 0..5 :
          /\ Allocate({The(VideoFrames[k]) : k \in 1..got})
          /\ IF got = 5 THEN GoesTo("alloc_frames") ELSE Fails
    OBVIOUS
  <2>3. {The(VideoFrames[k]) : k \in 1..got} \subseteq Pictures
    BY SomePictures
  <2>4. got = 5 => {The(VideoFrames[k]) : k \in 1..got} = Pictures
    BY PicturesAre
  <2>5. PointersMatch' /\ heap' = heap \cup {The(VideoFrames[k]) : k \in 1..got}
    BY <2>1, <2>2, <2>3, AllocateNew
  <2> QED
    BY <2>2, <2>3, <2>4, <2>5
<1>2. Typed'
  BY DEF Typed, Types, OpeningStages, ClosingStages, OpeningInv, AtOpening
<1>3. heap' \subseteq Resources
  BY <1>1 DEF Types, Resources, Kinds, Pictures
<1>4. OpeningInv' /\ OpenInv'
  BY <1>1 DEF OpeningInv, AtOpening, OpenInv, ScopeInv, Container, ClosingStages, Pictures
<1>5. ClosingInv'
  BY <1>1 DEF ClosingInv, Gone
<1>6. ScopeInv'
  BY <1>1 DEF ScopeInv, OpeningInv, AtOpening, Container, ClosingStages, Pictures
<1>7. CodecsCloseFirst'
  BY <1>1 DEF CodecsCloseFirst, OpeningInv, AtOpening, Container
<1> QED
  BY <1>1, <1>2, <1>3, <1>4, <1>5, <1>6, <1>7, Assembled DEF Parts

LEMMA AllocFramesIInv ==
  ASSUME IInv, AllocFrames
  PROVE  IInv'
<1> USE DEF IInv, threads, AllocFrames, At, GoesTo, Fails, streams, flags, The, Both
<1>1. PointersMatch' /\ \/ heap' = heap \cup Both("frame") /\ pc' = "alloc_queues"
                        \/ /\ heap \subseteq heap' /\ heap' \subseteq heap \cup Both("frame")
                           /\ pc' = "play_prepare_free" /\ why' = "error"
  <2>1. heap \cap Both("frame") = {} /\ n = 2
    BY DEF OpeningInv, AtOpening, Container, Pictures
  <2>2. PICK got \in 0..n :
          /\ Allocate({<<"frame", i>> : i \in 0..(got - 1)})
          /\ IF got = n THEN GoesTo("alloc_queues") ELSE Fails
    OBVIOUS
  <2>3. {<<"frame", i>> : i \in 0..(got - 1)} \subseteq Both("frame")
    BY <2>1
  <2>4. got = n => {<<"frame", i>> : i \in 0..(got - 1)} = Both("frame")
    <3>1. 0..1 = {0, 1}
      OBVIOUS
    <3> QED
      BY <2>1, <3>1
  <2>5. PointersMatch' /\ heap' = heap \cup {<<"frame", i>> : i \in 0..(got - 1)}
    BY <2>1, <2>2, <2>3, AllocateNew
  <2> QED
    BY <2>2, <2>3, <2>4, <2>5
<1>2. Typed'
  BY DEF Typed, Types, OpeningStages, ClosingStages, OpeningInv, AtOpening
<1>3. heap' \subseteq Resources
  BY <1>1 DEF Types, Resources, Kinds, Pictures
<1>4. OpeningInv' /\ OpenInv'
  BY <1>1 DEF OpeningInv, AtOpening, OpenInv, ScopeInv, Container, ClosingStages, Pictures
<1>5. ClosingInv'
  BY <1>1 DEF ClosingInv, Gone
<1>6. ScopeInv'
  BY <1>1 DEF ScopeInv, OpeningInv, AtOpening, Container, ClosingStages, Pictures
<1>7. CodecsCloseFirst'
  BY <1>1 DEF CodecsCloseFirst, OpeningInv, AtOpening, Container
<1> QED
  BY <1>1, <1>2, <1>3, <1>4, <1>5, <1>6, <1>7, Assembled DEF Parts

LEMMA AllocQueuesIInv ==
  ASSUME IInv, AllocQueues
  PROVE  IInv'
<1> USE DEF IInv, threads, AllocQueues, At, GoesTo, Fails, streams, flags, The, Both
<1>1. PointersMatch' /\ \/ heap' = heap \cup Both("queue") /\ pc' = "create_audio_track"
                        \/ /\ heap \subseteq heap' /\ heap' \subseteq heap \cup Both("queue")
                           /\ pc' = "play_prepare_free" /\ why' = "error"
  <2>1. heap \cap Both("queue") = {} /\ n = 2
    BY DEF OpeningInv, AtOpening, Container, Pictures
  <2>2. PICK got \in 0..n :
          /\ Allocate({<<"queue", i>> : i \in 0..(got - 1)})
          /\ IF got = n THEN GoesTo("create_audio_track") ELSE Fails
    OBVIOUS
  <2>3. {<<"queue", i>> : i \in 0..(got - 1)} \subseteq Both("queue")
    BY <2>1
  <2>4. got = n => {<<"queue", i>> : i \in 0..(got - 1)} = Both("queue")
    <3>1. 0..1 = {0, 1}
      OBVIOUS
    <3> QED
      BY <2>1, <3>1
  <2>5. PointersMatch' /\ heap' = heap \cup {<<"queue", i>> : i \in 0..(got - 1)}
    BY <2>1, <2>2, <2>3, AllocateNew
  <2> QED
    BY <2>2, <2>3, <2>4, <2>5
<1>2. Typed'
  BY DEF Typed, Types, OpeningStages, ClosingStages, OpeningInv, AtOpening
<1>3. heap' \subseteq Resources
  BY <1>1 DEF Types, Resources, Kinds, Pictures
<1>4. OpeningInv' /\ OpenInv'
  BY <1>1 DEF OpeningInv, AtOpening, OpenInv, ScopeInv, Container, ClosingStages, Pictures
<1>5. ClosingInv'
  BY <1>1 DEF ClosingInv, Gone
<1>6. ScopeInv'
  BY <1>1 DEF ScopeInv, OpeningInv, AtOpening, Container, ClosingStages, Pictures
<1>7. CodecsCloseFirst'
  BY <1>1 DEF CodecsCloseFirst, OpeningInv, AtOpening, Container
<1> QED
  BY <1>1, <1>2, <1>3, <1>4, <1>5, <1>6, <1>7, Assembled DEF Parts

LEMMA CreateAudioTrackIInv ==
  ASSUME IInv, CreateAudioTrack
  PROVE  IInv'
<1> USE DEF IInv, threads, CreateAudioTrack, At, GoesTo, Fails, streams, flags, The, Both
<1>1. PointersMatch' /\ /\ heap \subseteq heap' /\ heap' \subseteq heap \cup {The("audio_track"), The("swr")}
                        /\ \/ pc' = "play_prepare" /\ The("audio_track") \in heap'
                           \/ pc' = "play_prepare_free" /\ why' = "error"
  <2>1. heap \cap {The("audio_track")} = {} /\ heap \cap {The("audio_track"), The("swr")} = {}
    BY DEF OpeningInv, AtOpening, Container, Pictures
  <2>2. CASE Fails /\ UNCHANGED memory
    BY <2>2, KeepMemory
  <2>3. CASE Allocate({The("audio_track")})
    BY <2>1, <2>3, AllocateNew
  <2>4. CASE Allocate({The("audio_track"), The("swr")})
    BY <2>1, <2>4, AllocateNew
  <2> QED
    BY <2>2, <2>3, <2>4
<1>2. Typed'
  BY DEF Typed, Types, OpeningStages, ClosingStages, OpeningInv, AtOpening
<1>3. heap' \subseteq Resources
  BY <1>1 DEF Types, Resources, Kinds
<1>4. OpeningInv' /\ OpenInv'
  BY <1>1 DEF OpeningInv, AtOpening, OpenInv, ScopeInv, Container, ClosingStages, Pictures, Source
<1>5. ClosingInv'
  BY <1>1 DEF ClosingInv, Gone
<1>6. ScopeInv'
  BY <1>1 DEF ScopeInv, OpeningInv, AtOpening, Container, ClosingStages, Pictures
<1>7. CodecsCloseFirst'
  BY <1>1 DEF CodecsCloseFirst, OpeningInv, AtOpening, Container
<1> QED
  BY <1>1, <1>2, <1>3, <1>4, <1>5, <1>6, <1>7, Assembled DEF Parts

LEMMA PlayPrepareIInv ==
  ASSUME IInv, PlayPrepare
  PROVE  IInv'
<1> USE DEF IInv, threads, PlayPrepare, At, GoesTo, Fails, streams, flags, The, Both
<1>1. PointersMatch' /\ heap' = heap
  BY KeepMemory
<1>2. Typed'
  BY DEF Typed, Types, OpeningStages, ClosingStages, OpeningInv, AtOpening
<1>3. heap' \subseteq Resources
  BY <1>1 DEF Types, Resources, Kinds
<1>4. OpeningInv' /\ OpenInv'
  BY <1>1 DEF OpeningInv, AtOpening, OpenInv, ScopeInv, Container, ClosingStages
<1>5. ClosingInv'
  BY <1>1 DEF ClosingInv, Gone
<1>6. ScopeInv'
  BY <1>1 DEF ScopeInv, ClosingStages
<1>7. CodecsCloseFirst'
  BY <1>1 DEF CodecsCloseFirst, OpeningInv, AtOpening, Container
<1> QED
  BY <1>1, <1>2, <1>3, <1>4, <1>5, <1>6, <1>7, Assembled DEF Parts

LEMMA CannotStartIInv ==
  ASSUME IInv, CannotStart
  PROVE  IInv'
<1> USE DEF IInv, threads, CannotStart, At, GoesTo, Fails, streams, flags, The, Both
<1>1. PointersMatch' /\ heap' = heap
  BY DEF PointersMatch, LosesNothing, LosesData, NextDecoder, Captured, Types
<1>2. Typed'
  BY DEF Typed, Types, OpeningStages, ClosingStages, OpeningInv, AtOpening
<1>3. heap' \subseteq Resources
  BY <1>1 DEF Types, Resources, Kinds
<1>4. OpeningInv' /\ OpenInv'
  BY <1>1 DEF OpeningInv, AtOpening, OpenInv, ScopeInv, Container, ClosingStages
<1>5. ClosingInv'
  BY <1>1 DEF ClosingInv, Gone
<1>6. ScopeInv'
  BY <1>1 DEF ScopeInv, ClosingStages
<1>7. CodecsCloseFirst'
  BY <1>1 DEF CodecsCloseFirst, OpeningInv, AtOpening, Container
<1> QED
  BY <1>1, <1>2, <1>3, <1>4, <1>5, <1>6, <1>7, Assembled DEF Parts

LEMMA StartDecoderIInv ==
  ASSUME IInv, StartDecoder
  PROVE  IInv'
<1> USE DEF IInv, threads, StartDecoder, At, GoesTo, Fails, streams, flags, The, Both
<1>1. PointersMatch' /\ \E i \in {0, 1} :
                        /\ heap' = heap \cup {<<"decoder", i>>}
                        /\ running' = running \cup {<<"decoder", i>>}
  <2>1. n = 2
    BY DEF OpenInv
  <2>2. PICK i \in Captured : <<"decoder", i>> \notin fields /\ Start(<<"decoder", i>>)
    BY DEF NextDecoder
  <2>3. i \in {0, 1}
    BY <2>1 DEF Captured
  <2>4. heap \cap {<<"decoder", i>>} = {}
    BY <2>2 DEF PointersMatch
  <2>5. PointersMatch' /\ heap' = heap \cup {<<"decoder", i>>}
    BY <2>2, <2>4, AllocateNew DEF Start
  <2> QED
    BY <2>2, <2>3, <2>5 DEF Start
<1>2. Typed'
  BY DEF Typed, Types, OpeningStages, ClosingStages, OpeningInv, AtOpening
<1>3. heap' \subseteq Resources
  BY <1>1 DEF Types, Resources, Kinds
<1>4. OpeningInv' /\ OpenInv'
  BY <1>1 DEF OpeningInv, AtOpening, OpenInv, ScopeInv, Source, Container, Pictures
<1>5. ClosingInv'
  BY <1>1 DEF ClosingInv, Gone
<1>6. ScopeInv'
  BY <1>1 DEF ScopeInv, OpenInv, ClosingStages
<1>7. CodecsCloseFirst'
  BY <1>1 DEF CodecsCloseFirst, OpeningInv, AtOpening, Container
<1> QED
  BY <1>1, <1>2, <1>3, <1>4, <1>5, <1>6, <1>7, Assembled DEF Parts

LEMMA StartReaderIInv ==
  ASSUME IInv, StartReader
  PROVE  IInv'
<1> USE DEF IInv, threads, StartReader, At, GoesTo, Fails, streams, flags, The, Both
<1>1. PointersMatch' /\ heap' = heap \cup {The("reader")} /\ running' = running \cup {The("reader")}
  <2>1. heap \cap {The("reader")} = {}
    BY DEF ScopeInv
  <2> QED
    BY <2>1, AllocateNew DEF Start
<1>2. Typed'
  BY DEF Typed, Types, OpeningStages, ClosingStages, OpeningInv, AtOpening
<1>3. heap' \subseteq Resources
  BY <1>1 DEF Types, Resources, Kinds
<1>4. OpeningInv' /\ OpenInv'
  BY <1>1 DEF OpeningInv, AtOpening, OpenInv, ScopeInv, Source, Container, Pictures
<1>5. ClosingInv'
  BY <1>1 DEF ClosingInv, Gone
<1>6. ScopeInv'
  BY <1>1 DEF ScopeInv, OpenInv, ClosingStages
<1>7. CodecsCloseFirst'
  BY <1>1 DEF CodecsCloseFirst, OpeningInv, AtOpening, Container
<1> QED
  BY <1>1, <1>2, <1>3, <1>4, <1>5, <1>6, <1>7, Assembled DEF Parts

LEMMA StopPlayingIInv ==
  ASSUME IInv, StopPlaying
  PROVE  IInv'
<1> USE DEF IInv, threads, StopPlaying, At, GoesTo, Fails, streams, flags, The, Both
<1>1. PointersMatch' /\ heap' = heap
  BY KeepMemory
<1>2. Typed'
  BY DEF Typed, Types, OpeningStages, ClosingStages, OpeningInv, AtOpening
<1>3. heap' \subseteq Resources
  BY <1>1 DEF Types, Resources, Kinds
<1>4. OpeningInv' /\ OpenInv'
  BY <1>1 DEF OpeningInv, AtOpening, OpenInv, ScopeInv, Source, Container, Pictures, ClosingStages, ClosingInv, Gone
<1>5. ClosingInv'
  BY <1>1 DEF ClosingInv, Gone
<1>6. ScopeInv'
  BY <1>1 DEF ScopeInv, ClosingStages
<1>7. CodecsCloseFirst'
  BY <1>1 DEF CodecsCloseFirst, OpeningInv, AtOpening, Container
<1> QED
  BY <1>1, <1>2, <1>3, <1>4, <1>5, <1>6, <1>7, Assembled DEF Parts

LEMMA PlayPrepareFreeIInv ==
  ASSUME IInv, PlayPrepareFree
  PROVE  IInv'
<1> USE DEF IInv, threads, PlayPrepareFree, At, GoesTo, Fails, streams, flags, The, Both
<1>1. PointersMatch' /\ heap' = heap
  BY KeepMemory
<1>2. Typed'
  BY DEF Typed, Types, OpeningStages, ClosingStages, OpeningInv, AtOpening
<1>3. heap' \subseteq Resources
  BY <1>1 DEF Types, Resources, Kinds
<1>4. OpeningInv' /\ OpenInv'
  BY <1>1 DEF OpeningInv, AtOpening, OpenInv, ScopeInv, Source, Container, Pictures, ClosingStages, ClosingInv, Gone
<1>5. ClosingInv'
  BY <1>1 DEF ClosingInv, Gone
<1>6. ScopeInv'
  BY <1>1 DEF ScopeInv, ClosingStages
<1>7. CodecsCloseFirst'
  BY <1>1 DEF CodecsCloseFirst, OpeningInv, AtOpening, Container
<1> QED
  BY <1>1, <1>2, <1>3, <1>4, <1>5, <1>6, <1>7, Assembled DEF Parts

LEMMA JoinThreadsIInv ==
  ASSUME IInv, JoinThreads
  PROVE  IInv'
<1> USE DEF IInv, threads, JoinThreads, At, GoesTo, Fails, streams, flags, The, Both
<1>1. PointersMatch' /\ heap' = heap \ Threads
  BY FreeOld
<1>2. Typed'
  BY DEF Typed, Types, OpeningStages, ClosingStages, OpeningInv, AtOpening
<1>3. heap' \subseteq Resources
  BY <1>1 DEF Types
<1>4. OpeningInv' /\ OpenInv'
  BY <1>1 DEF OpeningInv, AtOpening, OpenInv, ScopeInv, Source, Container, Pictures, ClosingStages, ClosingInv, Gone, Threads, Each, Captured, Types, Joined, PointersMatch
<1>5. ClosingInv'
  <2>1. heap' \subseteq heap
    BY <1>1
  <2>2. \A kind \in {"reader", "decoder"} : heap' \cap Both(kind) = {}
    BY <1>1 DEF ScopeInv, Threads, Each, Captured, Types, Joined, PointersMatch
  <2> QED
    BY <2>1, <2>2 DEF ClosingInv, Gone
<1>6. ScopeInv'
  BY <1>1 DEF ScopeInv, ClosingInv, Gone, ClosingStages, Threads, Each, Captured, Types, Joined, PointersMatch
<1>7. CodecsCloseFirst'
  BY <1>1 DEF CodecsCloseFirst, ClosingInv, Gone, Threads, Each, Captured, Types, Joined, PointersMatch
<1> QED
  BY <1>1, <1>2, <1>3, <1>4, <1>5, <1>6, <1>7, Assembled DEF Parts

LEMMA AudioTrackFreeIInv ==
  ASSUME IInv, AudioTrackFree
  PROVE  IInv'
<1> USE DEF IInv, threads, AudioTrackFree, At, GoesTo, Fails, streams, flags, The, Both
<1>1. PointersMatch' /\ heap' = heap \ ({The("swr"), The("audio_track")} \cup AudioCodec)
  BY FreeOld DEF CloseAudio
<1>2. Typed'
  BY DEF Typed, Types, OpeningStages, ClosingStages, OpeningInv, AtOpening
<1>3. heap' \subseteq Resources
  BY <1>1 DEF Types
<1>4. OpeningInv' /\ OpenInv'
  BY <1>1 DEF OpeningInv, AtOpening, OpenInv, ScopeInv, Source, Container, Pictures, ClosingStages, ClosingInv, Gone, AudioCodec, Types
<1>5. ClosingInv'
  <2>1. heap' \subseteq heap
    BY <1>1
  <2>2. \A kind \in {"swr", "audio_track"} : heap' \cap Both(kind) = {}
    BY <1>1 DEF ScopeInv, AudioCodec, Types
  <2> QED
    BY <2>1, <2>2 DEF ClosingInv, Gone
<1>6. ScopeInv'
  BY <1>1 DEF ScopeInv, ClosingInv, Gone, ClosingStages, AudioCodec, Types
<1>7. CodecsCloseFirst'
  BY <1>1 DEF CodecsCloseFirst, ClosingInv, Gone, AudioCodec, Types
<1> QED
  BY <1>1, <1>2, <1>3, <1>4, <1>5, <1>6, <1>7, Assembled DEF Parts

LEMMA QueuesFreeIInv ==
  ASSUME IInv, QueuesFree
  PROVE  IInv'
<1> USE DEF IInv, threads, QueuesFree, At, GoesTo, Fails, streams, flags, The, Both
<1>1. PointersMatch' /\ heap' = heap \ Each("queue")
  BY FreeOld
<1>2. Typed'
  BY DEF Typed, Types, OpeningStages, ClosingStages, AfterQueues
<1>3. heap' \subseteq Resources
  BY <1>1 DEF Types
<1>4. OpeningInv' /\ OpenInv'
  BY <1>1 DEF OpeningInv, AtOpening, OpenInv, ScopeInv, Source, Container, Pictures, ClosingStages, ClosingInv, Gone, Each, Captured, AfterQueues, Types
<1>5. ClosingInv'
  <2>1. heap' \subseteq heap
    BY <1>1
  <2>2. \A kind \in {"queue"} : heap' \cap Both(kind) = {}
    BY <1>1 DEF ScopeInv, Each, Captured, AfterQueues, Types
  <2>3. pc' = "frames_free" => heap' \cap Both("sws") = {}
    BY <1>1 DEF ScopeInv, AfterQueues, ClosingStages
  <2> QED
    BY <2>1, <2>2, <2>3 DEF ClosingInv, Gone, AfterQueues
<1>6. ScopeInv'
  BY <1>1 DEF ScopeInv, ClosingInv, Gone, ClosingStages, Each, Captured, AfterQueues, Types
<1>7. CodecsCloseFirst'
  BY <1>1 DEF CodecsCloseFirst, ClosingInv, Gone, Each, Captured, AfterQueues, Types
<1> QED
  BY <1>1, <1>2, <1>3, <1>4, <1>5, <1>6, <1>7, Assembled DEF Parts

LEMMA SwsContextFreeIInv ==
  ASSUME IInv, SwsContextFree
  PROVE  IInv'
<1> USE DEF IInv, threads, SwsContextFree, At, GoesTo, Fails, streams, flags, The, Both
<1>1. PointersMatch' /\ heap' = heap \ {The("sws")}
  BY FreeOld
<1>2. Typed'
  BY DEF Typed, Types, OpeningStages, ClosingStages, OpeningInv, AtOpening
<1>3. heap' \subseteq Resources
  BY <1>1 DEF Types
<1>4. OpeningInv' /\ OpenInv'
  BY <1>1 DEF OpeningInv, AtOpening, OpenInv, ScopeInv, Source, Container, Pictures, ClosingStages, ClosingInv, Gone
<1>5. ClosingInv'
  <2>1. heap' \subseteq heap
    BY <1>1
  <2>2. \A kind \in {"sws"} : heap' \cap Both(kind) = {}
    BY <1>1 DEF ScopeInv
  <2> QED
    BY <2>1, <2>2 DEF ClosingInv, Gone
<1>6. ScopeInv'
  BY <1>1 DEF ScopeInv, ClosingInv, Gone, ClosingStages
<1>7. CodecsCloseFirst'
  BY <1>1 DEF CodecsCloseFirst, ClosingInv, Gone
<1> QED
  BY <1>1, <1>2, <1>3, <1>4, <1>5, <1>6, <1>7, Assembled DEF Parts

LEMMA FramesFreeIInv ==
  ASSUME IInv, FramesFree
  PROVE  IInv'
<1> USE DEF IInv, threads, FramesFree, At, GoesTo, Fails, streams, flags, The, Both
<1>1. PointersMatch' /\ heap' = heap \ Each("frame")
  BY FreeOld
<1>2. Typed'
  BY DEF Typed, Types, OpeningStages, ClosingStages, OpeningInv, AtOpening
<1>3. heap' \subseteq Resources
  BY <1>1 DEF Types
<1>4. OpeningInv' /\ OpenInv'
  BY <1>1 DEF OpeningInv, AtOpening, OpenInv, ScopeInv, Source, Container, Pictures, ClosingStages, ClosingInv, Gone, Each, Captured, Types
<1>5. ClosingInv'
  <2>1. heap' \subseteq heap
    BY <1>1
  <2>2. \A kind \in {"frame"} : heap' \cap Both(kind) = {}
    BY <1>1 DEF ScopeInv, Each, Captured, Types
  <2> QED
    BY <2>1, <2>2 DEF ClosingInv, Gone
<1>6. ScopeInv'
  BY <1>1 DEF ScopeInv, ClosingInv, Gone, ClosingStages, Each, Captured, Types
<1>7. CodecsCloseFirst'
  BY <1>1 DEF CodecsCloseFirst, ClosingInv, Gone, Each, Captured, Types
<1> QED
  BY <1>1, <1>2, <1>3, <1>4, <1>5, <1>6, <1>7, Assembled DEF Parts

LEMMA VideoFramesFreeIInv ==
  ASSUME IInv, VideoFramesFree
  PROVE  IInv'
<1> USE DEF IInv, threads, VideoFramesFree, At, GoesTo, Fails, streams, flags, The, Both
<1>1. PointersMatch' /\ heap' = heap \ Pictures
  BY FreeOld, PicturesAre
<1>2. Typed'
  BY DEF Typed, Types, OpeningStages, ClosingStages, OpeningInv, AtOpening
<1>3. heap' \subseteq Resources
  BY <1>1 DEF Types
<1>4. OpeningInv' /\ OpenInv'
  BY <1>1 DEF OpeningInv, AtOpening, OpenInv, ScopeInv, Source, Container, Pictures, ClosingStages, ClosingInv, Gone
<1>5. ClosingInv'
  <2>1. heap' \subseteq heap
    BY <1>1
  <2>2. \A kind \in {"rgb_frame", "tmp_frame", "tmp_frame2", "tmp_buffer", "tmp_buffer2"} : heap' \cap Both(kind) = {}
    BY <1>1 DEF ScopeInv, Pictures
  <2> QED
    BY <2>1, <2>2 DEF ClosingInv, Gone
<1>6. ScopeInv'
  BY <1>1 DEF ScopeInv, ClosingInv, Gone, ClosingStages, Pictures
<1>7. CodecsCloseFirst'
  BY <1>1 DEF CodecsCloseFirst, ClosingInv, Gone, Pictures
<1> QED
  BY <1>1, <1>2, <1>3, <1>4, <1>5, <1>6, <1>7, Assembled DEF Parts

LEMMA FindStreamsFreeIInv ==
  ASSUME IInv, FindStreamsFree
  PROVE  IInv'
<1> USE DEF IInv, threads, FindStreamsFree, At, GoesTo, Fails, streams, flags, The, Both
<1>1. PointersMatch' /\ heap' = heap \ Each("codec")
  BY FreeOld DEF CloseCodecs
<1>2. Typed'
  BY DEF Typed, Types, OpeningStages, ClosingStages, ResetStreams
<1>3. heap' \subseteq Resources
  BY <1>1 DEF Types
<1>4. OpeningInv' /\ OpenInv'
  BY <1>1 DEF OpeningInv, AtOpening, OpenInv, ScopeInv, Source, Container, Pictures, ClosingStages, ClosingInv, Gone, Each, Captured, Types
<1>5. ClosingInv'
  <2>1. heap' \subseteq heap
    BY <1>1
  <2>2. \A kind \in {"codec"} : heap' \cap Both(kind) = {}
    BY <1>1 DEF ScopeInv, Each, Captured, Types
  <2> QED
    BY <2>1, <2>2 DEF ClosingInv, Gone
<1>6. ScopeInv'
  <2>1. \A r \in heap' : r[1] \notin {"codec", "frame", "queue", "decoder"}
    BY <1>3, <1>5 DEF ClosingInv, Gone, Resources, Kinds
  <2> QED
    BY <1>1, <2>1 DEF ScopeInv, ClosingStages, ResetStreams, Each
<1>7. CodecsCloseFirst'
  BY <1>1 DEF CodecsCloseFirst, ClosingInv, Gone, Each, Captured, Types
<1> QED
  BY <1>1, <1>2, <1>3, <1>4, <1>5, <1>6, <1>7, Assembled DEF Parts

LEMMA OpenInputFreeIInv ==
  ASSUME IInv, OpenInputFree
  PROVE  IInv'
<1> USE DEF IInv, threads, OpenInputFree, At, GoesTo, Fails, streams, flags, The, Both
<1>1. PointersMatch' /\ heap' = heap \ (IF The("input") \in heap THEN {The("input"), The("context")} ELSE {})
  BY FreeOld DEF PointersMatch
<1>2. Typed'
  BY DEF Typed, Types, OpeningStages, ClosingStages, OpeningInv, AtOpening
<1>3. heap' \subseteq Resources
  BY <1>1 DEF Types
<1>4. OpeningInv' /\ OpenInv'
  BY <1>1 DEF OpeningInv, AtOpening, OpenInv, ScopeInv, Source, Container, Pictures, ClosingStages, ClosingInv, Gone
<1>5. ClosingInv'
  <2>1. heap' \subseteq heap
    BY <1>1
  <2>2. \A kind \in {"input", "context"} : heap' \cap Both(kind) = {}
    BY <1>1 DEF ScopeInv
  <2> QED
    BY <2>1, <2>2 DEF ClosingInv, Gone
<1>6. ScopeInv'
  BY <1>1 DEF ScopeInv, ClosingInv, Gone, ClosingStages
<1>7. CodecsCloseFirst'
  BY <1>1 DEF CodecsCloseFirst, ClosingInv, Gone
<1> QED
  BY <1>1, <1>2, <1>3, <1>4, <1>5, <1>6, <1>7, Assembled DEF Parts

LEMMA CreateContextFreeIInv ==
  ASSUME IInv, CreateContextFree
  PROVE  IInv'
<1> USE DEF IInv, threads, CreateContextFree, At, GoesTo, Fails, streams, flags, The, Both
<1>1. PointersMatch' /\ heap' = heap \ {The("context")}
  BY FreeOld
<1>2. Typed'
  BY DEF Typed, Types, OpeningStages, ClosingStages, OpeningInv, AtOpening
<1>3. heap' \subseteq Resources
  BY <1>1 DEF Types
<1>4. OpeningInv' /\ OpenInv'
  BY <1>1 DEF OpeningInv, AtOpening, OpenInv, ScopeInv, Source, Container, Pictures, ClosingStages, ClosingInv, Gone, Types, Resources, Kinds
<1>5. ClosingInv'
  <2>1. heap' \subseteq heap
    BY <1>1
  <2>2. \A kind \in {} : heap' \cap Both(kind) = {}
    BY <1>1 DEF ScopeInv, Types, Resources, Kinds
  <2> QED
    BY <2>1, <2>2 DEF ClosingInv, Gone
<1>6. ScopeInv'
  BY <1>1 DEF ScopeInv, ClosingInv, Gone, ClosingStages, Types, Resources, Kinds
<1>7. CodecsCloseFirst'
  BY <1>1 DEF CodecsCloseFirst, ClosingInv, Gone, Types, Resources, Kinds
<1> QED
  BY <1>1, <1>2, <1>3, <1>4, <1>5, <1>6, <1>7, Assembled DEF Parts

LEMMA ConvertPictureIInv ==
  ASSUME IInv, ConvertPicture
  PROVE  IInv'
<1> USE DEF IInv, threads, ConvertPicture, At, GoesTo, Fails, streams, flags, The, Both
<1>1. PointersMatch' /\ heap' = heap \cup {The("sws")}
  <2>1. heap \cap {The("sws")} = {}
    BY DEF PointersMatch
  <2> QED
    BY <2>1, AllocateNew
<1>2. Typed'
  BY DEF Typed, Types, OpeningStages, ClosingStages, OpeningInv, AtOpening
<1>3. heap' \subseteq Resources
  BY <1>1 DEF Types, Resources, Kinds
<1>4. OpeningInv' /\ OpenInv'
  BY <1>1 DEF OpeningInv, AtOpening, OpenInv, ScopeInv, Source, Container, Pictures, ClosingStages, ClosingInv, Gone
<1>5. ClosingInv'
  BY <1>1 DEF ClosingInv, Gone, ScopeInv
<1>6. ScopeInv'
  BY <1>1 DEF ScopeInv, ClosingStages, OpeningInv, AtOpening, OpenInv
<1>7. CodecsCloseFirst'
  BY <1>1 DEF CodecsCloseFirst, OpeningInv, AtOpening, Container
<1> QED
  BY <1>1, <1>2, <1>3, <1>4, <1>5, <1>6, <1>7, Assembled DEF Parts

LEMMA ThreadEndsIInv ==
  ASSUME IInv, NEW t \in running, ThreadEnds(t)
  PROVE  IInv'
<1> USE DEF IInv, threads, ThreadEnds, At, GoesTo, Fails, streams, flags, The, Both
<1>1. PointersMatch' /\ heap' = heap
  BY KeepMemory
<1>2. Typed'
  BY DEF Typed, Types, OpeningStages, ClosingStages, OpeningInv, AtOpening
<1>3. heap' \subseteq Resources
  BY <1>1 DEF Types, Resources, Kinds
<1>4. OpeningInv' /\ OpenInv'
  BY <1>1 DEF OpeningInv, AtOpening, OpenInv, ScopeInv, Source, Container, Pictures, ClosingStages, ClosingInv, Gone
<1>5. ClosingInv'
  BY <1>1 DEF ClosingInv, Gone
<1>6. ScopeInv'
  BY <1>1 DEF ScopeInv
<1>7. CodecsCloseFirst'
  BY <1>1 DEF CodecsCloseFirst, OpeningInv, AtOpening, Container
<1> QED
  BY <1>1, <1>2, <1>3, <1>4, <1>5, <1>6, <1>7, Assembled DEF Parts

(* What is held is what the stage reached says, in every state.             *)
THEOREM Invariance == Spec => []IInv
<1>1. IInv /\ [Next]_vars => IInv'
  <2> SUFFICES ASSUME IInv, [Next]_vars
               PROVE  IInv'
    OBVIOUS
  <2>1. CASE Open
    BY <2>1, BeginIInv, CreateContextIInv, OpenInputIInv, FindStreamInfoIInv,
       ReportStreamsIInv, FindVideoIInv, FindAudioIInv, AllocVideoFramesIInv,
       AllocFramesIInv, AllocQueuesIInv, CreateAudioTrackIInv, PlayPrepareIInv,
       StartDecoderIInv, StartReaderIInv, CannotStartIInv DEF Open
  <2>2. CASE Close
    BY <2>2, StopPlayingIInv, PlayPrepareFreeIInv, JoinThreadsIInv, AudioTrackFreeIInv,
       QueuesFreeIInv, SwsContextFreeIInv, FramesFreeIInv, VideoFramesFreeIInv,
       FindStreamsFreeIInv, OpenInputFreeIInv, CreateContextFreeIInv DEF Close
  <2>3. CASE ConvertPicture
    BY <2>3, ConvertPictureIInv
  <2>4. CASE \E t \in running : ThreadEnds(t)
    BY <2>4, ThreadEndsIInv
  <2>5. CASE UNCHANGED vars
    BY <2>5 DEF vars, memory, streams, flags, threads, IInv, Types, PointersMatch, OpeningInv,
                AtOpening, OpenInv, ClosingInv, Gone, ScopeInv, CodecsCloseFirst
  <2> QED
    BY <2>1, <2>2, <2>3, <2>4, <2>5 DEF Next
<1> QED
  BY <1>1, InitIInv, PTL DEF Spec

-----------------------------------------------------------------------------
(* What follows from it.                                                    *)

(* A DecoderData belongs to a thread that has not ended, and goes with it.  *)
DataInv == decoder_data = {i \in {0, 1} : <<"decoder", i>> \in running}

LEMMA DataStep ==
  ASSUME IInv, DataInv, [Next]_vars
  PROVE  DataInv'
<1>1. CASE UNCHANGED threads
  BY <1>1 DEF DataInv, threads
<1>2. CASE StartDecoder
  <2>1. n = 2
    BY <1>2 DEF StartDecoder, IInv, OpenInv
  <2>2. PICK i \in Captured : Start(<<"decoder", i>>) /\ decoder_data' = decoder_data \cup {i}
    BY <1>2 DEF StartDecoder
  <2>3. i \in {0, 1} /\ running' = running \cup {<<"decoder", i>>}
    BY <2>1, <2>2 DEF Captured, Start
  <2> QED
    BY <2>2, <2>3 DEF DataInv
<1>3. CASE StartReader
  <2>1. running' = running \cup {The("reader")} /\ UNCHANGED decoder_data
    BY <1>3 DEF StartReader, Start
  <2>2. \A i \in {0, 1} : <<"decoder", i>> # The("reader")
    BY DEF The
  <2> QED
    BY <2>1, <2>2 DEF DataInv
<1>4. ASSUME NEW t \in running, ThreadEnds(t)
      PROVE  DataInv'
  BY <1>4 DEF ThreadEnds, DataInv
<1>5. Begin \/ CreateContext \/ OpenInput \/ FindStreamInfo \/ ReportStreams => UNCHANGED threads
  BY DEF Begin, CreateContext, OpenInput, FindStreamInfo, ReportStreams, At
<1>6. FindVideo \/ FindAudio \/ AllocVideoFrames \/ AllocFrames \/ AllocQueues => UNCHANGED threads
  BY DEF FindVideo, FindAudio, AllocVideoFrames, AllocFrames, AllocQueues, At
<1>7. CreateAudioTrack \/ PlayPrepare \/ CannotStart => UNCHANGED threads
  BY DEF CreateAudioTrack, PlayPrepare, CannotStart, At
<1>8. Close => UNCHANGED threads
  BY DEF Close, StopPlaying, PlayPrepareFree, JoinThreads, AudioTrackFree, QueuesFree,
         SwsContextFree, FramesFree, VideoFramesFree, FindStreamsFree, OpenInputFree,
         CreateContextFree, At
<1>9. ConvertPicture \/ UNCHANGED vars => UNCHANGED threads
  BY DEF ConvertPicture, vars
<1> QED
  BY <1>1, <1>2, <1>3, <1>4, <1>5, <1>6, <1>7, <1>8, <1>9 DEF Next, Open

LEMMA DataHolds == Spec => []DataInv
<1>1. Init => DataInv
  BY DEF Init, DataInv
<1> QED
  BY <1>1, DataStep, Invariance, PTL DEF Spec

(* The program counter, the stream numbers and what is allocated keep to    *)
(* their types: no third stream is ever captured.                           *)
THEOREM TypeCorrect == Spec => []TypeOK
<1>1. IInv /\ DataInv => TypeOK
  BY DEF IInv, Types, DataInv, TypeOK
<1> QED
  BY <1>1, Invariance, DataHolds, PTL

(* Nothing is freed twice, and nothing is lost but the DecoderData of a     *)
(* decoder that could not be created, whichever stage failed.               *)
THEOREM NothingLost == Spec => []MemoryMatches
<1>1. IInv /\ DataInv => MemoryMatches
  BY DEF IInv, PointersMatch, DataInv, MemoryMatches
<1> QED
  BY <1>1, Invariance, DataHolds, PTL

(* player_stop_without_lock and the error path give back all that has a     *)
(* pointer, and the threads have freed their own.                           *)
THEOREM EverythingGivenBack == Spec => []IdleHoldsNothing
<1>1. IInv /\ DataInv => IdleHoldsNothing
  <2>1. IInv /\ pc \in {"idle", "create_context"} /\ ~playing => heap = {} /\ running = {} /\ n = 0
    BY DEF IInv, ScopeInv, OpeningInv, AtOpening
  <2> QED
    BY <2>1 DEF IdleHoldsNothing, DataInv
<1> QED
  BY <1>1, Invariance, DataHolds, PTL

(* No thread outlives what it uses.                                         *)
THEOREM ThreadsKeepTheirs == Spec => []ThreadsHaveTheirs
<1>1. IInv => ThreadsHaveTheirs
  <2> SUFFICES ASSUME IInv, NEW t \in running
               PROVE  Needs(t) \subseteq heap
    BY DEF ThreadsHaveTheirs
  <2>1. Source \subseteq heap /\ t \in heap
    BY DEF IInv, OpenInv, ScopeInv
  <2>2. {<<kind, i>> : kind \in {"codec", "queue", "frame"}, i \in {0, 1}} \subseteq Source
    BY DEF Source, Both
  <2>3. {The("context"), The("input"), The("audio_track")} \cup Pictures \subseteq Source
    BY DEF Source, Container
  <2> QED
    BY <2>1, <2>2, <2>3, PicturesAre DEF Needs
<1> QED
  BY <1>1, Invariance, PTL

(* avcodec_close comes before avformat_close_input.                         *)
THEOREM CodecsBeforeInput == Spec => []CodecsCloseFirst
BY Invariance, PTL DEF IInv
=============================================================================
