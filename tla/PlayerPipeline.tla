--------------------------- MODULE PlayerPipeline ---------------------------
(***************************************************************************)
(* The playing core of jni/player.c: one thread reads packets from the     *)
(* file, one thread per stream decodes them, and the threads of the app    *)
(* call pause, resume, seek, stop and set_data_source.                     *)
(*                                                                         *)
(* What runs between taking mutex_queue and giving it back (or waiting on  *)
(* cond_queue) is one step.  Opening, reading, copying a packet, decoding  *)
(* and joining run without it and are steps of their own.  A thread in     *)
(* pthread_cond_wait is in asleep until somebody broadcasts.               *)
(*                                                                         *)
(* Two marks record what the program does not: a packet is fresh until a   *)
(* seek succeeds after it was read, and a codec remembers whether it holds *)
(* data of fresh or of stale packets.                                      *)
(*                                                                         *)
(* A few definitions are preceded by a variant with an easily made mistake *)
(* (SomeAnswered, Signal, Sleep, ...).  No action uses them: they are      *)
(* there to show that the properties would notice.                         *)
(***************************************************************************)
EXTENDS Fifo, FiniteSets

CONSTANTS
  Streams,   \* the captured streams, one decoder thread and one queue each
  Video,     \* the stream that carries the end of the file and the seeks
  Callers,   \* threads of the app that call into the player
  Reader,    \* the thread running player_read_from_stream
  Other,     \* a stream of the file that is not captured
  Nobody,    \* mutex_operation is free
  Faults     \* what may go wrong: "seek", "decode", "dup", "create", "attach"
             \* fail, or the reader's stream count is read while "unset"

Kinds   == {"data", "junk", "eos", "cut"}
Packets == [kind : Kinds, fresh : BOOLEAN]   \* in a queue
Hands   == [stream : Streams \cup {Other}, kind : Kinds]   \* just read

ASSUME PipelineAssumption ==
  /\ Video \in Streams /\ Other \notin Streams
  /\ Reader \notin Streams \cup Callers /\ Streams \cap Callers = {}
  /\ Nobody \notin Callers /\ NoPacket \notin Packets \cup Hands
  /\ Capacity \in Nat \ {0}

VARIABLES
  packets,        \* the queue of each stream, a Fifo value
  allocated,      \* the queues exist (between player_alloc_queues and its free)
  codec,          \* what the codec of each stream holds: "clean", "fresh", "stale"
  playing, pause, stop, seek_position, interrupt,
  flush_streams, stop_streams,   \* requests of the reader to each decoder
  reader, hand,   \* where the reader is, and the packet it has just read
  counted,        \* this iteration of the reader has assigned caputre_streams_no
  decoder,        \* where each decoder is
  failed,         \* whether the decoder got an error for the packet it holds
  caller,         \* where each caller is
  op,             \* who holds mutex_operation
  goal,           \* why op joins the threads: "stop", "load", "error"
  asleep          \* the threads inside pthread_cond_wait

media     == <<packets, codec>>
flags     == <<playing, pause, stop, seek_position, interrupt>>
requests  == <<flush_streams, stop_streams>>
readerVars  == <<reader, hand, counted>>
decoderVars == <<decoder, failed>>
callerVars  == <<caller, op, goal>>
vars == <<media, allocated, flags, requests, readerVars, decoderVars,
          callerVars, asleep>>

\* The end-of-stream packets: after the end of the file, or after a read that
\* player_stop interrupted.
EndKinds == {"eos", "cut"}

DO_NOT_SEEK == "DO_NOT_SEEK"

\* player_assign_to_no_boolean_array, and player_if_all_no_array_elements_has_value
\* for FALSE, the answer to a request.
All(value) == [s \in Streams |-> value]

SomeAnswered(request) == \E s \in Streams : ~request[s]
Answered(request) == request = All(FALSE)

Awake(t)  == t \notin asleep
Signal    == asleep' \in {asleep \ {t} : t \in asleep} \cup (IF asleep = {} THEN {{}} ELSE {})
Broadcast == asleep' = {}
Sleep(t)  == asleep' = asleep \cup {t}
BroadcastAndSleep(t) == asleep' = {t}

\* What jni_player_init leaves unassigned is zero: an allocation of this size
\* comes as fresh pages.  For seek_position zero is a position.
Init ==
  /\ packets = All(Empty) /\ allocated = FALSE /\ codec = All("clean")
  /\ playing = FALSE /\ pause = FALSE /\ stop = TRUE
  /\ seek_position = "target" /\ interrupt = FALSE
  /\ flush_streams = All(FALSE) /\ stop_streams = All(FALSE)
  /\ reader = "none" /\ hand = NoPacket /\ counted = FALSE
  /\ decoder = All("none") /\ failed = All(FALSE)
  /\ caller = [c \in Callers |-> "idle"] /\ op = Nobody /\ goal = "stop"
  /\ asleep = {}

-----------------------------------------------------------------------------
(* The reader: player_read_from_stream.                                    *)

\* The places where the reader looks at stop and seek_position: before it
\* looks for the queue, in the two push loops, and after the end of the file.
AtCheck == reader \in {"offer", "push", "eof", "eofWait"} /\ Awake(Reader)
NotAsked == ~stop /\ seek_position = DO_NOT_SEEK
GoesOn  == AtCheck /\ NotAsked

\* av_read_frame returns a packet of some stream, or fails at the end of the
\* file; the interrupt callback makes it fail too.
ReadFrame ==
  /\ reader = "read"
  /\ \/ \E s \in Streams \cup {Other} : hand' = [stream |-> s, kind |-> "data"]
        /\ reader' = "offer"
     \/ /\ \/ hand' = [stream |-> Video, kind |-> "eos"]
           \/ interrupt /\ hand' = [stream |-> Video, kind |-> "cut"]
        /\ reader' = "eof"
  /\ counted' = FALSE
  /\ UNCHANGED <<media, allocated, flags, requests, decoderVars, callerVars, asleep>>

\* From parse_frame on: find the queue, wait for room, reserve a slot.
Offer(pkt, sleepers) ==
  \/ /\ pkt.stream = Other
     /\ reader' = "read" /\ hand' = NoPacket
     /\ asleep' = sleepers /\ UNCHANGED packets
  \/ /\ pkt.stream # Other /\ CanReserve(packets[pkt.stream])
     /\ packets' = [packets EXCEPT ![pkt.stream] = Reserve(@)]
     /\ reader' = "fill" /\ hand' = pkt
     /\ Broadcast
  \/ /\ pkt.stream # Other /\ ~CanReserve(packets[pkt.stream])
     /\ reader' = "push" /\ hand' = pkt
     /\ asleep' = sleepers \cup {Reader} /\ UNCHANGED packets

OfferPacket ==
  /\ reader \in {"offer", "push"} /\ GoesOn
  /\ counted' = (counted \/ reader = "offer")
  /\ Offer(hand, asleep)
  /\ UNCHANGED <<codec, allocated, flags, requests, decoderVars, callerVars>>

\* Copy, av_dup_packet and queue_push_finish.
PublishPacket ==
  /\ reader = "fill"
  /\ packets' = [packets EXCEPT ![hand.stream] =
                   Publish(@, [kind |-> hand.kind, fresh |-> TRUE])]
  /\ reader' = "read" /\ hand' = NoPacket
  /\ Broadcast
  /\ UNCHANGED <<codec, allocated, flags, requests, counted, decoderVars, callerVars>>

\* The end-of-stream packet goes to the video queue in one critical section;
\* then the reader waits to be stopped or to seek.
PushEndAndReadOn ==
  /\ reader = "eof" /\ GoesOn /\ CanReserve(packets[Video])
  /\ packets' = [packets EXCEPT ![Video] =
                   Publish(Reserve(@), [kind |-> hand.kind, fresh |-> TRUE])]
  /\ reader' = "read" /\ hand' = NoPacket
  /\ Broadcast
  /\ UNCHANGED <<codec, allocated, flags, requests, counted, decoderVars, callerVars>>

PushEndOfStream ==
  /\ reader = "eof" /\ GoesOn
  /\ IF CanReserve(packets[Video])
     THEN /\ packets' = [packets EXCEPT ![Video] =
                           Publish(Reserve(@), [kind |-> hand.kind, fresh |-> TRUE])]
          /\ reader' = "eofWait" /\ hand' = NoPacket
          /\ BroadcastAndSleep(Reader)
     ELSE Sleep(Reader) /\ UNCHANGED <<packets, reader, hand>>
  /\ UNCHANGED <<codec, allocated, flags, requests, counted, decoderVars, callerVars>>

WaitAtEnd ==
  /\ reader = "eofWait" /\ GoesOn
  /\ Sleep(Reader)
  /\ UNCHANGED <<media, allocated, flags, requests, readerVars, decoderVars, callerVars>>

\* exit_loop: ask every decoder to stop and wait until all have answered.
ExitLoop ==
  /\ \/ AtCheck /\ stop
     \/ reader = "fill" /\ "dup" \in Faults
  /\ stop_streams' = All(TRUE)
  /\ reader' = "stopWait" /\ hand' = NoPacket
  /\ BroadcastAndSleep(Reader)
  /\ UNCHANGED <<media, allocated, flags, flush_streams, counted, decoderVars, callerVars>>

\* The loops over caputre_streams_no, a local of the loop's body that is only
\* assigned on the way from the check to parse_frame.  Read in an iteration
\* that jumped over it, it is any number: the codecs of any streams are
\* flushed, or none is.
CountIsRight == counted \/ "unset" \notin Faults

FlushNothing == UNCHANGED codec

FlushCodecs ==
  \E flushed \in IF CountIsRight THEN {Streams} ELSE SUBSET Streams :
    codec' = [s \in Streams |-> IF s \in flushed THEN "clean" ELSE codec[s]]

ReaderExits ==
  /\ reader = "stopWait" /\ Awake(Reader) /\ Answered(stop_streams)
  /\ FlushCodecs
  /\ reader' = "done"
  /\ UNCHANGED <<packets, allocated, flags, requests, hand, counted, decoderVars,
                 callerVars, asleep>>

\* seek_loop when av_seek_frame fails: forget the seek and go on with the
\* packet in hand.  After a failed read that packet is what av_init_packet
\* left: no data, stream index 0, captured or not.  The search for its queue
\* finds nothing when the count is wrong.
PacketToOffer ==
  (IF reader \in {"offer", "push"} THEN {hand}
   ELSE {[stream |-> s, kind |-> "junk"] : s \in Streams \cup {Other}})
  \cup (IF CountIsRight THEN {} ELSE {[stream |-> Other, kind |-> "junk"]})

SeekFails ==
  /\ AtCheck /\ ~stop /\ seek_position # DO_NOT_SEEK
  /\ "seek" \in Faults
  /\ seek_position' = DO_NOT_SEEK
  /\ \E pkt \in PacketToOffer : Offer(pkt, {})
  /\ UNCHANGED <<codec, allocated, playing, pause, stop, interrupt, requests,
                 counted, decoderVars, callerVars>>

Aged(p) == [p EXCEPT !.fresh = FALSE]
AgedQueue(f) ==
  [f EXCEPT !.items = [i \in DOMAIN @ |-> Aged(@[i])],
            !.taken = IF @ = NoPacket THEN @ ELSE Aged(@)]

\* seek_loop when av_seek_frame succeeds: what was read before is now stale;
\* ask every decoder to flush and wait until all have answered.
SeekStarts ==
  /\ AtCheck /\ ~stop /\ seek_position # DO_NOT_SEEK
  /\ packets' = [s \in Streams |-> AgedQueue(packets[s])]
  /\ codec' = [s \in Streams |-> IF codec[s] = "clean" THEN "clean" ELSE "stale"]
  /\ flush_streams' = All(TRUE)
  /\ reader' = "seekWait" /\ hand' = NoPacket
  /\ BroadcastAndSleep(Reader)
  /\ UNCHANGED <<allocated, flags, stop_streams, counted, decoderVars, callerVars>>

SeekEnds ==
  /\ reader = "seekWait" /\ Awake(Reader) /\ Answered(flush_streams)
  /\ FlushCodecs
  /\ seek_position' = DO_NOT_SEEK
  /\ reader' = "read"
  /\ Broadcast
  /\ UNCHANGED <<packets, allocated, playing, pause, stop, interrupt, requests,
                 hand, counted, decoderVars, callerVars>>

\* Woken, but some decoder has not answered yet.
ReaderKeepsWaiting ==
  /\ Awake(Reader)
  /\ \/ reader = "stopWait" /\ ~Answered(stop_streams)
     \/ reader = "seekWait" /\ ~Answered(flush_streams)
  /\ Sleep(Reader)
  /\ UNCHANGED <<media, allocated, flags, requests, readerVars, decoderVars, callerVars>>

ReaderNext ==
  \/ ReadFrame \/ OfferPacket \/ PublishPacket \/ PushEndOfStream \/ WaitAtEnd
  \/ ExitLoop \/ ReaderExits
  \/ SeekFails \/ SeekStarts \/ SeekEnds \/ ReaderKeepsWaiting
-----------------------------------------------------------------------------
(* The decoder of stream s: player_decode.                                 *)

AtPop(s) == decoder[s] = "pop" /\ Awake(s)
Move(s, place) == decoder' = [decoder EXCEPT ![s] = place]

TakePacket(s) ==
  /\ AtPop(s) /\ ~stop_streams[s] /\ ~flush_streams[s]
  /\ CanTake(packets[s])
  /\ packets' = [packets EXCEPT ![s] = Take(@)]
  /\ Move(s, "decode")
  /\ UNCHANGED <<codec, allocated, flags, requests, readerVars, failed, callerVars, asleep>>

WaitForPacket(s) ==
  /\ AtPop(s) /\ ~stop_streams[s] /\ ~flush_streams[s]
  /\ ~CanTake(packets[s])
  /\ Sleep(s)
  /\ UNCHANGED <<media, allocated, flags, requests, readerVars, decoderVars, callerVars>>

\* player_decode_audio or player_decode_video up to player_wait_for_frame: a
\* frame, no complete frame (or no window to show it in), or an error.
Decode(s) ==
  /\ decoder[s] = "decode"
  /\ codec' = IF packets[s].taken.kind \in EndKinds THEN codec
              ELSE [codec EXCEPT ![s] = IF packets[s].taken.fresh THEN "fresh" ELSE "stale"]
  /\ \/ Move(s, "wait") /\ UNCHANGED failed
     \/ Move(s, "report") /\ UNCHANGED failed
     \/ "decode" \in Faults /\ Move(s, "report") /\ failed' = [failed EXCEPT ![s] = TRUE]
  /\ UNCHANGED <<packets, allocated, flags, requests, readerVars, callerVars, asleep>>

\* player_wait_for_frame: sleeps while paused; a flush or stop request ends
\* the wait at once, otherwise the frame's time comes (the waits are timed).
\* Writing the sound that was waited for can fail.
WaitEndsOnResume(s) == ~pause
WaitEnds(s) == flush_streams[s] \/ stop_streams[s] \/ ~pause

FrameIsDue(s) ==
  /\ decoder[s] = "wait" /\ Awake(s) /\ WaitEnds(s)
  /\ Move(s, "report")
  /\ \/ UNCHANGED failed
     \/ /\ "decode" \in Faults /\ s # Video
        /\ ~flush_streams[s] /\ ~stop_streams[s]
        /\ failed' = [failed EXCEPT ![s] = TRUE]
  /\ UNCHANGED <<media, allocated, flags, requests, readerVars, callerVars, asleep>>

FrameWhilePaused(s) ==
  /\ decoder[s] = "wait" /\ Awake(s) /\ ~WaitEnds(s)
  /\ Sleep(s)
  /\ UNCHANGED <<media, allocated, flags, requests, readerVars, decoderVars, callerVars>>

\* player_update_time (with is_finished for an end-of-stream packet), then
\* queue_pop_finish.
ReportAndRelease(s) ==
  /\ decoder[s] = "report"
  /\ packets' = [packets EXCEPT ![s] = Release(@)]
  /\ Move(s, IF failed[s] THEN "fail" ELSE "pop")
  /\ Broadcast
  /\ UNCHANGED <<codec, allocated, flags, requests, readerVars, failed, callerVars>>

\* Empty the queue, answer the request; after a stop the thread ends.  An
\* error ends it the same way, asked or not.
FlushStream(s) ==
  /\ AtPop(s) /\ ~stop_streams[s] /\ flush_streams[s]
  /\ packets' = [packets EXCEPT ![s] = Drain(@)]
  /\ flush_streams' = [flush_streams EXCEPT ![s] = FALSE]
  /\ Broadcast
  /\ UNCHANGED <<codec, allocated, flags, stop_streams, readerVars, decoderVars, callerVars>>

StopStream(s) ==
  /\ (AtPop(s) /\ stop_streams[s]) \/ decoder[s] = "fail"
  /\ packets' = [packets EXCEPT ![s] = Drain(@)]
  /\ stop_streams' = [stop_streams EXCEPT ![s] = FALSE]
  /\ Move(s, "done")
  /\ Broadcast
  /\ UNCHANGED <<codec, allocated, flags, flush_streams, readerVars, failed, callerVars>>

DecoderNext(s) ==
  \/ TakePacket(s) \/ WaitForPacket(s) \/ Decode(s)
  \/ FrameIsDue(s) \/ FrameWhilePaused(s) \/ ReportAndRelease(s)
  \/ FlushStream(s) \/ StopStream(s)

-----------------------------------------------------------------------------
(* The app's threads.                                                      *)

Place(c, place) == caller' = [caller EXCEPT ![c] = place]
Idle(c)    == caller[c] = "idle"
EnterAnyway(c) == op' = c
Enter(c)   == op = Nobody /\ op' = c
\* player_play_prepare_free
AskToStop  == stop' = TRUE /\ Broadcast

\* jni_player_pause and jni_player_resume throw when nothing is playing.
Pause(c) ==
  /\ Idle(c) /\ op = Nobody /\ playing /\ ~pause
  /\ pause' = TRUE
  /\ Broadcast
  /\ UNCHANGED <<media, allocated, playing, stop, seek_position, interrupt,
                 requests, readerVars, decoderVars, callerVars>>

Resume(c) ==
  /\ Idle(c) /\ op = Nobody /\ playing /\ pause
  /\ pause' = FALSE
  /\ Broadcast
  /\ UNCHANGED <<media, allocated, playing, stop, seek_position, interrupt,
                 requests, readerVars, decoderVars, callerVars>>

\* jni_player_seek: post the position and wait until the reader is done.
Seek(c) ==
  /\ Idle(c) /\ playing /\ Enter(c)
  /\ seek_position' = "target"
  /\ Place(c, "seeking")
  /\ BroadcastAndSleep(c)
  /\ UNCHANGED <<media, allocated, playing, pause, stop, interrupt, requests,
                 readerVars, decoderVars, goal>>

SeekWaits(c) ==
  /\ caller[c] = "seeking" /\ Awake(c) /\ seek_position # DO_NOT_SEEK
  /\ Sleep(c)
  /\ UNCHANGED <<media, allocated, flags, requests, readerVars, decoderVars, callerVars>>

SeekReturns(c) ==
  /\ caller[c] = "seeking" /\ Awake(c) /\ seek_position = DO_NOT_SEEK
  /\ Place(c, "idle") /\ op' = Nobody
  /\ UNCHANGED <<media, allocated, flags, requests, readerVars, decoderVars, goal, asleep>>

\* player_stop interrupts the input before it waits for mutex_operation.
Interrupt(c) ==
  /\ Idle(c)
  /\ interrupt' = TRUE
  /\ Place(c, "stopping")
  /\ UNCHANGED <<media, allocated, playing, pause, stop, seek_position, requests,
                 readerVars, decoderVars, op, goal, asleep>>

\* player_stop_without_lock when something is playing.
StopWithoutReader(c, why) ==
  /\ Enter(c) /\ playing
  /\ playing' = FALSE
  /\ AskToStop
  /\ Place(c, "joinDecoders") /\ goal' = why
  /\ UNCHANGED <<media, allocated, pause, seek_position, interrupt, requests,
                 readerVars, decoderVars>>

StopPlaying(c, why) ==
  /\ Enter(c) /\ playing
  /\ playing' = FALSE
  /\ AskToStop
  /\ Place(c, "joinReader") /\ goal' = why
  /\ UNCHANGED <<media, allocated, pause, seek_position, interrupt, requests,
                 readerVars, decoderVars>>

Stop(c) ==
  \/ caller[c] = "stopping" /\ StopPlaying(c, "stop")
  \/ /\ caller[c] = "stopping" /\ op = Nobody /\ ~playing
     /\ Place(c, "idle")
     /\ UNCHANGED <<media, allocated, flags, requests, readerVars, decoderVars,
                    op, goal, asleep>>

\* player_set_data_source first stops what is playing.
SetDataSource(c) ==
  \/ Idle(c) /\ StopPlaying(c, "load")
  \/ /\ Idle(c) /\ ~playing /\ Enter(c)
     /\ Place(c, "open")
     /\ UNCHANGED <<media, allocated, flags, requests, readerVars, decoderVars,
                    goal, asleep>>

\* player_create_interrupt_callback forgets an interrupt asked for earlier.
OpenContext(c) ==
  /\ caller[c] = "open"
  /\ pause' = TRUE /\ interrupt' = FALSE
  /\ Place(c, "setup")
  /\ UNCHANGED <<media, allocated, playing, stop, seek_position, requests,
                 readerVars, decoderVars, op, goal, asleep>>

\* All steps from player_open_input to player_play_prepare succeed: new
\* queues, new codecs, no request left over.
Prepare(c) ==
  /\ caller[c] = "setup"
  /\ allocated' = TRUE /\ packets' = All(Empty) /\ codec' = All("clean")
  /\ stop' = FALSE /\ seek_position' = DO_NOT_SEEK
  /\ flush_streams' = All(FALSE) /\ stop_streams' = All(FALSE)
  /\ failed' = All(FALSE)
  /\ Place(c, "create")
  /\ Broadcast
  /\ UNCHANGED <<playing, pause, interrupt, readerVars, decoder, op, goal>>

\* One of them fails, or a thread cannot be created: the error path stops
\* and joins whatever was created.
GiveUp(c) ==
  /\ caller[c] = "setup" \/ (caller[c] = "create" /\ "create" \in Faults)
  /\ AskToStop
  /\ Place(c, "joinReader") /\ goal' = "error"
  /\ UNCHANGED <<media, allocated, playing, pause, seek_position, interrupt,
                 requests, readerVars, decoderVars, op>>

\* player_start_decoding_threads.  A thread that cannot attach to the Java VM
\* ends at once.
FirstPlaces(place) == {place} \cup (IF "attach" \in Faults THEN {"done"} ELSE {})

CreateDecoder(c) ==
  /\ caller[c] = "create"
  /\ \E s \in Streams, place \in FirstPlaces("pop") :
       decoder[s] = "none" /\ Move(s, place)
  /\ UNCHANGED <<media, allocated, flags, requests, readerVars, failed, callerVars, asleep>>

CreateReader(c) ==
  /\ caller[c] = "create"
  /\ \A s \in Streams : decoder[s] # "none"
  /\ reader' \in FirstPlaces("read")
  /\ playing' = TRUE
  /\ Place(c, "idle") /\ op' = Nobody
  /\ UNCHANGED <<media, allocated, pause, stop, seek_position, interrupt,
                 requests, hand, counted, decoderVars, goal, asleep>>

\* pthread_join returns when the thread has ended, at once when there is none.
Joins(place) == place \in {"none", "done"}

\* player_start_decoding_threads_free: the reader first, then the decoders.
JoinReader(c) ==
  /\ caller[c] = "joinReader" /\ Joins(reader)
  /\ reader' = "none"
  /\ Place(c, "joinDecoders")
  /\ UNCHANGED <<media, allocated, flags, requests, hand, counted, decoderVars,
                 op, goal, asleep>>

\* Then the queues and everything opened for the source are freed.
JoinDecoders(c) ==
  /\ caller[c] = "joinDecoders"
  /\ \A s \in Streams : Joins(decoder[s])
  /\ decoder' = All("none") /\ failed' = All(FALSE)
  /\ allocated' = FALSE /\ packets' = All(Empty) /\ codec' = All("clean")
  /\ IF goal = "load"
     THEN Place(c, "open") /\ UNCHANGED op
     ELSE Place(c, "idle") /\ op' = Nobody
  /\ UNCHANGED <<flags, requests, readerVars, goal, asleep>>

CallerContinues(c) ==
  \/ SeekWaits(c) \/ SeekReturns(c)
  \/ OpenContext(c) \/ Prepare(c) \/ GiveUp(c)
  \/ CreateDecoder(c) \/ CreateReader(c)
  \/ JoinReader(c) \/ JoinDecoders(c)

CallerNext(c) ==
  \/ Pause(c) \/ Resume(c) \/ Seek(c) \/ Interrupt(c) \/ Stop(c)
  \/ SetDataSource(c) \/ CallerContinues(c)

-----------------------------------------------------------------------------
Next ==
  \/ ReaderNext
  \/ \E s \in Streams : DecoderNext(s)
  \/ \E c \in Callers : CallerNext(c)

Spec == Init /\ [][Next]_vars

\* Every thread that can run does: reads return, frames become due, decoding
\* ends.  Nobody is obliged to call the player.
Fairness ==
  /\ WF_vars(ReaderNext)
  /\ \A s \in Streams : WF_vars(DecoderNext(s))
  /\ \A c \in Callers : WF_vars(CallerContinues(c))

FairSpec == Spec /\ Fairness

-----------------------------------------------------------------------------
(* Properties.                                                             *)

CallerPlaces == {"idle", "seeking", "stopping", "open", "setup", "create",
                 "joinReader", "joinDecoders"}
ReaderPlaces == {"none", "read", "offer", "push", "fill", "eof", "eofWait", "stopWait",
                 "seekWait", "done"}
DecoderPlaces == {"none", "pop", "decode", "wait", "report", "fail", "done"}

FifoType == [items : Seq(Packets), reserved : BOOLEAN, taken : Packets \cup {NoPacket}]

TypeOK ==
  /\ packets \in [Streams -> FifoType] /\ allocated \in BOOLEAN
  /\ codec \in [Streams -> {"clean", "fresh", "stale"}]
  /\ playing \in BOOLEAN /\ pause \in BOOLEAN /\ stop \in BOOLEAN
  /\ seek_position \in {DO_NOT_SEEK, "target"} /\ interrupt \in BOOLEAN
  /\ flush_streams \in [Streams -> BOOLEAN] /\ stop_streams \in [Streams -> BOOLEAN]
  /\ reader \in ReaderPlaces
  /\ hand \in Hands \cup {NoPacket} /\ counted \in BOOLEAN
  /\ decoder \in [Streams -> DecoderPlaces]
  /\ failed \in [Streams -> BOOLEAN]
  /\ caller \in [Callers -> CallerPlaces]
  /\ op \in Callers \cup {Nobody} /\ goal \in {"stop", "load", "error"}
  /\ asleep \subseteq Streams \cup Callers \cup {Reader}

\* Between its first step and its exit a thread is running.
Running(place) == place \notin {"none", "done"}

\* The decoder is outside mutex_queue, using its codec or frames that belong
\* to the codec.
UsesCodec(s) == decoder[s] \in {"decode", "wait", "report"}

(* avcodec_flush_buffers is called by the reader on codecs that belong to   *)
(* other threads.  The flush and stop handshakes must have parked every     *)
(* decoder by then.                                                         *)
CodecFlushedAlone ==
  [][ReaderExits \/ SeekEnds => \A s \in Streams : ~UsesCodec(s)]_vars

(* Once a seek is over, nothing read before it is left anywhere: not in a   *)
(* queue, not in the hands of a decoder, not inside a codec.                *)
HoldsOld(f) ==
  \/ \E i \in DOMAIN f.items : ~f.items[i].fresh
  \/ f.taken # NoPacket /\ ~f.taken.fresh

HoldsNew(f) ==
  \/ \E i \in DOMAIN f.items : f.items[i].fresh
  \/ f.taken # NoPacket /\ f.taken.fresh

Stale(s) == codec[s] = "stale" \/ HoldsOld(packets[s])

NothingStaleAfterSeek ==
  reader \notin {"seekWait", "none", "done"} => \A s \in Streams : ~Stale(s)

(* A packet read after a seek is never decoded by a codec that still holds  *)
(* data from before it.                                                     *)
NeverMixesPositions ==
  \A s \in Streams :
    decoder[s] = "decode" /\ packets[s].taken.fresh => codec[s] # "stale"

(* Queues, codecs and frames exist as long as a thread may use them, and a  *)
(* source's threads are only created when none of the last source is left.  *)
ThreadsHaveQueues ==
  /\ Running(reader) \/ (\E s \in Streams : Running(decoder[s])) => allocated
  /\ \A c \in Callers : caller[c] \in {"open", "setup"} =>
       reader = "none" /\ \A s \in Streams : decoder[s] = "none"

(* A sleeping thread could do nothing if it were awake: every change it     *)
(* waits for is broadcast on cond_queue.                                    *)
SleepersAreBlocked ==
  /\ Reader \in asleep =>
       \/ reader = "push" /\ NotAsked /\ ~CanReserve(packets[hand.stream])
       \/ reader = "eof" /\ NotAsked /\ ~CanReserve(packets[Video])
       \/ reader = "eofWait" /\ NotAsked
       \/ reader = "stopWait" /\ stop_streams # All(FALSE)
       \/ reader = "seekWait" /\ flush_streams # All(FALSE)
  /\ \A s \in Streams \cap asleep :
       /\ ~flush_streams[s] /\ ~stop_streams[s]
       /\ \/ decoder[s] = "pop" /\ ~CanTake(packets[s])
          \/ decoder[s] = "wait" /\ pause
  /\ \A c \in Callers \cap asleep : caller[c] = "seeking" /\ seek_position # DO_NOT_SEEK

(* Nobody but the holder of mutex_operation is inside an operation, and a   *)
(* reader finds a seek pending only while its caller waits for it.          *)
OneOperation ==
  /\ \A c \in Callers : caller[c] \notin {"idle", "stopping"} <=> op = c
  /\ reader # "none" /\ seek_position # DO_NOT_SEEK =>
       \E c \in Callers : caller[c] = "seeking"

(* Nothing follows the end-of-stream packet in the video queue until a seek *)
(* or a stop empties it.                                                    *)
EndIsLast ==
  \A i, j \in DOMAIN packets[Video].items :
    i < j => packets[Video].items[i].kind \notin EndKinds

(* What is queued was read from the file.                                   *)
(* The code does not keep this: README.md, section 4.                       *)
OnlyReadPackets ==
  \A s \in Streams : \A i \in DOMAIN packets[s].items :
    packets[s].items[i].kind # "junk"

(* The listener is told that the video is finished only when the file ended.*)
(* The code does not keep this: README.md, section 4.                       *)
FinishedMeansEnd ==
  \A s \in Streams : decoder[s] = "report" => packets[s].taken.kind # "cut"

(* Every operation that gets mutex_operation gives it back: no seek, stop   *)
(* or set_data_source waits for ever for the player's own threads.          *)
OperationsFinish == \A c \in Callers : op = c ~> op # c

(* When the file has been read to its end and nobody pauses, seeks or stops,*)
(* the listener is told.                                                    *)
EndIsReported ==
  reader = "eof" ~> \/ pause \/ stop \/ seek_position # DO_NOT_SEEK
                    \/ decoder[Video] = "report" /\ packets[Video].taken.kind \in EndKinds

-----------------------------------------------------------------------------
(* The inductive invariant behind these properties.                         *)

\* Nothing of stream s is left in its queue or in its decoder's hands.
Drained(s) == packets[s].items = <<>> /\ packets[s].taken = NoPacket

HandInv ==
  /\ reader \in {"offer", "push", "eof", "fill"} => hand # NoPacket
  /\ reader = "fill" => hand.stream \in Streams

TakenInv ==
  \A s \in Streams :
    /\ UsesCodec(s) <=> packets[s].taken # NoPacket
    /\ packets[s].taken # NoPacket => packets[s].items # <<>>

\* The flush handshake: a decoder that has answered is parked with an empty
\* queue until the seek ends, and nothing read before it counts as fresh.
FlushInv ==
  \A s \in Streams :
    /\ flush_streams[s] => reader = "seekWait"
    /\ reader = "seekWait" => codec[s] # "fresh" /\ ~HoldsNew(packets[s])
    /\ reader = "seekWait" /\ ~flush_streams[s] => decoder[s] = "pop" /\ Drained(s)

\* The stop handshake: a decoder that has answered is gone.  A reader that is
\* gone, or was never created, leaves nothing behind.
StopInv ==
  \A s \in Streams :
    /\ stop_streams[s] => reader = "stopWait"
    /\ reader = "stopWait" /\ ~stop_streams[s] => decoder[s] = "done" /\ Drained(s)
    /\ reader \in {"none", "done"} => decoder[s] \in {"none", "pop", "done"} /\ Drained(s)
    /\ reader # "none" => decoder[s] # "none"

\* Who may do what to the threads: the holder of mutex_operation, and only
\* while nothing is playing.
OperationInv ==
  /\ playing => allocated
  /\ ~playing /\ op = Nobody => reader = "none"
  /\ \A c \in Callers :
       /\ caller[c] \notin {"idle", "stopping"} <=> op = c
       /\ caller[c] = "seeking" => playing
       /\ caller[c] \in {"open", "setup", "create", "joinReader", "joinDecoders"} => ~playing
       /\ caller[c] \in {"open", "setup", "create", "joinDecoders"} => reader = "none"
       /\ caller[c] = "create" => allocated /\ seek_position = DO_NOT_SEEK
  /\ reader # "none" => allocated
  /\ \A s \in Streams :
       decoder[s] # "none" =>
         allocated /\ (playing \/ \E c \in Callers :
                         caller[c] \in {"create", "joinReader", "joinDecoders"})
  /\ reader # "none" /\ seek_position # DO_NOT_SEEK =>
       \E c \in Callers : caller[c] = "seeking"

\* Unless a flush was skipped, nothing stale outlives a seek or a source.
CleanInv ==
  "unset" \notin Faults =>
    /\ NothingStaleAfterSeek
    /\ reader \in {"none", "done"} => \A s \in Streams : codec[s] = "clean"

IInv ==
  HandInv /\ TakenInv /\ FlushInv /\ StopInv /\ OperationInv /\ CleanInv
=============================================================================
