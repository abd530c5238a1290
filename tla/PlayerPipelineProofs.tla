------------------------ MODULE PlayerPipelineProofs ------------------------
(***************************************************************************)
(* Theorems about PlayerPipeline for every set of streams and of callers,  *)
(* every queue capacity and every set of faults.                           *)
(***************************************************************************)
EXTENDS PlayerPipeline, SequenceTheorems, TLAPS

(* What the operations on a FIFO value keep: its type. *)
LEMMA FifoTypes ==
  ASSUME NEW f \in FifoType
  PROVE  /\ Reserve(f) \in FifoType
         /\ Drain(f) \in FifoType
         /\ \A p \in Packets : Publish(f, p) \in FifoType
         /\ f.items # <<>> => Take(f) \in FifoType /\ Release(f) \in FifoType
<1>1. Reserve(f) \in FifoType
  BY DEF FifoType, Reserve
<1>2. Drain(f) \in FifoType
  <2>1. <<>> \in Seq(Packets)
    OBVIOUS
  <2>2. QED
    BY <2>1 DEF FifoType, Drain
<1>3. ASSUME NEW p \in Packets PROVE Publish(f, p) \in FifoType
  <2>1. Append(f.items, p) \in Seq(Packets)
    BY DEF FifoType
  <2>2. QED
    BY <2>1 DEF FifoType, Publish
<1>4. ASSUME f.items # <<>> PROVE Take(f) \in FifoType
  <2>1. Head(f.items) \in Packets
    BY <1>4 DEF FifoType
  <2>2. QED
    BY <2>1 DEF FifoType, Take
<1>5. ASSUME f.items # <<>> PROVE Release(f) \in FifoType
  <2>1. Tail(f.items) \in Seq(Packets)
    BY <1>5 DEF FifoType
  <2>2. QED
    BY <2>1 DEF FifoType, Release
<1>6. QED
  BY <1>1, <1>2, <1>3, <1>4, <1>5

LEMMA EmptyType == Empty \in FifoType
BY DEF FifoType, Empty

LEMMA AgedType ==
  ASSUME NEW p \in Packets
  PROVE  Aged(p) \in Packets /\ ~Aged(p).fresh
BY DEF Packets, Aged

LEMMA AgedQueueType ==
  ASSUME NEW f \in FifoType
  PROVE  AgedQueue(f) \in FifoType
<1> DEFINE aged == [i \in DOMAIN f.items |-> Aged(f.items[i])]
           held == IF f.taken = NoPacket THEN f.taken ELSE Aged(f.taken)
<1>1. aged \in Seq(Packets)
  BY AgedType DEF FifoType
<1>2. held \in Packets \cup {NoPacket}
  BY AgedType DEF FifoType
<1>3. AgedQueue(f) = [f EXCEPT !.items = aged, !.taken = held]
  BY DEF AgedQueue, FifoType
<1> HIDE DEF aged, held
<1>4. QED
  BY <1>1, <1>2, <1>3 DEF FifoType

-----------------------------------------------------------------------------
(* Types.  They hold because a packet is only published out of a full hand  *)
(* and only released by the decoder that took it.                           *)

Threads == Streams \cup Callers \cup {Reader}

LEMMA OfferTypes ==
  ASSUME TypeOK, NEW pkt \in Hands, NEW sleepers \in SUBSET Threads,
         Offer(pkt, sleepers)
  PROVE  /\ packets' \in [Streams -> FifoType]
         /\ reader' \in {"read", "fill", "push"}
         /\ hand' \in Hands \cup {NoPacket}
         /\ asleep' \in SUBSET Threads
         /\ HandInv'
<1>1. pkt.stream \in Streams \cup {Other} /\ packets \in [Streams -> FifoType]
  BY DEF Hands, TypeOK
<1>2. CASE pkt.stream = Other
  BY <1>1, <1>2 DEF Offer, HandInv, Threads
<1>3. CASE pkt.stream # Other /\ CanReserve(packets[pkt.stream])
  <2>1. packets[pkt.stream] \in FifoType
    BY <1>1, <1>3
  <2>2. QED
    BY <1>1, <1>3, <2>1, FifoTypes, PipelineAssumption DEF Offer, HandInv, Threads, Broadcast
<1>4. CASE pkt.stream # Other /\ ~CanReserve(packets[pkt.stream])
  BY <1>1, <1>4, PipelineAssumption DEF Offer, HandInv, Threads
<1>5. QED
  BY <1>2, <1>3, <1>4

(* After a seek that failed the reader goes on with some packet: the one in *)
(* its hand, or one that was never read.                                    *)
LEMMA HeldOffer ==
  ASSUME TypeOK, HandInv, SeekFails
  PROVE  \E pkt \in Hands : Offer(pkt, {})
<1>1. PICK pkt \in PacketToOffer : Offer(pkt, {})
  BY DEF SeekFails
<1>2. \A s \in Streams \cup {Other} : [stream |-> s, kind |-> "junk"] \in Hands
  BY DEF Hands, Kinds
<1>3. reader \in {"offer", "push"} => hand \in Hands
  BY DEF TypeOK, HandInv
<1>4. pkt \in Hands
  BY <1>2, <1>3 DEF PacketToOffer
<1>5. QED
  BY <1>1, <1>4

LEMMA FlushType ==
  ASSUME TypeOK, FlushCodecs
  PROVE  codec' \in [Streams -> {"clean", "fresh", "stale"}]
<1>1. PICK flushed \in SUBSET Streams :
        codec' = [s \in Streams |-> IF s \in flushed THEN "clean" ELSE codec[s]]
  BY DEF FlushCodecs
<1>2. QED
  BY <1>1 DEF TypeOK

LEMMA ReaderKeepsTypes ==
  ASSUME TypeOK, HandInv, ReaderNext
  PROVE  TypeOK' /\ HandInv'
<1> USE PipelineAssumption DEF TypeOK, HandInv, ReaderPlaces, DecoderPlaces, media, flags, requests, readerVars,
        decoderVars, callerVars, Sleep, Broadcast, BroadcastAndSleep, All
<1>1. CASE ReadFrame
  <2>1. hand' \in Hands /\ reader' \in {"offer", "eof"}
    BY <1>1 DEF ReadFrame, Hands, Kinds
  <2>2. QED
    BY <1>1, <2>1 DEF ReadFrame
<1>2. CASE OfferPacket
  <2>1. hand \in Hands /\ asleep \in SUBSET Threads /\ Offer(hand, asleep)
    BY <1>2 DEF OfferPacket, GoesOn, AtCheck, Threads
  <2>2. /\ packets' \in [Streams -> FifoType]
        /\ reader' \in {"read", "fill", "push"}
        /\ hand' \in Hands \cup {NoPacket}
        /\ asleep' \in SUBSET Threads
        /\ HandInv'
    BY <2>1, OfferTypes
  <2>3. QED
    BY <1>2, <2>2 DEF OfferPacket, Threads
<1>3. CASE PublishPacket
  <2>1. hand \in Hands /\ hand.stream \in Streams
    BY <1>3 DEF PublishPacket
  <2>2. [kind |-> hand.kind, fresh |-> TRUE] \in Packets
    BY <2>1 DEF Hands, Packets
  <2>3. packets' \in [Streams -> FifoType]
    BY <1>3, <2>1, <2>2, FifoTypes DEF PublishPacket
  <2>4. QED
    BY <1>3, <2>3 DEF PublishPacket
<1>4. CASE PushEndOfStream
  <2>1. [kind |-> hand.kind, fresh |-> TRUE] \in Packets
    BY <1>4 DEF PushEndOfStream, GoesOn, AtCheck, Hands, Packets
  <2>2. packets' \in [Streams -> FifoType]
    <3>1. Reserve(packets[Video]) \in FifoType
      BY FifoTypes
    <3>2. Publish(Reserve(packets[Video]), [kind |-> hand.kind, fresh |-> TRUE]) \in FifoType
      BY <2>1, <3>1, FifoTypes
    <3>3. QED
      BY <1>4, <3>2 DEF PushEndOfStream
  <2>3. QED
    BY <1>4, <2>2 DEF PushEndOfStream
<1>5. CASE WaitAtEnd \/ ReaderKeepsWaiting
  BY <1>5 DEF WaitAtEnd, ReaderKeepsWaiting
<1>6. CASE ExitLoop
  BY <1>6 DEF ExitLoop
<1>7. CASE ReaderExits
  BY <1>7, FlushType DEF ReaderExits
<1>8. CASE SeekFails
  <2>1. PICK pkt \in Hands : Offer(pkt, {})
    BY <1>8, HeldOffer
  <2>2. /\ packets' \in [Streams -> FifoType]
        /\ reader' \in {"read", "fill", "push"}
        /\ hand' \in Hands \cup {NoPacket}
        /\ asleep' \in SUBSET Threads
        /\ HandInv'
    <3>1. {} \in SUBSET Threads
      OBVIOUS
    <3>2. QED
      BY <2>1, <3>1, OfferTypes
  <2>3. QED
    BY <1>8, <2>2 DEF SeekFails, Threads
<1>9. CASE SeekStarts
  <2>1. \A s \in Streams : AgedQueue(packets[s]) \in FifoType
    BY AgedQueueType
  <2>2. packets' \in [Streams -> FifoType]
    BY <1>9, <2>1 DEF SeekStarts
  <2>3. QED
    BY <1>9, <2>2 DEF SeekStarts
<1>10. CASE SeekEnds
  BY <1>10, FlushType DEF SeekEnds, DO_NOT_SEEK
<1>11. QED
  BY <1>1, <1>2, <1>3, <1>4, <1>5, <1>6, <1>7, <1>8, <1>9, <1>10 DEF ReaderNext

LEMMA DecoderKeepsTypes ==
  ASSUME TypeOK, HandInv, TakenInv, NEW s \in Streams, DecoderNext(s)
  PROVE  TypeOK' /\ HandInv'
<1> USE PipelineAssumption DEF TypeOK, HandInv, ReaderPlaces, DecoderPlaces, media, flags, requests, readerVars,
        decoderVars, callerVars, Sleep, Broadcast, Move
<1>1. CASE TakePacket(s)
  <2>1. packets' \in [Streams -> FifoType]
    BY <1>1, FifoTypes DEF TakePacket, CanTake
  <2>2. QED
    BY <1>1, <2>1 DEF TakePacket
<1>2. CASE WaitForPacket(s) \/ FrameWhilePaused(s)
  BY <1>2 DEF WaitForPacket, FrameWhilePaused
<1>3. CASE Decode(s)
  <2>1. codec' \in [Streams -> {"clean", "fresh", "stale"}]
    BY <1>3 DEF Decode
  <2>2. decoder' \in [Streams -> DecoderPlaces]
    BY <1>3 DEF Decode
  <2>3. failed' \in [Streams -> BOOLEAN]
    BY <1>3 DEF Decode
  <2>4. UNCHANGED <<packets, allocated, flags, requests, readerVars, callerVars, asleep>>
    BY <1>3 DEF Decode
  <2>5. QED
    BY <2>1, <2>2, <2>3, <2>4
<1>4. CASE FrameIsDue(s)
  <2>1. decoder' \in [Streams -> DecoderPlaces]
    BY <1>4 DEF FrameIsDue
  <2>2. failed' \in [Streams -> BOOLEAN]
    BY <1>4 DEF FrameIsDue
  <2>3. UNCHANGED <<media, allocated, flags, requests, readerVars, callerVars, asleep>>
    BY <1>4 DEF FrameIsDue
  <2>4. QED
    BY <2>1, <2>2, <2>3
<1>5. CASE ReportAndRelease(s)
  <2>1. packets[s].items # <<>>
    BY <1>5 DEF ReportAndRelease, TakenInv, UsesCodec
  <2>2. packets' \in [Streams -> FifoType]
    BY <1>5, <2>1, FifoTypes DEF ReportAndRelease
  <2>3. QED
    BY <1>5, <2>2 DEF ReportAndRelease
<1>6. CASE FlushStream(s)
  <2>1. packets' \in [Streams -> FifoType]
    BY <1>6, FifoTypes DEF FlushStream
  <2>2. QED
    BY <1>6, <2>1 DEF FlushStream
<1>7. CASE StopStream(s)
  <2>1. packets' \in [Streams -> FifoType]
    BY <1>7, FifoTypes DEF StopStream
  <2>2. QED
    BY <1>7, <2>1 DEF StopStream
<1>8. QED
  BY <1>1, <1>2, <1>3, <1>4, <1>5, <1>6, <1>7 DEF DecoderNext

LEMMA CallerKeepsTypes ==
  ASSUME TypeOK, HandInv, OperationInv, NEW c \in Callers, CallerNext(c)
  PROVE  TypeOK' /\ HandInv'
<1> USE PipelineAssumption DEF TypeOK, HandInv, ReaderPlaces, DecoderPlaces, media, flags, requests, readerVars,
        decoderVars, callerVars, Sleep, Broadcast, BroadcastAndSleep, Place, Idle, Joins,
        Enter, AskToStop, All, DO_NOT_SEEK, CallerPlaces
<1>1. CASE Pause(c) \/ Resume(c)
  <2>1. pause' \in BOOLEAN /\ asleep' = {}
    BY <1>1 DEF Pause, Resume
  <2>2. UNCHANGED <<media, allocated, playing, stop, seek_position, interrupt,
                    requests, readerVars, decoderVars, callerVars>>
    BY <1>1 DEF Pause, Resume
  <2>3. QED
    BY <2>1, <2>2
<1>2. CASE Seek(c) \/ SeekWaits(c) \/ SeekReturns(c)
  BY <1>2 DEF Seek, SeekWaits, SeekReturns
<1>3. CASE Interrupt(c) \/ OpenContext(c)
  <2>1. /\ interrupt' \in BOOLEAN /\ pause' \in BOOLEAN
        /\ caller' \in [Callers -> CallerPlaces]
    BY <1>3 DEF Interrupt, OpenContext
  <2>2. UNCHANGED <<media, allocated, playing, stop, seek_position, requests,
                    readerVars, decoderVars, op, goal, asleep>>
    BY <1>3 DEF Interrupt, OpenContext
  <2>3. QED
    BY <2>1, <2>2
<1>4. CASE Stop(c) \/ SetDataSource(c)
  <2>1. /\ playing' \in BOOLEAN /\ stop' \in BOOLEAN
        /\ caller' \in [Callers -> CallerPlaces] /\ op' \in Callers \cup {Nobody}
        /\ goal' \in {"stop", "load", "error"}
        /\ asleep' \subseteq asleep
    BY <1>4 DEF Stop, SetDataSource, StopPlaying
  <2>2. UNCHANGED <<media, allocated, pause, seek_position, interrupt, requests,
                    readerVars, decoderVars>>
    BY <1>4 DEF Stop, SetDataSource, StopPlaying
  <2>3. QED
    BY <2>1, <2>2
<1>5. CASE Prepare(c)
  <2>1. /\ packets' \in [Streams -> FifoType]
        /\ codec' \in [Streams -> {"clean", "fresh", "stale"}]
        /\ flush_streams' \in [Streams -> BOOLEAN]
        /\ stop_streams' \in [Streams -> BOOLEAN]
        /\ failed' \in [Streams -> BOOLEAN]
    BY <1>5, EmptyType DEF Prepare
  <2>2. /\ caller' \in [Callers -> CallerPlaces]
        /\ allocated' \in BOOLEAN /\ stop' \in BOOLEAN
        /\ seek_position' \in {DO_NOT_SEEK, "target"} /\ asleep' = {}
    BY <1>5 DEF Prepare
  <2>3. UNCHANGED <<playing, pause, interrupt, reader, hand, counted, decoder, op, goal>>
    BY <1>5 DEF Prepare
  <2>4. HandInv'
    BY <2>3
  <2>5. TypeOK'
    BY <2>1, <2>2, <2>3
  <2>6. QED
    BY <2>4, <2>5
<1>6. CASE GiveUp(c)
  BY <1>6 DEF GiveUp
<1>7. CASE CreateDecoder(c)
  BY <1>7 DEF CreateDecoder, FirstPlaces, Move
<1>8. CASE CreateReader(c)
  <2>1. /\ reader' \in {"read", "done"} /\ playing' = TRUE
        /\ caller' \in [Callers -> CallerPlaces] /\ op' = Nobody
    BY <1>8 DEF CreateReader, FirstPlaces
  <2>2. UNCHANGED <<media, allocated, pause, stop, seek_position, interrupt,
                    requests, hand, counted, decoderVars, goal, asleep>>
    BY <1>8 DEF CreateReader
  <2>3. QED
    BY <2>1, <2>2
<1>9. CASE JoinReader(c)
  BY <1>9 DEF JoinReader
<1>10. CASE JoinDecoders(c)
  <2>1. /\ caller' \in [Callers -> CallerPlaces] /\ op' \in Callers \cup {Nobody}
    BY <1>10 DEF JoinDecoders
  <2>2. /\ decoder' = All("none") /\ failed' = All(FALSE) /\ allocated' = FALSE
        /\ packets' = All(Empty) /\ codec' = All("clean")
        /\ UNCHANGED <<flags, requests, readerVars, goal, asleep>>
    BY <1>10 DEF JoinDecoders
  <2>3. /\ packets' \in [Streams -> FifoType]
        /\ codec' \in [Streams -> {"clean", "fresh", "stale"}]
        /\ decoder' \in [Streams -> DecoderPlaces]
        /\ failed' \in [Streams -> BOOLEAN]
    BY <2>2, EmptyType
  <2>4. UNCHANGED <<flags, requests, readerVars, goal, asleep>> /\ allocated' \in BOOLEAN
    BY <2>2
  <2>5. HandInv'
    BY <2>4
  <2>6. TypeOK'
    BY <2>1, <2>3, <2>4
  <2>7. QED
    BY <2>5, <2>6
<1>11. QED
  BY <1>1, <1>2, <1>3, <1>4, <1>5, <1>6, <1>7, <1>8, <1>9, <1>10
     DEF CallerNext, CallerContinues

-----------------------------------------------------------------------------
(* Who holds mutex_operation, and what it may assume.                      *)

LEMMA ReaderKeepsOperation ==
  ASSUME OperationInv, ReaderNext
  PROVE  OperationInv'
<1>1. UNCHANGED <<allocated, playing, decoder, caller, op>>
  BY DEF ReaderNext, ReadFrame, OfferPacket, PublishPacket, PushEndOfStream,
         WaitAtEnd, ExitLoop, ReaderExits, SeekFails, SeekStarts, SeekEnds,
         ReaderKeepsWaiting, flags, decoderVars, callerVars
<1>2. reader # "none" /\ reader' # "none"
  BY DEF ReaderNext, ReadFrame, OfferPacket, PublishPacket, PushEndOfStream,
         WaitAtEnd, ExitLoop, ReaderExits, SeekFails, SeekStarts, SeekEnds,
         ReaderKeepsWaiting, readerVars, GoesOn, AtCheck, Offer
<1>3. seek_position' \in {seek_position, DO_NOT_SEEK}
  BY DEF ReaderNext, ReadFrame, OfferPacket, PublishPacket, PushEndOfStream,
         WaitAtEnd, ExitLoop, ReaderExits, SeekFails, SeekStarts, SeekEnds,
         ReaderKeepsWaiting, flags
<1>4. QED
  BY <1>1, <1>2, <1>3 DEF OperationInv

LEMMA DecoderKeepsOperation ==
  ASSUME TypeOK, OperationInv, NEW s \in Streams, DecoderNext(s)
  PROVE  OperationInv'
<1>1. UNCHANGED <<allocated, playing, seek_position, reader, caller, op>>
  BY DEF DecoderNext, TakePacket, WaitForPacket, Decode, FrameIsDue, FrameWhilePaused,
         ReportAndRelease, FlushStream, StopStream, flags, readerVars, callerVars
<1>2. \A t \in Streams : decoder'[t] = "none" <=> decoder[t] = "none"
  <2>1. CASE UNCHANGED decoder
    BY <2>1
  <2>2. CASE decoder[s] # "none" /\ \E place \in DecoderPlaces \ {"none"} : Move(s, place)
    BY <2>2 DEF Move, TypeOK
  <2>3. QED
    BY <2>1, <2>2 DEF DecoderNext, TakePacket, WaitForPacket, Decode, FrameIsDue,
       FrameWhilePaused, ReportAndRelease, FlushStream, StopStream, decoderVars,
       AtPop, DecoderPlaces
<1>3. QED
  BY <1>1, <1>2 DEF OperationInv

LEMMA CallerKeepsOperation ==
  ASSUME TypeOK, OperationInv, NEW c \in Callers, CallerNext(c)
  PROVE  OperationInv'
<1> USE PipelineAssumption DEF OperationInv, Place
<1>0. caller \in [Callers -> CallerPlaces]
  BY DEF TypeOK
<1>1. CASE Pause(c) \/ Resume(c) \/ SeekWaits(c)
  BY <1>1 DEF Pause, Resume, SeekWaits, flags, callerVars, readerVars, decoderVars
<1>2. CASE Seek(c)
  BY <1>0, <1>2 DEF Seek, Idle, Enter, readerVars, decoderVars
<1>3. CASE SeekReturns(c)
  BY <1>0, <1>3 DEF SeekReturns, flags, readerVars, decoderVars
<1>4. CASE Interrupt(c)
  BY <1>0, <1>4 DEF Interrupt, Idle, readerVars, decoderVars
<1>5. ASSUME NEW why \in {"stop", "load"}, caller[c] \in {"idle", "stopping"},
             StopPlaying(c, why)
      PROVE  OperationInv'
  BY <1>0, <1>5 DEF StopPlaying, Enter, AskToStop, readerVars, decoderVars
<1>6. CASE Stop(c)
  BY <1>0, <1>5, <1>6 DEF Stop, flags, readerVars, decoderVars
<1>7. CASE SetDataSource(c)
  BY <1>0, <1>5, <1>7 DEF SetDataSource, Idle, Enter, flags, readerVars, decoderVars
<1>8. CASE OpenContext(c)
  BY <1>0, <1>8 DEF OpenContext, readerVars, decoderVars
<1>9. CASE Prepare(c)
  BY <1>0, <1>9 DEF Prepare, readerVars
<1>10. CASE GiveUp(c)
  BY <1>0, <1>10 DEF GiveUp, readerVars, decoderVars
<1>11. CASE CreateDecoder(c)
  BY <1>0, <1>11 DEF CreateDecoder, flags, callerVars, readerVars, decoderVars
<1>12. CASE CreateReader(c)
  BY <1>0, <1>12 DEF CreateReader, FirstPlaces, decoderVars
<1>13. CASE JoinReader(c)
  BY <1>0, <1>13 DEF JoinReader, flags, decoderVars
<1>14. CASE JoinDecoders(c)
  BY <1>0, <1>14 DEF JoinDecoders, All, flags, readerVars
<1>15. QED
  BY <1>1, <1>2, <1>3, <1>4, <1>6, <1>7, <1>8, <1>9, <1>10, <1>11, <1>12, <1>13, <1>14
     DEF CallerNext, CallerContinues

-----------------------------------------------------------------------------
(* The two handshakes.                                                     *)

(* What the operations on a FIFO value keep: a packet read before a seek    *)
(* only comes from one that was there, and so does one read after it.       *)
LEMMA MarksOfReserve ==
  ASSUME NEW f \in FifoType
  PROVE  HoldsOld(Reserve(f)) = HoldsOld(f) /\ HoldsNew(Reserve(f)) = HoldsNew(f)
BY DEF Reserve, FifoType, HoldsOld, HoldsNew

LEMMA MarksOfPublish ==
  ASSUME NEW f \in FifoType, NEW p \in Packets, p.fresh, HoldsOld(Publish(f, p))
  PROVE  HoldsOld(f)
<1> USE DEF FifoType, HoldsOld
<1>1. /\ Publish(f, p).items = Append(f.items, p)
      /\ Publish(f, p).taken = f.taken
  BY DEF Publish
<1>2. CASE f.taken # NoPacket /\ ~f.taken.fresh
  BY <1>2
<1>3. CASE \E i \in DOMAIN Append(f.items, p) : ~Append(f.items, p)[i].fresh
  <2>1. PICK i \in 1 .. Len(f.items) + 1 : ~Append(f.items, p)[i].fresh
    BY <1>3
  <2>2. i \in DOMAIN f.items /\ Append(f.items, p)[i] = f.items[i]
    BY <2>1
  <2>3. QED
    BY <2>1, <2>2
<1>4. QED
  BY <1>1, <1>2, <1>3

LEMMA MarksOfTake ==
  ASSUME NEW f \in FifoType, f.items # <<>>
  PROVE  (HoldsOld(Take(f)) => HoldsOld(f)) /\ (HoldsNew(Take(f)) => HoldsNew(f))
<1>1. Head(f.items) = f.items[1] /\ 1 \in DOMAIN f.items
  BY DEF FifoType
<1>2. Take(f).items = f.items /\ Take(f).taken = f.items[1]
  BY <1>1 DEF Take, FifoType
<1>3. QED
  BY <1>1, <1>2 DEF HoldsOld, HoldsNew

LEMMA MarksOfRelease ==
  ASSUME NEW f \in FifoType, f.items # <<>>
  PROVE  (HoldsOld(Release(f)) => HoldsOld(f)) /\ (HoldsNew(Release(f)) => HoldsNew(f))
<1>1. Release(f).items = Tail(f.items) /\ Release(f).taken = NoPacket
  BY DEF Release, FifoType
<1>2. \A i \in DOMAIN Tail(f.items) :
        i + 1 \in DOMAIN f.items /\ Tail(f.items)[i] = f.items[i + 1]
  BY DEF FifoType
<1>3. QED
  BY <1>1, <1>2 DEF HoldsOld, HoldsNew

(* Ageing leaves nothing fresh; emptying leaves nothing at all. *)
LEMMA MarksOfSeek ==
  ASSUME NEW f \in FifoType
  PROVE  /\ ~HoldsNew(AgedQueue(f))
         /\ AgedQueue(f).items = <<>> <=> f.items = <<>>
         /\ AgedQueue(f).taken = NoPacket <=> f.taken = NoPacket
<1>1. f.items \in Seq(Packets) /\ f.taken \in Packets \cup {NoPacket}
  BY DEF FifoType
<1>2. /\ AgedQueue(f).items = [i \in DOMAIN f.items |-> Aged(f.items[i])]
      /\ AgedQueue(f).taken = IF f.taken = NoPacket THEN f.taken ELSE Aged(f.taken)
  BY DEF AgedQueue, FifoType
<1>3. \A i \in DOMAIN f.items : ~Aged(f.items[i]).fresh
  BY <1>1, AgedType
<1>4. f.taken # NoPacket => ~Aged(f.taken).fresh /\ Aged(f.taken) # NoPacket
  BY <1>1, AgedType, PipelineAssumption
<1>5. AgedQueue(f).items = <<>> <=> f.items = <<>>
  <2>1. \A seq \in Seq(Packets) : seq = <<>> <=> 1 \notin DOMAIN seq
    <3>1. SUFFICES ASSUME NEW seq \in Seq(Packets) PROVE seq = <<>> <=> 1 \notin DOMAIN seq
      OBVIOUS
    <3>2. Len(seq) \in Nat /\ DOMAIN seq = 1 .. Len(seq)
      OBVIOUS
    <3>3. seq = <<>> <=> Len(seq) = 0
      BY EmptySeq
    <3>4. QED
      BY <3>2, <3>3
  <2>2. AgedQueue(f).items \in Seq(Packets)
    BY AgedQueueType DEF FifoType
  <2>3. DOMAIN AgedQueue(f).items = DOMAIN f.items
    BY <1>2
  <2>4. QED
    BY <1>1, <2>1, <2>2, <2>3
<1>6. QED
  BY <1>2, <1>3, <1>4, <1>5 DEF HoldsNew

Handshakes == TakenInv /\ FlushInv /\ StopInv /\ CleanInv

\* What Handshakes says of one stream.
HandshakesOf(s) ==
  /\ UsesCodec(s) <=> packets[s].taken # NoPacket
  /\ packets[s].taken # NoPacket => packets[s].items # <<>>
  /\ flush_streams[s] => reader = "seekWait"
  /\ reader = "seekWait" => codec[s] # "fresh" /\ ~HoldsNew(packets[s])
  /\ reader = "seekWait" /\ ~flush_streams[s] => decoder[s] = "pop" /\ Drained(s)
  /\ stop_streams[s] => reader = "stopWait"
  /\ reader = "stopWait" /\ ~stop_streams[s] => decoder[s] = "done" /\ Drained(s)
  /\ reader \in {"none", "done"} =>
       decoder[s] \in {"none", "pop", "done"} /\ Drained(s)
  /\ reader # "none" => decoder[s] # "none"
  /\ "unset" \notin Faults =>
       /\ reader \notin {"seekWait", "none", "done"} => ~Stale(s)
       /\ reader \in {"none", "done"} => codec[s] = "clean"

LEMMA HandshakesPerStream ==
  /\ Handshakes <=> \A s \in Streams : HandshakesOf(s)
  /\ Handshakes' <=> \A s \in Streams : HandshakesOf(s)'
BY DEF Handshakes, HandshakesOf, TakenInv, FlushInv, StopInv, CleanInv, NothingStaleAfterSeek

LEMMA DecoderKeepsHandshakes ==
  ASSUME TypeOK, Handshakes, NEW s \in Streams, DecoderNext(s)
  PROVE  Handshakes'
<1>1. ASSUME NEW t \in Streams \ {s} PROVE HandshakesOf(t)'
  <2>1. HandshakesOf(t)
    BY HandshakesPerStream
  <2>2. UNCHANGED <<packets[t], codec[t], decoder[t], flush_streams[t], stop_streams[t], reader>>
    BY DEF TypeOK, DecoderNext, TakePacket, WaitForPacket, Decode, FrameIsDue,
           FrameWhilePaused, ReportAndRelease, FlushStream, StopStream, Move,
           media, requests, readerVars, decoderVars
  <2>3. QED
    BY <2>1, <2>2 DEF HandshakesOf, UsesCodec, Drained, Stale, HoldsOld, HoldsNew
<1>2. HandshakesOf(s)'
  <2> DEFINE f == packets[s]
  <2>0. /\ HandshakesOf(s) /\ f \in FifoType
        /\ packets \in [Streams -> FifoType] /\ decoder \in [Streams -> DecoderPlaces]
        /\ codec \in [Streams -> {"clean", "fresh", "stale"}]
        /\ flush_streams \in [Streams -> BOOLEAN] /\ stop_streams \in [Streams -> BOOLEAN]
    BY HandshakesPerStream DEF TypeOK
  <2>1. CASE TakePacket(s)
    <3>1. /\ packets'[s] = Take(f) /\ decoder'[s] = "decode" /\ f.items # <<>>
          /\ decoder[s] = "pop" /\ ~flush_streams[s] /\ ~stop_streams[s]
          /\ UNCHANGED <<codec[s], flush_streams[s], stop_streams[s], reader>>
      BY <2>0, <2>1 DEF TakePacket, AtPop, CanTake, Move, requests, readerVars
    <3>2. /\ HoldsOld(packets'[s]) => HoldsOld(f)
          /\ HoldsNew(packets'[s]) => HoldsNew(f)
      <4>1. (HoldsOld(Take(f)) => HoldsOld(f)) /\ (HoldsNew(Take(f)) => HoldsNew(f))
        BY <2>0, <3>1, MarksOfTake
      <4>2. QED
        BY <3>1, <4>1
    <3>3. packets'[s].items = f.items /\ packets'[s].taken \in Packets
      BY <2>0, <3>1 DEF Take, FifoType
    <3>4. QED
      BY <2>0, <3>1, <3>2, <3>3, PipelineAssumption DEF HandshakesOf, UsesCodec, Drained, Stale
  <2>2. CASE WaitForPacket(s) \/ FrameWhilePaused(s)
    <3>1. UNCHANGED <<packets[s], codec[s], decoder[s], flush_streams[s], stop_streams[s], reader>>
      BY <2>2 DEF WaitForPacket, FrameWhilePaused, media, requests, readerVars, decoderVars
    <3>2. QED
      BY <2>0, <3>1 DEF HandshakesOf, UsesCodec, Drained, Stale, HoldsOld, HoldsNew
  <2>3. CASE Decode(s)
    <3>1. /\ decoder'[s] \in {"wait", "report"} /\ decoder[s] = "decode"
          /\ UNCHANGED <<packets[s], flush_streams[s], stop_streams[s], reader>>
      BY <2>0, <2>3 DEF Decode, Move, requests, readerVars
    <3>2. codec'[s] \in {codec[s], IF f.taken.fresh THEN "fresh" ELSE "stale"}
      BY <2>0, <2>3 DEF Decode
    <3>3. f.taken # NoPacket
      BY <2>0, <3>1 DEF HandshakesOf, UsesCodec
    <3>4. /\ ~HoldsNew(f) => ~f.taken.fresh
          /\ ~HoldsOld(f) => f.taken.fresh
      BY <3>3 DEF HoldsNew, HoldsOld
    <3>5. HoldsNew(packets[s])' = HoldsNew(f) /\ HoldsOld(packets[s])' = HoldsOld(f)
      BY <3>1 DEF HoldsNew, HoldsOld
    <3>6. QED
      BY <2>0, <3>1, <3>2, <3>3, <3>4, <3>5 DEF HandshakesOf, UsesCodec, Drained, Stale
  <2>4. CASE FrameIsDue(s)
    <3>1. /\ decoder'[s] = "report" /\ decoder[s] = "wait"
          /\ UNCHANGED <<packets[s], codec[s], flush_streams[s], stop_streams[s], reader>>
      BY <2>0, <2>4 DEF FrameIsDue, Move, media, requests, readerVars
    <3>2. QED
      BY <2>0, <3>1 DEF HandshakesOf, UsesCodec, Drained, Stale, HoldsOld, HoldsNew
  <2>5. CASE ReportAndRelease(s)
    <3>1. /\ packets'[s] = Release(f) /\ decoder'[s] \in {"fail", "pop"} /\ decoder[s] = "report"
          /\ UNCHANGED <<codec[s], flush_streams[s], stop_streams[s], reader>>
      BY <2>0, <2>5 DEF ReportAndRelease, Move, requests, readerVars
    <3>2. f.items # <<>>
      BY <2>0, <3>1 DEF HandshakesOf, UsesCodec
    <3>3. /\ HoldsOld(packets'[s]) => HoldsOld(f)
          /\ HoldsNew(packets'[s]) => HoldsNew(f)
      <4>1. (HoldsOld(Release(f)) => HoldsOld(f)) /\ (HoldsNew(Release(f)) => HoldsNew(f))
        BY <2>0, <3>1, <3>2, MarksOfRelease
      <4>2. QED
        BY <3>1, <4>1
    <3>4. packets'[s].taken = NoPacket
      BY <2>0, <3>1 DEF Release, FifoType
    <3>5. reader = "seekWait" => flush_streams[s]
      BY <2>0, <3>1 DEF HandshakesOf
    <3>6. QED
      BY <2>0, <3>1, <3>3, <3>4, <3>5 DEF HandshakesOf, UsesCodec, Drained, Stale
  <2>6. CASE FlushStream(s)
    <3>1. /\ packets'[s] = Drain(f) /\ decoder[s] = "pop" /\ ~flush_streams'[s] /\ flush_streams[s]
          /\ UNCHANGED <<codec[s], decoder[s], stop_streams[s], reader>>
      BY <2>0, <2>6 DEF FlushStream, AtPop, decoderVars, readerVars
    <3>2. packets'[s].items = <<>> /\ packets'[s].taken = NoPacket
      BY <2>0, <3>1 DEF Drain, FifoType
    <3>3. QED
      BY <2>0, <3>1, <3>2 DEF HandshakesOf, UsesCodec, Drained, Stale, HoldsOld, HoldsNew
  <2>7. CASE StopStream(s)
    <3>1. /\ packets'[s] = Drain(f) /\ decoder'[s] = "done" /\ ~stop_streams'[s]
          /\ stop_streams[s] \/ decoder[s] = "fail"
          /\ UNCHANGED <<codec[s], flush_streams[s], reader>>
      BY <2>0, <2>7 DEF StopStream, Move, readerVars
    <3>2. packets'[s].items = <<>> /\ packets'[s].taken = NoPacket
      BY <2>0, <3>1 DEF Drain, FifoType
    <3>3. QED
      BY <2>0, <3>1, <3>2 DEF HandshakesOf, UsesCodec, Drained, Stale, HoldsOld, HoldsNew
  <2>8. QED
    BY <2>1, <2>2, <2>3, <2>4, <2>5, <2>6, <2>7 DEF DecoderNext
<1>3. QED
  BY <1>1, <1>2, HandshakesPerStream

\* The reader is neither absent nor inside a handshake.
Reading == reader \in {"read", "offer", "push", "fill", "eof", "eofWait"}

LEMMA ReadingKeepsHandshakes ==
  ASSUME Handshakes, Reading, Reading',
         UNCHANGED <<codec, decoder, flush_streams, stop_streams>>,
         \A s \in Streams :
           /\ HoldsOld(packets'[s]) => HoldsOld(packets[s])
           /\ packets'[s].taken = packets[s].taken
           /\ packets[s].items # <<>> => packets'[s].items # <<>>
  PROVE  Handshakes'
<1>1. SUFFICES ASSUME NEW s \in Streams PROVE HandshakesOf(s)'
  BY HandshakesPerStream
<1>2. HandshakesOf(s)
  BY HandshakesPerStream
<1>3. QED
  BY <1>2 DEF HandshakesOf, UsesCodec, Drained, Stale, Reading

LEMMA QueueFills ==
  ASSUME NEW f \in FifoType, NEW p \in Packets, p.fresh
  PROVE  /\ HoldsOld(Publish(f, p)) => HoldsOld(f)
         /\ Publish(f, p).taken = f.taken
         /\ Publish(f, p).items # <<>>
<1>1. f.items \in Seq(Packets)
  BY DEF FifoType
<1>2. /\ Publish(f, p).items = Append(f.items, p)
      /\ Publish(f, p).taken = f.taken
  BY DEF FifoType, Publish
<1>3. Append(f.items, p) # <<>>
  BY <1>1
<1>4. QED
  BY <1>2, <1>3, MarksOfPublish

LEMMA OfferKeepsHandshakes ==
  ASSUME TypeOK, Handshakes, Reading, NEW pkt \in Hands, NEW sleepers,
         Offer(pkt, sleepers),
         UNCHANGED <<codec, decoder, flush_streams, stop_streams>>
  PROVE  Handshakes'
<1>1. Reading'
  BY DEF Offer, Reading
<1>2. ASSUME NEW s \in Streams
      PROVE  /\ HoldsOld(packets'[s]) => HoldsOld(packets[s])
             /\ packets'[s].taken = packets[s].taken
             /\ packets[s].items # <<>> => packets'[s].items # <<>>
  <2>1. packets'[s] \in {packets[s], Reserve(packets[s])}
    BY DEF Offer, TypeOK
  <2>2. packets[s] \in FifoType
    BY DEF TypeOK
  <2>3. Reserve(packets[s]).taken = packets[s].taken /\ Reserve(packets[s]).items = packets[s].items
    BY <2>2 DEF Reserve, FifoType
  <2>4. HoldsOld(Reserve(packets[s])) => HoldsOld(packets[s])
    BY <2>2, MarksOfReserve
  <2>5. QED
    BY <2>1, <2>3, <2>4
<1>3. QED
  BY <1>1, <1>2, ReadingKeepsHandshakes

LEMMA FlushCleans ==
  ASSUME FlushCodecs, "unset" \notin Faults, NEW s \in Streams
  PROVE  codec'[s] = "clean"
BY DEF FlushCodecs, CountIsRight

LEMMA ReaderKeepsHandshakes ==
  ASSUME TypeOK, HandInv, Handshakes, ReaderNext
  PROVE  Handshakes'
<1>0. /\ packets \in [Streams -> FifoType]
      /\ codec \in [Streams -> {"clean", "fresh", "stale"}]
      /\ flush_streams \in [Streams -> BOOLEAN] /\ stop_streams \in [Streams -> BOOLEAN]
      /\ \A s \in Streams : HandshakesOf(s)
  BY HandshakesPerStream DEF TypeOK
<1>1. CASE ReadFrame \/ WaitAtEnd
  <2>1. Reading /\ Reading'
    BY <1>1 DEF ReadFrame, WaitAtEnd, GoesOn, AtCheck, Reading, readerVars
  <2>2. UNCHANGED <<packets, codec, decoder, flush_streams, stop_streams>>
    BY <1>1 DEF ReadFrame, WaitAtEnd, media, requests, decoderVars
  <2>3. QED
    BY <2>1, <2>2, ReadingKeepsHandshakes
<1>2. CASE OfferPacket
  <2>1. /\ hand \in Hands /\ Offer(hand, asleep) /\ Reading
        /\ UNCHANGED <<codec, decoder, flush_streams, stop_streams>>
    BY <1>2 DEF OfferPacket, Reading, HandInv, TypeOK, requests, decoderVars
  <2>2. QED
    BY <2>1, OfferKeepsHandshakes
<1>3. CASE PublishPacket
  <2> DEFINE p == [kind |-> hand.kind, fresh |-> TRUE]
  <2>1. hand \in Hands /\ hand.stream \in Streams
    BY <1>3 DEF PublishPacket, HandInv, TypeOK
  <2>2. p \in Packets /\ p.fresh
    BY <2>1 DEF Hands, Packets
  <2>3. /\ Reading /\ Reading'
        /\ UNCHANGED <<codec, decoder, flush_streams, stop_streams>>
    BY <1>3 DEF PublishPacket, Reading, requests, decoderVars
  <2>4. \A s \in Streams : packets'[s] \in {packets[s], Publish(packets[s], p)}
    BY <1>0, <1>3 DEF PublishPacket
  <2>5. ASSUME NEW s \in Streams
        PROVE  /\ HoldsOld(packets'[s]) => HoldsOld(packets[s])
               /\ packets'[s].taken = packets[s].taken
               /\ packets[s].items # <<>> => packets'[s].items # <<>>
    <3>1. /\ HoldsOld(Publish(packets[s], p)) => HoldsOld(packets[s])
          /\ Publish(packets[s], p).taken = packets[s].taken
          /\ Publish(packets[s], p).items # <<>>
      BY <1>0, <2>2, QueueFills
    <3>2. packets'[s] = packets[s] \/ packets'[s] = Publish(packets[s], p)
      BY <2>4
    <3>3. QED
      BY <3>1, <3>2
  <2>6. QED
    BY <2>3, <2>5, ReadingKeepsHandshakes
<1>4. CASE PushEndOfStream
  <2> DEFINE p == [kind |-> hand.kind, fresh |-> TRUE]
  <2>1. hand \in Hands
    BY <1>4 DEF PushEndOfStream, HandInv, TypeOK
  <2>2. p \in Packets /\ p.fresh
    BY <2>1 DEF Hands, Packets
  <2>3. /\ Reading /\ Reading'
        /\ UNCHANGED <<codec, decoder, flush_streams, stop_streams>>
    BY <1>4 DEF PushEndOfStream, Reading, requests, decoderVars, readerVars
  <2>4. \A s \in Streams : packets'[s] \in {packets[s], Publish(Reserve(packets[s]), p)}
    BY <1>0, <1>4 DEF PushEndOfStream
  <2>5. ASSUME NEW s \in Streams
        PROVE  /\ HoldsOld(packets'[s]) => HoldsOld(packets[s])
               /\ packets'[s].taken = packets[s].taken
               /\ packets[s].items # <<>> => packets'[s].items # <<>>
    <3>1. Reserve(packets[s]) \in FifoType
      BY <1>0, FifoTypes
    <3>2. Reserve(packets[s]).taken = packets[s].taken
      BY <1>0 DEF Reserve, FifoType
    <3>3. HoldsOld(Reserve(packets[s])) => HoldsOld(packets[s])
      BY <1>0, MarksOfReserve
    <3>4. LET g == Reserve(packets[s])
          IN  /\ HoldsOld(Publish(g, p)) => HoldsOld(g)
              /\ Publish(g, p).taken = g.taken
              /\ Publish(g, p).items # <<>>
      BY <2>2, <3>1, QueueFills
    <3>5. packets'[s] = packets[s] \/ packets'[s] = Publish(Reserve(packets[s]), p)
      BY <2>4
    <3>6. QED
      BY <3>2, <3>3, <3>4, <3>5
  <2>6. QED
    BY <2>3, <2>5, ReadingKeepsHandshakes
<1>5. CASE ReaderKeepsWaiting
  BY <1>5 DEF ReaderKeepsWaiting, media, requests, readerVars, decoderVars, Handshakes,
     TakenInv, FlushInv, StopInv, CleanInv, NothingStaleAfterSeek, UsesCodec, Drained, Stale,
     HoldsOld, HoldsNew
<1>6. CASE ExitLoop
  <2>1. /\ Reading /\ reader' = "stopWait"
        /\ stop_streams' = All(TRUE)
        /\ UNCHANGED <<packets, codec, decoder, flush_streams>>
    BY <1>6 DEF ExitLoop, AtCheck, Reading, media, decoderVars
  <2>2. ASSUME NEW s \in Streams PROVE HandshakesOf(s)'
    <3>1. stop_streams'[s]
      BY <2>1 DEF All
    <3>2. QED
      BY <1>0, <2>1, <3>1 DEF HandshakesOf, UsesCodec, Drained, Stale, Reading,
         HoldsOld, HoldsNew
  <2>3. QED
    BY <2>2, HandshakesPerStream
<1>7. CASE ReaderExits
  <2>1. /\ reader = "stopWait" /\ reader' = "done"
        /\ stop_streams = All(FALSE) /\ FlushCodecs
        /\ UNCHANGED <<packets, decoder, flush_streams, stop_streams>>
    BY <1>7 DEF ReaderExits, Answered, requests, decoderVars
  <2>2. ASSUME NEW s \in Streams PROVE HandshakesOf(s)'
    <3>1. ~stop_streams[s] /\ ("unset" \notin Faults => codec'[s] = "clean")
      BY <2>1, FlushCleans DEF All
    <3>2. QED
      BY <1>0, <2>1, <3>1 DEF HandshakesOf, UsesCodec, Drained
  <2>3. QED
    BY <2>2, HandshakesPerStream
<1>8. CASE SeekFails
  <2>1. PICK pkt \in Hands : Offer(pkt, {})
    BY <1>8, HeldOffer
  <2>2. Reading /\ UNCHANGED <<codec, decoder, flush_streams, stop_streams>>
    BY <1>8 DEF SeekFails, AtCheck, Reading, requests, decoderVars
  <2>3. QED
    BY <2>1, <2>2, OfferKeepsHandshakes
<1>9. CASE SeekStarts
  <2>1. /\ Reading /\ reader' = "seekWait"
        /\ flush_streams' = All(TRUE)
        /\ UNCHANGED <<decoder, stop_streams>>
    BY <1>9 DEF SeekStarts, AtCheck, Reading, decoderVars
  <2>2. ASSUME NEW s \in Streams PROVE HandshakesOf(s)'
    <3>1. flush_streams'[s]
      BY <2>1 DEF All
    <3>2. packets'[s] = AgedQueue(packets[s]) /\ codec'[s] # "fresh"
      BY <1>9 DEF SeekStarts
    <3>3. /\ ~HoldsNew(packets'[s])
          /\ packets'[s].items = <<>> <=> packets[s].items = <<>>
          /\ packets'[s].taken = NoPacket <=> packets[s].taken = NoPacket
      <4>1. packets[s] \in FifoType
        BY <1>0
      <4>2. QED
        BY <3>2, <4>1, MarksOfSeek
    <3>4. /\ UNCHANGED <<decoder[s], stop_streams[s]>>
          /\ ~stop_streams[s] /\ decoder[s] # "none"
          /\ UsesCodec(s) <=> packets[s].taken # NoPacket
          /\ packets[s].taken # NoPacket => packets[s].items # <<>>
      BY <1>0, <2>1 DEF HandshakesOf, Reading
    <3>5. UsesCodec(s)' <=> UsesCodec(s)
      BY <3>4 DEF UsesCodec
    <3>6. QED
      BY <2>1, <3>1, <3>2, <3>3, <3>4, <3>5 DEF HandshakesOf
  <2>3. QED
    BY <2>2, HandshakesPerStream
<1>10. CASE SeekEnds
  <2>1. /\ reader = "seekWait" /\ reader' = "read"
        /\ flush_streams = All(FALSE) /\ FlushCodecs
        /\ UNCHANGED <<packets, decoder, flush_streams, stop_streams>>
    BY <1>10 DEF SeekEnds, Answered, requests, decoderVars
  <2>2. ASSUME NEW s \in Streams PROVE HandshakesOf(s)'
    <3>1. ~flush_streams[s] /\ ("unset" \notin Faults => codec'[s] = "clean")
      BY <2>1, FlushCleans DEF All
    <3>2. HandshakesOf(s) /\ decoder[s] = "pop" /\ Drained(s)
      BY <1>0, <2>1, <3>1 DEF HandshakesOf
    <3>3. UNCHANGED <<packets[s], decoder[s], flush_streams[s], stop_streams[s]>>
      BY <2>1
    <3>4. ~HoldsOld(packets'[s])
      BY <3>2, <3>3 DEF Drained, HoldsOld
    <3>5. QED
      BY <2>1, <3>1, <3>2, <3>3, <3>4 DEF HandshakesOf, UsesCodec, Drained, Stale
  <2>3. QED
    BY <2>2, HandshakesPerStream
<1>11. QED
  BY <1>1, <1>2, <1>3, <1>4, <1>5, <1>6, <1>7, <1>8, <1>9, <1>10 DEF ReaderNext

LEMMA CallerKeepsHandshakes ==
  ASSUME TypeOK, Handshakes, OperationInv, NEW c \in Callers, CallerNext(c)
  PROVE  Handshakes'
<1>0. /\ decoder \in [Streams -> DecoderPlaces]
      /\ \A s \in Streams : HandshakesOf(s)
  BY HandshakesPerStream DEF TypeOK
<1>1. CASE UNCHANGED <<packets, codec, decoder, flush_streams, stop_streams, reader>>
  BY <1>1 DEF Handshakes, TakenInv, FlushInv, StopInv, CleanInv, NothingStaleAfterSeek,
     UsesCodec, Drained, Stale, HoldsOld, HoldsNew
<1>2. CASE Prepare(c)
  <2>1. /\ reader = "none" /\ reader' = "none"
        /\ packets' = All(Empty) /\ codec' = All("clean")
        /\ flush_streams' = All(FALSE) /\ stop_streams' = All(FALSE)
        /\ decoder' = decoder
    BY <1>2 DEF Prepare, OperationInv, readerVars
  <2>2. ASSUME NEW s \in Streams PROVE HandshakesOf(s)'
    <3>1. /\ packets'[s].items = <<>> /\ packets'[s].taken = NoPacket
          /\ codec'[s] = "clean" /\ ~flush_streams'[s] /\ ~stop_streams'[s]
      BY <2>1 DEF All, Empty
    <3>2. decoder[s] \in {"none", "pop", "done"}
      BY <1>0, <2>1 DEF HandshakesOf
    <3>3. QED
      BY <2>1, <3>1, <3>2 DEF HandshakesOf, UsesCodec, Drained
  <2>3. QED
    BY <2>2, HandshakesPerStream
<1>3. CASE CreateDecoder(c)
  <2>1. /\ reader = "none"
        /\ UNCHANGED <<packets, codec, flush_streams, stop_streams, reader>>
    BY <1>3 DEF CreateDecoder, OperationInv, media, requests, readerVars
  <2>2. ASSUME NEW s \in Streams PROVE HandshakesOf(s)'
    <3>1. decoder'[s] \in {decoder[s], "pop", "done"}
      BY <1>0, <1>3 DEF CreateDecoder, FirstPlaces, Move
    <3>2. QED
      BY <1>0, <2>1, <3>1 DEF HandshakesOf, UsesCodec, Drained
  <2>3. QED
    BY <2>2, HandshakesPerStream
<1>4. CASE CreateReader(c)
  <2>1. /\ reader = "none" /\ reader' \in {"read", "done"}
        /\ UNCHANGED <<packets, codec, decoder, flush_streams, stop_streams>>
        /\ \A s \in Streams : decoder[s] # "none"
    BY <1>4 DEF CreateReader, FirstPlaces, OperationInv, media, requests, decoderVars
  <2>2. ASSUME NEW s \in Streams PROVE HandshakesOf(s)'
    <3>1. HandshakesOf(s) /\ Drained(s) /\ ("unset" \notin Faults => codec[s] = "clean")
      BY <1>0, <2>1 DEF HandshakesOf
    <3>2. UNCHANGED <<packets[s], codec[s], decoder[s], flush_streams[s], stop_streams[s]>>
      BY <2>1
    <3>3. ~HoldsOld(packets'[s])
      BY <3>1, <3>2 DEF Drained, HoldsOld
    <3>4. decoder[s] # "none"
      BY <2>1
    <3>5. QED
      BY <2>1, <3>1, <3>2, <3>3, <3>4 DEF HandshakesOf, UsesCodec, Drained, Stale
  <2>3. QED
    BY <2>2, HandshakesPerStream
<1>5. CASE JoinReader(c)
  <2>1. /\ reader \in {"none", "done"} /\ reader' = "none"
        /\ UNCHANGED <<packets, codec, decoder, flush_streams, stop_streams>>
    BY <1>5 DEF JoinReader, Joins, media, requests, decoderVars
  <2>2. ASSUME NEW s \in Streams PROVE HandshakesOf(s)'
    BY <1>0, <2>1 DEF HandshakesOf, UsesCodec, Drained
  <2>3. QED
    BY <2>2, HandshakesPerStream
<1>6. CASE JoinDecoders(c)
  <2>1. /\ reader = "none" /\ reader' = "none"
        /\ packets' = All(Empty) /\ codec' = All("clean") /\ decoder' = All("none")
        /\ UNCHANGED <<flush_streams, stop_streams>>
    BY <1>6 DEF JoinDecoders, OperationInv, requests, readerVars
  <2>2. ASSUME NEW s \in Streams PROVE HandshakesOf(s)'
    <3>1. /\ packets'[s].items = <<>> /\ packets'[s].taken = NoPacket
          /\ codec'[s] = "clean" /\ decoder'[s] = "none"
      BY <2>1 DEF All, Empty
    <3>2. ~flush_streams[s] /\ ~stop_streams[s]
      BY <1>0, <2>1 DEF HandshakesOf
    <3>3. QED
      BY <2>1, <3>1, <3>2 DEF HandshakesOf, UsesCodec, Drained
  <2>3. QED
    BY <2>2, HandshakesPerStream
<1>7. QED
  <2>1. CASE \/ Pause(c) \/ Resume(c) \/ Seek(c) \/ Interrupt(c) \/ Stop(c)
             \/ SetDataSource(c) \/ SeekWaits(c) \/ SeekReturns(c)
             \/ OpenContext(c) \/ GiveUp(c)
    <3>1. UNCHANGED <<packets, codec, decoder, flush_streams, stop_streams, reader>>
      BY <2>1 DEF Pause, Resume, Seek, Interrupt, Stop, SetDataSource, StopPlaying,
         SeekWaits, SeekReturns, OpenContext, GiveUp, media, requests, readerVars, decoderVars
    <3>2. QED
      BY <1>1, <3>1
  <2>2. QED
    BY <1>2, <1>3, <1>4, <1>5, <1>6, <2>1 DEF CallerNext, CallerContinues

-----------------------------------------------------------------------------
(* The inductive invariant and what follows from it.                       *)

LEMMA InitialState == Init => TypeOK /\ IInv
<1> SUFFICES ASSUME Init PROVE TypeOK /\ IInv
  OBVIOUS
<1> USE PipelineAssumption DEF Init, All
<1>1. TypeOK
  BY EmptyType DEF TypeOK, CallerPlaces, ReaderPlaces, DecoderPlaces
<1>2. HandInv /\ CleanInv
  BY DEF HandInv, CleanInv, NothingStaleAfterSeek
<1>3. TakenInv /\ FlushInv /\ StopInv
  BY DEF TakenInv, FlushInv, StopInv, UsesCodec, Drained, Empty
<1>4. OperationInv
  BY DEF OperationInv
<1>5. QED
  BY <1>1, <1>2, <1>3, <1>4 DEF IInv

LEMMA Inductive == TypeOK /\ IInv /\ [Next]_vars => TypeOK' /\ IInv'
<1> SUFFICES ASSUME TypeOK, IInv, [Next]_vars PROVE TypeOK' /\ IInv'
  OBVIOUS
<1> USE DEF IInv, Handshakes
<1>1. CASE ReaderNext
  BY <1>1, ReaderKeepsTypes, ReaderKeepsHandshakes, ReaderKeepsOperation
<1>2. ASSUME NEW s \in Streams, DecoderNext(s) PROVE TypeOK' /\ IInv'
  BY <1>2, DecoderKeepsTypes, DecoderKeepsHandshakes, DecoderKeepsOperation
<1>3. ASSUME NEW c \in Callers, CallerNext(c) PROVE TypeOK' /\ IInv'
  BY <1>3, CallerKeepsTypes, CallerKeepsHandshakes, CallerKeepsOperation
<1>4. CASE UNCHANGED vars
  <2>1. TypeOK'
    BY <1>4 DEF vars, media, flags, requests, readerVars, decoderVars, callerVars, TypeOK
  <2>2. HandInv' /\ OperationInv'
    BY <1>4 DEF vars, media, flags, requests, readerVars, decoderVars, callerVars,
       HandInv, OperationInv
  <2>3. Handshakes'
    BY <1>4 DEF vars, media, flags, requests, readerVars, decoderVars, callerVars,
       TakenInv, FlushInv, StopInv, CleanInv, NothingStaleAfterSeek, UsesCodec, Drained, Stale,
       HoldsOld, HoldsNew
  <2>4. QED
    BY <2>1, <2>2, <2>3
<1>5. QED
  BY <1>1, <1>2, <1>3, <1>4 DEF Next

LEMMA InvariantHolds == Spec => [](TypeOK /\ IInv)
BY InitialState, Inductive, PTL DEF Spec

(* Every variable has its type: a packet is only published out of a full    *)
(* hand and only released by the decoder that took it.                      *)
THEOREM PipelineTypeCorrect == Spec => []TypeOK
BY InvariantHolds, PTL

(* The handshakes, for any number of streams and callers and whatever       *)
(* fails: a decoder that has answered a request is parked with nothing      *)
(* left, and only the holder of mutex_operation touches the threads.        *)
THEOREM HandshakesHold == Spec => []IInv
BY InvariantHolds, PTL

(* Outside a seek, no packet read before the last one is left in a queue,   *)
(* in the hands of a decoder or inside a codec, as long as no flush of the  *)
(* codecs is cut short by the uninitialized count.                          *)
THEOREM SeeksLeaveNothingStale ==
  ASSUME "unset" \notin Faults
  PROVE  Spec => []NothingStaleAfterSeek
<1>1. IInv => NothingStaleAfterSeek
  BY DEF IInv, CleanInv
<1>2. QED
  BY <1>1, InvariantHolds, PTL

(* A codec that holds data of before a seek is never given a packet of      *)
(* after it.                                                                *)
THEOREM PositionsNeverMix ==
  ASSUME "unset" \notin Faults
  PROVE  Spec => []NeverMixesPositions
<1>1. IInv => NeverMixesPositions
  <2> SUFFICES ASSUME IInv, NEW s \in Streams, decoder[s] = "decode",
                      packets[s].taken.fresh
               PROVE  codec[s] # "stale"
    BY DEF NeverMixesPositions
  <2>1. packets[s].taken # NoPacket
    BY DEF IInv, TakenInv, UsesCodec
  <2>2. reader # "seekWait"
    BY <2>1 DEF IInv, FlushInv, HoldsNew
  <2>3. reader \notin {"none", "done"}
    BY DEF IInv, StopInv
  <2>4. QED
    BY <2>2, <2>3 DEF IInv, CleanInv, NothingStaleAfterSeek, Stale
<1>2. QED
  BY <1>1, InvariantHolds, PTL

(* The reader only flushes the codecs when every decoder has answered the   *)
(* handshake, so no codec is flushed while its own thread uses it.          *)
THEOREM CodecsAreFlushedAlone == Spec => CodecFlushedAlone
<1>1. IInv => (ReaderExits \/ SeekEnds => \A s \in Streams : ~UsesCodec(s))
  <2> SUFFICES ASSUME IInv, ReaderExits \/ SeekEnds, NEW s \in Streams
               PROVE  ~UsesCodec(s)
    OBVIOUS
  <2>1. CASE ReaderExits
    BY <2>1 DEF ReaderExits, Answered, All, IInv, StopInv, UsesCodec
  <2>2. CASE SeekEnds
    BY <2>2 DEF SeekEnds, Answered, All, IInv, FlushInv, UsesCodec
  <2>3. QED
    BY <2>1, <2>2
<1>2. QED
  BY <1>1, InvariantHolds, PTL DEF CodecFlushedAlone

(* A thread never runs without its queues, and a source is only opened when *)
(* every thread of the last one has been joined.                            *)
THEOREM ThreadsAlwaysHaveQueues == Spec => []ThreadsHaveQueues
<1>1. IInv => ThreadsHaveQueues
  BY DEF IInv, OperationInv, ThreadsHaveQueues, Running
<1>2. QED
  BY <1>1, InvariantHolds, PTL

(* The operations exclude each other, and no seek is left pending without   *)
(* the caller that asked for it.                                            *)
THEOREM OperationsExclude == Spec => []OneOperation
<1>1. IInv => OneOperation
  BY DEF IInv, OperationInv, OneOperation
<1>2. QED
  BY <1>1, InvariantHolds, PTL

-----------------------------------------------------------------------------
(* Nobody sleeps through a change: SleepersAreBlocked is inductive by       *)
(* itself, apart from types.                                                *)

\* What SleepersAreBlocked says of the reader, of a decoder, of a caller.
ReaderBlocked ==
  \/ reader = "push" /\ NotAsked /\ ~CanReserve(packets[hand.stream])
  \/ reader = "eof" /\ NotAsked /\ ~CanReserve(packets[Video])
  \/ reader = "eofWait" /\ NotAsked
  \/ reader = "stopWait" /\ stop_streams # All(FALSE)
  \/ reader = "seekWait" /\ flush_streams # All(FALSE)

DecoderBlocked(s) ==
  /\ ~flush_streams[s] /\ ~stop_streams[s]
  /\ \/ decoder[s] = "pop" /\ ~CanTake(packets[s])
     \/ decoder[s] = "wait" /\ pause

CallerBlocked(c) == caller[c] = "seeking" /\ seek_position # DO_NOT_SEEK

LEMMA SleepersByThread ==
  ASSUME Reader \in asleep' => ReaderBlocked',
         \A s \in Streams \cap asleep' : DecoderBlocked(s)',
         \A c \in Callers \cap asleep' : CallerBlocked(c)'
  PROVE  SleepersAreBlocked'
BY DEF SleepersAreBlocked, ReaderBlocked, DecoderBlocked, CallerBlocked

LEMMA SleepersNow ==
  ASSUME SleepersAreBlocked
  PROVE  /\ Reader \in asleep => ReaderBlocked
         /\ \A s \in Streams \cap asleep : DecoderBlocked(s)
         /\ \A c \in Callers \cap asleep : CallerBlocked(c)
BY DEF SleepersAreBlocked, ReaderBlocked, DecoderBlocked, CallerBlocked

LEMMA AllAwake == asleep' = {} => SleepersAreBlocked'
BY DEF SleepersAreBlocked

LEMMA OfferSleepers ==
  ASSUME SleepersAreBlocked, NEW pkt, NEW sleepers \in SUBSET asleep,
         Offer(pkt, sleepers), Reader \notin asleep,
         ~stop', seek_position' = DO_NOT_SEEK, sleepers \cap Callers = {},
         UNCHANGED <<decoder, flush_streams, stop_streams, pause>>
  PROVE  SleepersAreBlocked'
<1>1. CASE Broadcast
  BY <1>1, AllAwake DEF Broadcast
<1>2. CASE packets' = packets /\ asleep' \in {sleepers, sleepers \cup {Reader}}
  <2>1. Reader \in asleep' => ReaderBlocked'
    BY <1>2 DEF Offer, ReaderBlocked, NotAsked, Broadcast
  <2>2. \A s \in Streams \cap asleep' : DecoderBlocked(s)'
    BY <1>2, SleepersNow, PipelineAssumption DEF DecoderBlocked
  <2>3. \A c \in Callers \cap asleep' : CallerBlocked(c)'
    BY <1>2, PipelineAssumption
  <2>4. QED
    BY <2>1, <2>2, <2>3, SleepersByThread
<1>3. QED
  BY <1>1, <1>2 DEF Offer

LEMMA ReaderWakesSleepers ==
  ASSUME TypeOK, SleepersAreBlocked, ReaderNext
  PROVE  SleepersAreBlocked'
<1> USE SleepersNow, SleepersByThread, PipelineAssumption
        DEF media, flags, requests, decoderVars, callerVars, readerVars, Awake
<1>0. Reader \in asleep => ReaderBlocked
  OBVIOUS
<1>1. CASE ReadFrame \/ ReaderExits
  <2>1. /\ Reader \notin asleep /\ asleep' = asleep
        /\ UNCHANGED <<packets, flags, requests, decoderVars, callerVars>>
    BY <1>0, <1>1 DEF ReadFrame, ReaderExits, ReaderBlocked
  <2>2. QED
    BY <2>1 DEF DecoderBlocked, CallerBlocked
<1>2. CASE OfferPacket
  <2>1. /\ Reader \notin asleep /\ ~stop' /\ seek_position' = DO_NOT_SEEK
        /\ UNCHANGED <<decoder, flush_streams, stop_streams, pause>>
        /\ Offer(hand, asleep)
    BY <1>2 DEF OfferPacket, GoesOn, AtCheck, NotAsked
  <2>2. asleep \cap Callers = {}
    BY <1>2 DEF OfferPacket, GoesOn, NotAsked, CallerBlocked
  <2>3. QED
    BY <2>1, <2>2, OfferSleepers
<1>7. CASE SeekFails
  <2>1. PICK pkt : Offer(pkt, {})
    BY <1>7 DEF SeekFails
  <2>2. /\ Reader \notin asleep /\ ~stop' /\ seek_position' = DO_NOT_SEEK
        /\ UNCHANGED <<decoder, flush_streams, stop_streams, pause>>
    BY <1>7 DEF SeekFails, AtCheck
  <2>3. {} \in SUBSET asleep /\ {} \cap Callers = {}
    OBVIOUS
  <2>4. QED
    BY <2>1, <2>2, <2>3, OfferSleepers
<1>3. CASE PublishPacket \/ SeekEnds
  BY <1>3, AllAwake DEF PublishPacket, SeekEnds, Broadcast
<1>4. CASE WaitAtEnd \/ ReaderKeepsWaiting
  <2>1. /\ asleep' = asleep \cup {Reader} /\ ReaderBlocked'
        /\ UNCHANGED <<packets, flags, requests, decoderVars, callerVars>>
    <3>1. CASE WaitAtEnd
      BY <3>1 DEF WaitAtEnd, GoesOn, NotAsked, ReaderBlocked, Sleep
    <3>2. CASE ReaderKeepsWaiting
      <4>1. /\ asleep' = asleep \cup {Reader}
            /\ UNCHANGED <<packets, flags, requests, readerVars, decoderVars, callerVars>>
        BY <3>2 DEF ReaderKeepsWaiting, Sleep
      <4>2. \/ reader = "stopWait" /\ stop_streams # All(FALSE)
            \/ reader = "seekWait" /\ flush_streams # All(FALSE)
        BY <3>2 DEF ReaderKeepsWaiting, Answered
      <4>3. QED
        BY <4>1, <4>2 DEF ReaderBlocked, All
    <3>3. QED
      BY <1>4, <3>1, <3>2
  <2>2. QED
    BY <2>1 DEF DecoderBlocked, CallerBlocked
<1>5. CASE ExitLoop \/ SeekStarts
  <2>1. asleep' = {Reader} /\ ReaderBlocked'
    BY <1>5 DEF ExitLoop, SeekStarts, ReaderBlocked, BroadcastAndSleep, All
  <2>2. QED
    BY <2>1
<1>6. CASE PushEndOfStream
  <2>1. CASE CanReserve(packets[Video])
    <3>1. asleep' = {Reader} /\ ReaderBlocked'
      BY <1>6, <2>1 DEF PushEndOfStream, GoesOn, NotAsked, ReaderBlocked, BroadcastAndSleep
    <3>2. QED
      BY <3>1
  <2>2. CASE ~CanReserve(packets[Video])
    <3>1. /\ asleep' = asleep \cup {Reader} /\ ReaderBlocked'
          /\ UNCHANGED <<packets, flags, requests, decoderVars, callerVars>>
      BY <1>6, <2>2 DEF PushEndOfStream, GoesOn, NotAsked, ReaderBlocked, Sleep
    <3>2. QED
      BY <3>1 DEF DecoderBlocked, CallerBlocked
  <2>3. QED
    BY <2>1, <2>2
<1>8. QED
  BY <1>1, <1>2, <1>3, <1>4, <1>5, <1>6, <1>7 DEF ReaderNext

LEMMA DecoderWakesSleepers ==
  ASSUME TypeOK, SleepersAreBlocked, NEW s \in Streams, DecoderNext(s)
  PROVE  SleepersAreBlocked'
<1> USE SleepersNow, SleepersByThread, PipelineAssumption
        DEF media, flags, requests, readerVars, callerVars, decoderVars, Awake, Move, TypeOK
<1>1. CASE ReportAndRelease(s) \/ FlushStream(s) \/ StopStream(s)
  BY <1>1, AllAwake DEF ReportAndRelease, FlushStream, StopStream, Broadcast
<1>2. CASE WaitForPacket(s) \/ FrameWhilePaused(s)
  <2>1. /\ asleep' = asleep \cup {s} /\ DecoderBlocked(s)'
        /\ UNCHANGED <<packets, flags, requests, readerVars, decoderVars, callerVars>>
    BY <1>2 DEF WaitForPacket, FrameWhilePaused, AtPop, WaitEnds, DecoderBlocked, Sleep
  <2>2. QED
    BY <2>1 DEF DecoderBlocked, CallerBlocked, ReaderBlocked, NotAsked
<1>3. CASE Decode(s) \/ FrameIsDue(s)
  <2>1. /\ s \notin asleep /\ asleep' = asleep
        /\ UNCHANGED <<packets, flags, requests, readerVars, callerVars>>
        /\ \A t \in Streams \ {s} : decoder'[t] = decoder[t]
    BY <1>3 DEF Decode, FrameIsDue, DecoderBlocked
  <2>2. QED
    BY <2>1 DEF DecoderBlocked, CallerBlocked, ReaderBlocked, NotAsked
<1>4. CASE TakePacket(s)
  <2>1. /\ s \notin asleep /\ asleep' = asleep
        /\ UNCHANGED <<flags, requests, readerVars, callerVars>>
        /\ packets' = [packets EXCEPT ![s] = Take(@)]
        /\ \A t \in Streams \ {s} : decoder'[t] = decoder[t] /\ packets'[t] = packets[t]
    BY <1>4 DEF TakePacket, AtPop
  <2>2. \A t \in Streams : CanReserve(packets'[t]) = CanReserve(packets[t])
    <3>1. CanReserve(Take(packets[s])) = CanReserve(packets[s])
      BY DEF CanReserve, InUse, Take, FifoType
    <3>2. QED
      BY <2>1, <3>1
  <2>3. Reader \in asleep' => ReaderBlocked'
    <3>1. reader = "push" => hand.stream \in Streams \/ packets'[hand.stream] = packets[hand.stream]
      BY <2>1
    <3>2. Video \in Streams
      OBVIOUS
    <3>3. QED
      BY <2>1, <2>2, <3>1, <3>2 DEF ReaderBlocked, NotAsked
  <2>4. QED
    BY <2>1, <2>3 DEF DecoderBlocked, CallerBlocked
<1>5. QED
  BY <1>1, <1>2, <1>3, <1>4 DEF DecoderNext

LEMMA CallerWakesSleepers ==
  ASSUME TypeOK, IInv, SleepersAreBlocked, NEW c \in Callers, CallerNext(c)
  PROVE  SleepersAreBlocked'
<1> USE SleepersNow, SleepersByThread, PipelineAssumption
        DEF media, flags, requests, readerVars, decoderVars, callerVars, Awake, Place, TypeOK
<1>0. /\ Reader \in asleep => reader \notin {"none", "done"}
      /\ \A s \in Streams \cap asleep : decoder[s] \in {"pop", "wait"}
      /\ \A d \in Callers \cap asleep : caller[d] = "seeking"
  BY DEF ReaderBlocked, DecoderBlocked, CallerBlocked
<1>1. CASE \/ Pause(c) \/ Resume(c) \/ Prepare(c) \/ GiveUp(c)
           \/ \E why \in {"stop", "load"} : StopPlaying(c, why)
  BY <1>1, AllAwake DEF Pause, Resume, Prepare, GiveUp, StopPlaying, AskToStop, Broadcast
<1>2. CASE Seek(c)
  <2>1. asleep' = {c} /\ CallerBlocked(c)'
    BY <1>2 DEF Seek, CallerBlocked, BroadcastAndSleep, DO_NOT_SEEK
  <2>2. QED
    BY <2>1
<1>3. CASE SeekWaits(c)
  <2>1. /\ asleep' = asleep \cup {c} /\ CallerBlocked(c)'
        /\ UNCHANGED <<packets, flags, requests, readerVars, decoderVars, callerVars>>
    BY <1>3 DEF SeekWaits, CallerBlocked, Sleep
  <2>2. QED
    BY <2>1 DEF DecoderBlocked, CallerBlocked, ReaderBlocked, NotAsked
<1>4. ASSUME c \notin asleep, pause => pause',
             UNCHANGED <<packets, stop, seek_position, requests, readerVars, decoderVars, asleep>>,
             \A d \in Callers \ {c} : caller'[d] = caller[d]
      PROVE  SleepersAreBlocked'
  <2>1. Reader \in asleep' => ReaderBlocked'
    BY <1>4 DEF ReaderBlocked, NotAsked
  <2>2. \A s \in Streams \cap asleep' : DecoderBlocked(s)'
    BY <1>4 DEF DecoderBlocked
  <2>3. \A d \in Callers \cap asleep' : CallerBlocked(d)'
    BY <1>4 DEF CallerBlocked
  <2>4. QED
    BY <2>1, <2>2, <2>3
<1>5. CASE \/ SeekReturns(c) \/ Interrupt(c) \/ OpenContext(c)
           \/ (Stop(c) /\ ~playing) \/ (SetDataSource(c) /\ ~playing)
  <2>1. /\ c \notin asleep /\ (pause => pause')
        /\ UNCHANGED <<packets, stop, seek_position, requests, readerVars, decoderVars, asleep>>
        /\ \A d \in Callers \ {c} : caller'[d] = caller[d]
    BY <1>0, <1>5 DEF SeekReturns, Interrupt, OpenContext, Stop, SetDataSource, Idle,
       StopPlaying
  <2>2. QED
    BY <1>4, <2>1
<1>6. CASE CreateDecoder(c)
  <2>1. PICK s \in Streams :
          /\ decoder[s] = "none" /\ \A t \in Streams \ {s} : decoder'[t] = decoder[t]
          /\ UNCHANGED <<packets, flags, requests, readerVars, callerVars, asleep>>
    BY <1>6 DEF CreateDecoder, Move
  <2>2. s \notin asleep
    BY <1>0, <2>1
  <2>3. QED
    BY <2>1, <2>2 DEF DecoderBlocked, CallerBlocked, ReaderBlocked, NotAsked
<1>7. CASE CreateReader(c) \/ JoinReader(c)
  <2>1. /\ reader \in {"none", "done"} /\ c \notin asleep
        /\ UNCHANGED <<packets, pause, seek_position, requests, decoderVars, asleep>>
        /\ \A d \in Callers \ {c} : caller'[d] = caller[d]
    BY <1>0, <1>7 DEF CreateReader, JoinReader, Joins, IInv, OperationInv
  <2>2. QED
    BY <1>0, <2>1 DEF DecoderBlocked, CallerBlocked
<1>8. CASE JoinDecoders(c)
  <2>1. /\ reader = "none" /\ \A s \in Streams : decoder[s] \in {"none", "done"}
        /\ c \notin asleep
        /\ UNCHANGED <<seek_position, asleep>>
        /\ \A d \in Callers \ {c} : caller'[d] = caller[d]
    BY <1>0, <1>8 DEF JoinDecoders, Joins, IInv, OperationInv
  <2>2. QED
    BY <1>0, <2>1 DEF CallerBlocked
<1>9. QED
  <2>1. Stop(c) => (\E why \in {"stop", "load"} : StopPlaying(c, why)) \/ ~playing
    BY DEF Stop
  <2>2. SetDataSource(c) => (\E why \in {"stop", "load"} : StopPlaying(c, why)) \/ ~playing
    BY DEF SetDataSource
  <2>3. QED
    BY <1>1, <1>2, <1>3, <1>5, <1>6, <1>7, <1>8, <2>1, <2>2 DEF CallerNext, CallerContinues

(* No wakeup is lost: a thread asleep on cond_queue could do nothing if it  *)
(* were awake.                                                              *)
THEOREM SleepersStayBlocked == Spec => []SleepersAreBlocked
<1>1. Init => SleepersAreBlocked
  BY DEF Init, SleepersAreBlocked
<1>2. TypeOK /\ IInv /\ SleepersAreBlocked /\ [Next]_vars => SleepersAreBlocked'
  <2>1. CASE UNCHANGED vars
    BY <2>1 DEF vars, media, flags, requests, readerVars, decoderVars, callerVars,
       SleepersAreBlocked, NotAsked
  <2>2. QED
    BY <2>1, ReaderWakesSleepers, DecoderWakesSleepers, CallerWakesSleepers DEF Next
<1>3. QED
  BY <1>1, <1>2, InvariantHolds, PTL DEF Spec

-----------------------------------------------------------------------------
(* The end-of-stream packet stays last: the reader reads nothing after it   *)
(* until the queue was emptied for a seek or thrown away.                   *)

NoEnd(f)   == \A i \in DOMAIN f.items : f.items[i].kind \notin EndKinds
EndLast(f) == \A i, j \in DOMAIN f.items : i < j => f.items[i].kind \notin EndKinds

EndInv ==
  /\ EndLast(packets[Video])
  /\ reader \in {"read", "offer", "push", "fill", "eof"} => NoEnd(packets[Video])
  /\ reader \in {"offer", "push", "fill"} => hand.kind \notin EndKinds

LEMMA NoEndIsLast ==
  ASSUME NEW f \in FifoType
  PROVE  /\ NoEnd(f) => EndLast(f)
         /\ f.items = <<>> => NoEnd(f)
BY DEF NoEnd, EndLast

LEMMA EndOfShorter ==
  ASSUME NEW f \in FifoType, NEW g \in {Reserve(f), Take(f), Drain(f), AgedQueue(f)}
  PROVE  /\ NoEnd(f) => NoEnd(g)
         /\ EndLast(f) => EndLast(g)
<1>1. CASE g \in {Reserve(f), Take(f)}
  <2>1. g.items = f.items
    BY <1>1 DEF Reserve, Take, FifoType
  <2> QED
    BY <2>1 DEF NoEnd, EndLast
<1>2. CASE g = Drain(f)
  <2>1. g.items = <<>>
    BY <1>2 DEF Drain, FifoType
  <2> QED
    BY <2>1 DEF NoEnd, EndLast
<1>3. CASE g = AgedQueue(f)
  <2>1. \A i \in DOMAIN f.items : f.items[i] \in Packets
    BY DEF FifoType
  <2>2. \A p \in Packets : Aged(p).kind = p.kind
    BY DEF Packets, Aged
  <2>3. g.items = [i \in DOMAIN f.items |-> Aged(f.items[i])]
    BY <1>3 DEF AgedQueue, FifoType
  <2> QED
    BY <2>1, <2>2, <2>3 DEF NoEnd, EndLast
<1> QED
  BY <1>1, <1>2, <1>3

LEMMA EndOfRelease ==
  ASSUME NEW f \in FifoType, f.items # <<>>
  PROVE  /\ NoEnd(f) => NoEnd(Release(f))
         /\ EndLast(f) => EndLast(Release(f))
<1>1. Release(f).items = Tail(f.items)
  BY DEF Release, FifoType
<1>2. \A i \in DOMAIN Tail(f.items) :
        i + 1 \in DOMAIN f.items /\ Tail(f.items)[i] = f.items[i + 1]
  BY DEF FifoType
<1>3. \A i \in DOMAIN Tail(f.items) : i \in Int
  BY DEF FifoType
<1> QED
  BY <1>1, <1>2, <1>3 DEF NoEnd, EndLast

LEMMA EndOfPublish ==
  ASSUME NEW f \in FifoType, NEW p \in Packets, NoEnd(f)
  PROVE  /\ EndLast(Publish(f, p))
         /\ p.kind \notin EndKinds => NoEnd(Publish(f, p))
<1>1. Publish(f, p).items = Append(f.items, p)
  BY DEF Publish, FifoType
<1>2. /\ DOMAIN Append(f.items, p) = 1 .. Len(f.items) + 1
      /\ \A i \in 1 .. Len(f.items) : Append(f.items, p)[i] = f.items[i]
      /\ Append(f.items, p)[Len(f.items) + 1] = p
      /\ DOMAIN f.items = 1 .. Len(f.items) /\ Len(f.items) \in Nat
  BY DEF FifoType
<1>3. EndLast(Publish(f, p))
  BY <1>1, <1>2 DEF NoEnd, EndLast
<1>4. ASSUME p.kind \notin EndKinds PROVE NoEnd(Publish(f, p))
  BY <1>1, <1>2, <1>4 DEF NoEnd
<1> QED
  BY <1>3, <1>4

LEMMA ReaderKeepsEnd ==
  ASSUME "seek" \notin Faults, TypeOK, IInv, EndInv, ReaderNext
  PROVE  EndInv'
<1>0. Video \in Streams /\ packets[Video] \in FifoType
  BY PipelineAssumption DEF TypeOK
<1> DEFINE f == packets[Video]
<1>1. CASE ReadFrame
  BY <1>1 DEF ReadFrame, EndInv, EndKinds, media
<1>2. CASE OfferPacket
  <2>1. reader \in {"offer", "push"} /\ Offer(hand, asleep)
    BY <1>2 DEF OfferPacket
  <2>2. packets'[Video] \in {f, Reserve(f)}
    BY <2>1, <1>0 DEF Offer, TypeOK
  <2>3. NoEnd(f) /\ hand.kind \notin EndKinds
    BY <2>1 DEF EndInv
  <2>4. reader' = "read" \/ hand' = hand
    BY <2>1 DEF Offer
  <2>5. NoEnd(packets'[Video]) /\ EndLast(packets'[Video])
    BY <1>0, <2>2, <2>3, EndOfShorter, NoEndIsLast
  <2> QED
    BY <2>3, <2>4, <2>5 DEF EndInv
<1>3. CASE PublishPacket
  <2>1. reader = "fill" /\ hand \in Hands /\ hand.stream \in Streams
    BY <1>3 DEF PublishPacket, TypeOK, IInv, HandInv
  <2> DEFINE p == [kind |-> hand.kind, fresh |-> TRUE]
  <2>2. p \in Packets /\ p.kind \notin EndKinds /\ NoEnd(f)
    BY <2>1 DEF Hands, Packets, EndInv
  <2>3. packets'[Video] \in {f, Publish(f, p)} /\ reader' = "read"
    BY <1>3, <1>0 DEF PublishPacket, TypeOK
  <2>4. NoEnd(packets'[Video]) /\ EndLast(packets'[Video])
    BY <1>0, <2>2, <2>3, EndOfPublish, NoEndIsLast
  <2> QED
    BY <2>3, <2>4 DEF EndInv
<1>4. CASE PushEndOfStream
  <2>1. CASE CanReserve(f)
    <3> DEFINE p == [kind |-> hand.kind, fresh |-> TRUE]
    <3>1. hand \in Hands /\ NoEnd(f) /\ p \in Packets
      BY <1>4 DEF PushEndOfStream, IInv, HandInv, TypeOK, EndInv, Hands, Packets
    <3>2. packets'[Video] = Publish(Reserve(f), p) /\ reader' = "eofWait"
      BY <1>4, <1>0, <2>1 DEF PushEndOfStream, TypeOK
    <3>3. NoEnd(Reserve(f)) /\ Reserve(f) \in FifoType
      BY <1>0, <3>1, EndOfShorter, FifoTypes
    <3> QED
      BY <3>1, <3>2, <3>3, EndOfPublish DEF EndInv
  <2>2. CASE ~CanReserve(f)
    BY <1>4, <2>2 DEF PushEndOfStream, EndInv
  <2> QED
    BY <2>1, <2>2
<1>5. CASE WaitAtEnd \/ ReaderKeepsWaiting
  BY <1>5 DEF WaitAtEnd, ReaderKeepsWaiting, EndInv, media, readerVars
<1>6. CASE ExitLoop \/ ReaderExits
  BY <1>6 DEF ExitLoop, ReaderExits, EndInv, media
<1>7. CASE SeekStarts
  <2>1. packets'[Video] = AgedQueue(f) /\ reader' = "seekWait"
    BY <1>0, <1>7 DEF SeekStarts
  <2>2. EndLast(packets'[Video])
    BY <1>0, <2>1, EndOfShorter DEF EndInv
  <2> QED
    BY <2>1, <2>2 DEF EndInv
<1>8. CASE SeekEnds
  <2>1. f.items = <<>> /\ packets' = packets /\ reader' = "read"
    BY <1>0, <1>8 DEF SeekEnds, Answered, All, IInv, FlushInv, Drained
  <2> QED
    BY <1>0, <2>1, NoEndIsLast DEF EndInv
<1> QED
  BY <1>1, <1>2, <1>3, <1>4, <1>5, <1>6, <1>7, <1>8 DEF ReaderNext, SeekFails

LEMMA DecoderKeepsEnd ==
  ASSUME TypeOK, IInv, EndInv, NEW s \in Streams, DecoderNext(s)
  PROVE  EndInv'
<1> DEFINE f == packets[s]
<1>0. Video \in Streams /\ packets[Video] \in FifoType /\ f \in FifoType
  BY PipelineAssumption DEF TypeOK
<1>1. UNCHANGED <<reader, hand>>
  BY DEF DecoderNext, TakePacket, WaitForPacket, Decode, FrameIsDue, FrameWhilePaused,
     ReportAndRelease, FlushStream, StopStream, readerVars
<1>2. ASSUME packets'[Video] = packets[Video]
      PROVE  EndInv'
  BY <1>1, <1>2 DEF EndInv
<1>3. ASSUME NEW g, packets' = [packets EXCEPT ![s] = g],
             NoEnd(f) => NoEnd(g), EndLast(f) => EndLast(g)
      PROVE  EndInv'
  <2>1. CASE s = Video
    <3>1. packets'[Video] = g
      BY <1>0, <1>3, <2>1 DEF TypeOK
    <3> QED
      BY <1>1, <1>3, <2>1, <3>1 DEF EndInv
  <2>2. CASE s # Video
    BY <1>2, <1>3, <2>2, <1>0 DEF TypeOK
  <2> QED
    BY <2>1, <2>2
<1>4. CASE TakePacket(s)
  <2>1. packets' = [packets EXCEPT ![s] = Take(f)]
    BY <1>4 DEF TakePacket
  <2> QED
    BY <1>0, <1>3, <2>1, EndOfShorter
<1>5. CASE ReportAndRelease(s)
  <2>1. packets' = [packets EXCEPT ![s] = Release(f)] /\ f.items # <<>>
    BY <1>5 DEF ReportAndRelease, IInv, TakenInv, UsesCodec
  <2> QED
    BY <1>0, <1>3, <2>1, EndOfRelease
<1>6. CASE FlushStream(s) \/ StopStream(s)
  <2>1. packets' = [packets EXCEPT ![s] = Drain(f)]
    BY <1>6 DEF FlushStream, StopStream
  <2> QED
    BY <1>0, <1>3, <2>1, EndOfShorter
<1>7. CASE WaitForPacket(s) \/ Decode(s) \/ FrameIsDue(s) \/ FrameWhilePaused(s)
  BY <1>2, <1>7 DEF WaitForPacket, Decode, FrameIsDue, FrameWhilePaused, media
<1> QED
  BY <1>4, <1>5, <1>6, <1>7 DEF DecoderNext

LEMMA CallerKeepsEnd ==
  ASSUME TypeOK, IInv, EndInv, NEW c \in Callers, CallerNext(c)
  PROVE  EndInv'
<1>0. Video \in Streams /\ packets[Video] \in FifoType
  BY PipelineAssumption DEF TypeOK
<1>1. CASE Prepare(c) \/ JoinDecoders(c)
  <2>1. packets'[Video] = Empty /\ UNCHANGED <<reader, hand>>
    BY <1>0, <1>1 DEF Prepare, JoinDecoders, All, readerVars
  <2>2. NoEnd(Empty) /\ EndLast(Empty)
    BY DEF NoEnd, EndLast, Empty
  <2> QED
    BY <2>1, <2>2 DEF EndInv
<1>2. CASE CreateReader(c) \/ JoinReader(c)
  <2>1. packets' = packets /\ hand' = hand /\ reader' \in {"none", "read", "done"}
    BY <1>2 DEF CreateReader, JoinReader, FirstPlaces, media
  <2>2. packets[Video].items = <<>>
    BY <1>0, <1>2 DEF CreateReader, JoinReader, Joins, IInv, StopInv, OperationInv, Drained
  <2> QED
    BY <1>0, <2>1, <2>2, NoEndIsLast DEF EndInv
<1>3. ASSUME UNCHANGED <<packets, reader, hand>> PROVE EndInv'
  BY <1>3 DEF EndInv
<1>4. CASE \/ Pause(c) \/ Resume(c) \/ Seek(c) \/ Interrupt(c) \/ Stop(c) \/ SetDataSource(c)
  BY <1>3, <1>4 DEF Pause, Resume, Seek, Interrupt, Stop, SetDataSource, StopPlaying, media,
     readerVars
<1>5. CASE \/ SeekWaits(c) \/ SeekReturns(c) \/ OpenContext(c) \/ GiveUp(c) \/ CreateDecoder(c)
  BY <1>3, <1>5 DEF SeekWaits, SeekReturns, OpenContext, GiveUp, CreateDecoder, media, readerVars
<1> QED
  BY <1>1, <1>2, <1>4, <1>5 DEF CallerNext, CallerContinues

(* As long as no seek fails, nothing follows the packet that ends the video *)
(* until the queue has been emptied.  (After a failed seek the reader would *)
(* go on with a packet that it had not read.)                               *)
THEOREM EndStaysLast ==
  ASSUME "seek" \notin Faults
  PROVE  Spec => []EndIsLast
<1>1. Init => EndInv
  <2> SUFFICES ASSUME Init PROVE EndInv
    OBVIOUS
  <2>1. packets[Video] = Empty /\ reader = "none"
    BY PipelineAssumption DEF Init, All
  <2> QED
    BY <2>1 DEF EndInv, EndLast, Empty
<1>2. TypeOK /\ IInv /\ EndInv /\ [Next]_vars => EndInv'
  <2>1. ASSUME EndInv, UNCHANGED vars PROVE EndInv'
    BY <2>1 DEF vars, EndInv, media, readerVars, EndLast, NoEnd
  <2> QED
    BY <2>1, ReaderKeepsEnd, DecoderKeepsEnd, CallerKeepsEnd DEF Next
<1>3. EndInv => EndIsLast
  BY DEF EndInv, EndLast, EndIsLast
<1> QED
  BY <1>1, <1>2, <1>3, InvariantHolds, PTL DEF Spec
=============================================================================
