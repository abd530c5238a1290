-------------------------- MODULE PlayerClockProofs --------------------------
(***************************************************************************)
(* The properties of PlayerClock, for every set of streams, frame times,   *)
(* targets and thresholds, and without a bound on the number of seeks.     *)
(***************************************************************************)
EXTENDS PlayerClock, TLAPS

IInv == TypeOK /\ ClockInv

-----------------------------------------------------------------------------
(* The operations and the decoders' steps keep the invariant.               *)

LEMMA InitIInv == Init => IInv
<1> SUFFICES ASSUME Init
             PROVE  IInv
  OBVIOUS
<1>1. TypeOK
  <2>1. /\ now \in Int /\ start_time \in Int /\ pause_time \in Int
        /\ target \in Targets /\ frame \in [Streams -> FrameTimes]
    BY DEF Init
  <2>2. /\ pause \in BOOLEAN /\ seeking \in BOOLEAN
        /\ flush_streams \in [Streams -> BOOLEAN]
        /\ old \in [Streams -> BOOLEAN]
    BY Zenon DEF Init
  <2>3. place \in [Streams -> {"pop", "decode", "wait", "report"}]
    BY DEF Init
  <2> QED
    BY <2>1, <2>2, <2>3 DEF TypeOK
<1>2. ClockInv
  BY DEF Init, ClockInv, FlushInv, SeekLands
<1> QED
  BY <1>1, <1>2 DEF IInv

LEMMA OperationIInv ==
  ASSUME IInv, Tick \/ Reload \/ Pause \/ Resume \/ SeekStarts \/ SeekEnds
  PROVE  IInv'
<1> USE ClockAssumption
           DEF IInv, TypeOK, ClockInv, FlushInv, SeekLands, Position,
               clock, seekVars, decoders
<1>1. CASE Tick
  BY <1>1 DEF Tick
<1>2. CASE Reload
  BY <1>2 DEF Reload
<1>3. CASE Pause
  BY <1>3 DEF Pause
<1>4. CASE Resume
  <2>1. start_time' \in Int
    BY <1>4 DEF Resume
  <2>2. pause' \in BOOLEAN /\ ~seeking'
    BY <1>4, Zenon DEF Resume
  <2> QED
    BY <1>4, <2>1, <2>2 DEF Resume
<1>5. CASE SeekStarts
  BY <1>5 DEF SeekStarts
<1>6. CASE SeekEnds
  BY <1>6 DEF SeekEnds
<1> QED
  BY <1>1, <1>2, <1>3, <1>4, <1>5, <1>6

LEMMA DecoderIInv ==
  ASSUME IInv, NEW s \in Streams, DecoderNext(s)
  PROVE  IInv'
<1> USE ClockAssumption
           DEF IInv, TypeOK, ClockInv, FlushInv, SeekLands, Position, Move,
               clock, seekVars, decoders
<1>1. CASE Take(s)
  BY <1>1 DEF Take
<1>2. CASE Flush(s)
  BY <1>2 DEF Flush
<1>3. CASE Decode(s)
  BY <1>3 DEF Decode
<1>4. CASE SkipFrame(s)
  BY <1>4 DEF SkipFrame
<1>5. CASE FrameInTime(s)
  BY <1>5 DEF FrameInTime, MayShow
<1>6. CASE LateFrame(s)
  \* A decoder that may show a frame is not asked to flush, so no seek is on.
  <2>1. ~seeking
    BY <1>6 DEF LateFrame, MayShow
  <2>2. start_time' \in Int
    BY <1>6 DEF LateFrame, CorrectClock, sleep_time
  <2> QED
    BY <1>6, <2>1, <2>2 DEF LateFrame, MayShow
<1>7. CASE Report(s)
  BY <1>7 DEF Report
<1> QED
  BY <1>1, <1>2, <1>3, <1>4, <1>5, <1>6, <1>7 DEF DecoderNext

LEMMA StepIInv == IInv /\ [Next]_vars => IInv'
<1> SUFFICES ASSUME IInv, [Next]_vars
             PROVE  IInv'
  OBVIOUS
<1>1. CASE Next
  BY <1>1, OperationIInv, DecoderIInv DEF Next
<1>2. CASE UNCHANGED vars
  BY <1>2 DEF IInv, TypeOK, ClockInv, FlushInv, SeekLands, Position,
              vars, clock, seekVars, decoders
<1> QED
  BY <1>1, <1>2

LEMMA Invariance == Spec => []IInv
BY InitIInv, StepIInv, PTL DEF Spec

-----------------------------------------------------------------------------
(* The theorems.                                                            *)

(* Every variable of the clock keeps its type.                              *)
THEOREM TypeCorrect == Spec => []TypeOK
BY Invariance, PTL DEF IInv

(* A frame of before a seek that has not been waited for has a flush        *)
(* request against it; the clock is left alone while a seek is answered.    *)
THEOREM ClockInvHolds == Spec => []ClockInv
BY Invariance, PTL DEF IInv

(* From seek_loop's critical section to the last answer, the clock stands   *)
(* at the target when paused and is not before it otherwise.                *)
THEOREM SeeksLand == Spec => []SeekLands
BY Invariance, PTL DEF IInv, ClockInv

(* Only a frame decoded since the last seek corrects start_time.            *)
THEOREM OldFramesAreSkipped == Spec => OldFramesLeaveClock
<1>1. IInv => \A s \in Streams : LateFrame(s) => ~old[s]
  BY DEF IInv, TypeOK, ClockInv, FlushInv, LateFrame, MayShow
<1> QED
  BY <1>1, Invariance, PTL DEF OldFramesLeaveClock

(* player_pause and player_resume neither lose nor gain time, whatever      *)
(* happens between them: a decoder's other steps leave the position alone.  *)
THEOREM PositionContinuity == Spec => PositionIsContinuous
<1> DEFINE Continuous ==
      \/ Position' = Position
      \/ ~pause /\ now' # now
      \/ ~seeking /\ seeking'
      \/ \E s \in Streams :
           LateFrame(s) /\ Position' = frame[s] /\ Position' < Position - Late
      \/ Reload
<1>1. IInv /\ [Next]_vars => [Continuous]_vars
  <2> SUFFICES ASSUME IInv, Next
               PROVE  Continuous
    OBVIOUS
  <2> USE DEF IInv, TypeOK, Position, clock, seekVars, decoders
  <2>1. CASE Tick
    BY <2>1 DEF Tick
  <2>2. CASE Pause
    BY <2>2 DEF Pause
  <2>3. CASE Resume
    BY <2>3 DEF Resume
  <2>4. CASE SeekStarts
    BY <2>4 DEF SeekStarts
  <2>5. CASE SeekEnds
    BY <2>5 DEF SeekEnds
  <2>6. ASSUME NEW s \in Streams, DecoderNext(s), ~LateFrame(s)
        PROVE  Position' = Position
    BY <2>6 DEF DecoderNext, Take, Flush, Decode, SkipFrame, FrameInTime, Report
  <2>7. ASSUME NEW s \in Streams, LateFrame(s)
        PROVE  Position' = frame[s] /\ Position' < Position - Late
    <3>1. frame[s] \in Int /\ Late \in Nat
      BY ClockAssumption
    <3>2. ~pause /\ pause' = pause /\ now' = now /\ start_time' = start_time - sleep_time(s)
      BY <2>7 DEF LateFrame, MayShow, CorrectClock
    <3>3. sleep_time(s) = frame[s] - (now - start_time) /\ sleep_time(s) < -Late
      BY <2>7, <3>2 DEF LateFrame, sleep_time
    <3> QED
      BY <3>1, <3>2, <3>3
  <2> QED
    BY <2>1, <2>2, <2>3, <2>4, <2>5, <2>6, <2>7 DEF Next
<1> QED
  BY <1>1, Invariance, PTL DEF Spec, PositionIsContinuous

(* A decoder leaves player_wait_for_frame with a frame to show only when    *)
(* the clock, as it leaves it, says that the frame is due.                  *)
THEOREM FramesShownWhenDue == Spec => ShownWhenDue
<1> DEFINE Due ==
      \A s \in Streams :
        /\ place[s] = "wait" /\ place'[s] # "wait"
        /\ ~flush_streams[s]
        => /\ frame[s] - MinSleep < Position'
           /\ Position' <= frame[s] + Late
<1>1. IInv /\ [Next]_vars => [Due]_vars
  <2> SUFFICES ASSUME IInv, Next,
                      NEW s \in Streams, place[s] = "wait",
                      place'[s] # "wait", ~flush_streams[s]
               PROVE  /\ frame[s] - MinSleep < Position'
                      /\ Position' <= frame[s] + Late
    OBVIOUS
  <2> USE ClockAssumption
             DEF IInv, TypeOK, Position, clock, seekVars, decoders
  <2>1. FrameInTime(s) \/ LateFrame(s)
    <3>1. PICK r \in Streams : DecoderNext(r)
      BY DEF Next, Tick, Reload, Pause, Resume, SeekStarts, SeekEnds
    <3>2. r = s
      BY <3>1 DEF DecoderNext, Take, Flush, Decode, SkipFrame, FrameInTime,
                  LateFrame, Report, Move
    <3> QED
      BY <3>1, <3>2 DEF DecoderNext, Take, Flush, Decode, SkipFrame, Report
  <2>2. frame[s] \in Int
    OBVIOUS
  <2>3. CASE FrameInTime(s)
    BY <2>2, <2>3 DEF FrameInTime, MayShow, sleep_time
  <2>4. CASE LateFrame(s)
    \* The clock goes exactly to the frame's time.
    <3>1. Position' = frame[s]
      BY <2>2, <2>4 DEF LateFrame, MayShow, CorrectClock, sleep_time
    <3> QED
      BY <2>2, <3>1
  <2> QED
    BY <2>1, <2>3, <2>4
<1> QED
  BY <1>1, Invariance, PTL DEF Spec, ShownWhenDue
=============================================================================
