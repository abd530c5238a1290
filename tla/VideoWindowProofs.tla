------------------------- MODULE VideoWindowProofs -------------------------
(***************************************************************************)
(* Who keeps the window, for any set of windows and any number of loads.   *)
(***************************************************************************)
EXTENDS VideoWindow, TLAPS

\* The second reference to a window is never given back, so every window that
\* was ever rendered to keeps one.
RefsInv ==
  /\ refs \in [Windows -> 0..2]
  /\ created \subseteq Windows
  /\ \A w \in Windows : w \in created <=> refs[w] > 0
  /\ window # NoWindow => window \in created /\ refs[window] = 2
  /\ surface # NoWindow => surface \in created
  /\ held # NoWindow => held \in created

\* The window is only taken away by the last call of the activity.
ShownInv ==
  /\ window = NoWindow /\ ui # "gone" => created = {}
  /\ ui = "exit" => window = NoWindow

FlagsInv == playing \in BOOLEAN /\ stop \in BOOLEAN /\ pause \in BOOLEAN

PlacesInv ==
  /\ ui \in {"ready", "stopping", "joining", "releasing", "gone", "exit"}
  /\ task \in {"idle", "queued", "joining", "opening"} /\ loads \in 0..MaxLoads
  /\ op \in {"free", "ui", "task"}
  /\ decoder \in {"none", "pop", "locked", "done"}
  /\ sound \in {"none", "runs", "done"} /\ reader \in {"none", "reads", "waits", "done"}
  /\ stop_streams \subseteq {"video", "audio"}

LockInv ==
  /\ held # NoWindow <=> decoder = "locked"
  /\ task = "opening" => decoder = "none" /\ sound = "none" /\ reader = "none"
  /\ stop_streams # {} => reader = "waits"

IInv == RefsInv /\ ShownInv /\ PlacesInv /\ FlagsInv /\ LockInv

LEMMA InitIInv == Init => IInv
<1> SUFFICES ASSUME Init
             PROVE  IInv
  OBVIOUS
<1>1. RefsInv /\ ShownInv /\ LockInv
  BY WindowAssumption DEF Init, RefsInv, ShownInv, LockInv
<1>2. PlacesInv
  BY WindowAssumption DEF Init, PlacesInv
<1>3. FlagsInv
  BY Zenon DEF Init, FlagsInv
<1> QED
  BY <1>1, <1>2, <1>3 DEF IInv

LEMMA RefsStep == IInv /\ [Next]_vars => RefsInv' /\ ShownInv'
<1> SUFFICES ASSUME IInv, [Next]_vars
             PROVE  RefsInv' /\ ShownInv'
  OBVIOUS
<1> USE WindowAssumption DEF IInv, RefsInv, ShownInv
<1>1. CASE SurfaceCreated
  BY <1>1 DEF SurfaceCreated, NewSurfaces, FromSurfaceAndAcquire, decoderVars
<1>2. CASE RenderFrameStop
  BY <1>2 DEF RenderFrameStop, ReleaseWindow, surfaceVars, windowVars, decoderVars
<1>3. CASE LockFrame \/ PostFrame
  BY <1>3 DEF LockFrame, PostFrame, Unlock, surfaceVars, windowVars
<1>4. CASE SurfaceDestroyed \/ Destroy \/ StopPlayer \/ PlayerStopped
  BY <1>4 DEF SurfaceDestroyed, KeepWindow, Destroy, StopPlayer, PlayerStopped,
              surfaceVars, windowVars, decoderVars
<1>5. CASE Ask \/ TaskContinues \/ PauseOrResume \/ DecoderEnds \/ SoundEnds \/ AskStreams \/ ReaderEnds
  <2>1. UNCHANGED <<surface, created, window, refs, ui, held>>
    BY <1>5, Zenon DEF Ask, TaskContinues, SetDataSource, SourceStopped, SourceOpened,
         PauseOrResume, DecoderEnds, SoundEnds, AskStreams, ReaderEnds,
         surfaceVars, windowVars, decoderVars
  <2> QED
    BY <2>1
<1>6. CASE UNCHANGED vars
  BY <1>6 DEF vars, surfaceVars, windowVars, decoderVars
<1> QED
  BY <1>1, <1>2, <1>3, <1>4, <1>5, <1>6 DEF Next, UIContinues

LEMMA LockStep == IInv /\ [Next]_vars => LockInv'
<1> SUFFICES ASSUME IInv, [Next]_vars
             PROVE  LockInv'
  OBVIOUS
<1> USE WindowAssumption DEF IInv, LockInv
<1>1. CASE PlayerStopped \/ SourceStopped
  BY <1>1 DEF PlayerStopped, SourceStopped, Join, Ended, taskVars
<1>2. CASE SourceOpened
  BY <1>2 DEF SourceOpened, readerVars
<1>3. CASE LockFrame \/ PostFrame
  BY <1>3 DEF LockFrame, PostFrame, Unlock, RefsInv, taskVars, readerVars
<1>4. CASE DecoderEnds \/ SoundEnds \/ AskStreams \/ ReaderEnds
  BY <1>4 DEF DecoderEnds, SoundEnds, AskStreams, ReaderEnds, Answer, PlacesInv, taskVars, decoderVars
<1>5. CASE Ask \/ SetDataSource \/ PauseOrResume
  <2>1. UNCHANGED <<decoder, held, sound, reader, stop_streams>>
    BY <1>5, Zenon DEF Ask, SetDataSource, PauseOrResume, decoderVars, readerVars
  <2>2. task' # "opening" \/ task' = task
    BY <1>5 DEF Ask, SetDataSource, PauseOrResume, taskVars
  <2> QED
    BY <2>1, <2>2
<1>6. CASE SurfaceCreated \/ SurfaceDestroyed \/ Destroy \/ StopPlayer \/ RenderFrameStop
  BY <1>6 DEF SurfaceCreated, SurfaceDestroyed, Destroy, StopPlayer, RenderFrameStop,
              taskVars, decoderVars, readerVars
<1>7. CASE UNCHANGED vars
  BY <1>7 DEF vars, taskVars, decoderVars, readerVars
<1> QED
  BY <1>1, <1>2, <1>3, <1>4, <1>5, <1>6, <1>7 DEF Next, UIContinues, TaskContinues

LEMMA PlacesStep == IInv /\ [Next]_vars => PlacesInv'
<1> SUFFICES ASSUME PlacesInv, [Next]_vars
             PROVE  PlacesInv'
  BY DEF IInv
<1> USE WindowAssumption DEF PlacesInv, taskVars, decoderVars, readerVars
<1>1. CASE SurfaceCreated \/ SurfaceDestroyed \/ Destroy
  <2>1. /\ UNCHANGED <<task, loads, op, decoder, sound, reader, stop_streams>>
        /\ ui' = ui \/ ui' = "stopping"
    BY <1>1, Zenon DEF SurfaceCreated, SurfaceDestroyed, Destroy
  <2> QED
    BY <2>1
<1>2. CASE UIContinues
  BY <1>2 DEF UIContinues, StopPlayer, PlayerStopped, Join, RenderFrameStop
<1>3. CASE Ask
  BY <1>3 DEF Ask
<1>4. CASE SetDataSource
  <2>1. op' = "task" /\ task' = "joining" /\ UNCHANGED <<ui, loads, decoder, sound, reader, stop_streams>>
    BY <1>4, Zenon DEF SetDataSource
  <2> QED
    BY <2>1
<1>5. CASE SourceStopped \/ SourceOpened
  BY <1>5 DEF SourceStopped, SourceOpened, Join
<1>6. CASE PauseOrResume
  <2>1. UNCHANGED <<ui, task, loads, op, decoder, sound, reader, stop_streams>>
    BY <1>6, Zenon DEF PauseOrResume
  <2> QED
    BY <2>1
<1>7. CASE LockFrame \/ PostFrame \/ DecoderEnds
  BY <1>7 DEF LockFrame, PostFrame, DecoderEnds, Answer
<1>8. CASE SoundEnds \/ AskStreams \/ ReaderEnds
  <2>1. UNCHANGED <<ui, task, loads, op, decoder>>
    BY <1>8, Zenon DEF SoundEnds, AskStreams, ReaderEnds
  <2>2. /\ sound' \in {sound, "done"} /\ reader' \in {reader, "waits", "done"}
        /\ stop_streams' \in {stop_streams, stop_streams \ {"audio"}, {"video", "audio"}}
    BY <1>8 DEF SoundEnds, AskStreams, ReaderEnds, Answer
  <2> QED
    BY <2>1, <2>2
<1>9. CASE UNCHANGED vars
  BY <1>9 DEF vars
<1> QED
  BY <1>1, <1>2, <1>3, <1>4, <1>5, <1>6, <1>7, <1>8, <1>9 DEF Next, TaskContinues

LEMMA FlagsStep == IInv /\ [Next]_vars => FlagsInv'
<1> SUFFICES ASSUME FlagsInv, [Next]_vars
             PROVE  FlagsInv'
  BY DEF IInv
<1> USE DEF FlagsInv, playerVars
<1>1. CASE StopPlayer \/ SetDataSource \/ SourceStopped \/ SourceOpened \/ PauseOrResume
  BY <1>1, Zenon DEF StopPlayer, SetDataSource, SourceStopped, SourceOpened, PauseOrResume
<1>2. CASE ~(StopPlayer \/ SetDataSource \/ SourceStopped \/ SourceOpened \/ PauseOrResume)
  <2>1. UNCHANGED playerVars
    BY <1>2 DEF Next, UIContinues, TaskContinues, SurfaceCreated, SurfaceDestroyed, Destroy,
                PlayerStopped, RenderFrameStop, Ask, LockFrame, PostFrame, DecoderEnds,
                SoundEnds, AskStreams, ReaderEnds, vars
  <2> QED
    BY <2>1
<1> QED
  BY <1>1, <1>2

(* The strengthening of the invariants below holds in every state.          *)
THEOREM Invariance == Spec => []IInv
<1>1. IInv /\ [Next]_vars => IInv'
  BY RefsStep, LockStep, PlacesStep, FlagsStep DEF IInv
<1> QED
  BY <1>1, InitIInv, PTL DEF Spec

(* The types, with at most two references to a window.                      *)
THEOREM TypeCorrect == Spec => []TypeOK
<1>1. IInv => TypeOK
  BY DEF IInv, RefsInv, PlacesInv, FlagsInv, TypeOK
<1> QED
  BY <1>1, Invariance, PTL

(* A window is referenced while a frame of it is locked.                    *)
THEOREM LockedStaysAlive == Spec => []LockedIsAlive
<1>1. IInv => LockedIsAlive
  BY DEF IInv, RefsInv, LockedIsAlive
<1> QED
  BY <1>1, Invariance, PTL

(* No decoder ends or decodes on with a buffer locked.                      *)
THEOREM LocksArePosted == Spec => []EveryLockIsPosted
<1>1. IInv => EveryLockIsPosted
  BY DEF IInv, LockInv, EveryLockIsPosted
<1> QED
  BY <1>1, Invariance, PTL

(* Only an activity that never had a surface exits in onDestroy.            *)
THEOREM ExitOnlyUnshown == Spec => []ExitMeansNeverShown
<1>1. IInv => ExitMeansNeverShown
  BY DEF IInv, ShownInv, ExitMeansNeverShown
<1> QED
  BY <1>1, Invariance, PTL
(* A decoder that ended before it was asked to stop is waited for by the     *)
(* reader, and so by the onDestroy or the load that joins it, for ever.      *)
THEOREM NobodyLeaves == Spec => LostForEver
<1>1. ASSUME IInv, [Next]_vars
      PROVE  [/\ NeverAnswers \subseteq NeverAnswers'
              /\ NeverAnswers # {} => ~PlayerStopped /\ ~SourceStopped]_vars
  <2> USE <1>1 DEF IInv, LockInv, NeverAnswers
  <2>1. CASE PlayerStopped \/ SourceStopped
    <3>1. NeverAnswers = {}
      BY <2>1 DEF PlayerStopped, SourceStopped, Join, Ended
    <3> QED
      BY <3>1, Zenon
  <2>2. CASE SourceOpened
    <3>1. NeverAnswers = {}
      BY <2>2 DEF SourceOpened
    <3> QED
      BY <3>1, <2>2 DEF SourceOpened, PlayerStopped, SourceStopped
  <2>3. CASE ~(PlayerStopped \/ SourceStopped) /\ NeverAnswers \subseteq NeverAnswers'
    BY <2>3, Zenon
  <2>4. CASE DecoderEnds \/ SoundEnds \/ AskStreams \/ ReaderEnds
    <3>1. NeverAnswers \subseteq NeverAnswers'
      BY <2>4 DEF DecoderEnds, SoundEnds, AskStreams, ReaderEnds, Answer, decoderVars
    <3> QED
      BY <3>1, <2>3, <2>1, Zenon
  <2>5. CASE LockFrame \/ PostFrame
    <3>1. NeverAnswers \subseteq NeverAnswers'
      BY <2>5 DEF LockFrame, PostFrame, readerVars
    <3> QED
      BY <3>1, <2>3, <2>1, Zenon
  <2>6. CASE UNCHANGED <<decoder, sound, reader, stop_streams>>
    <3>1. NeverAnswers \subseteq NeverAnswers'
      BY <2>6
    <3> QED
      BY <3>1, <2>3, <2>1, Zenon
  <2>7. CASE \/ SurfaceCreated \/ SurfaceDestroyed \/ Destroy \/ StopPlayer \/ RenderFrameStop
             \/ Ask \/ SetDataSource \/ PauseOrResume \/ UNCHANGED vars
    <3>1. UNCHANGED <<decoder, sound, reader, stop_streams>>
      BY <2>7, Zenon DEF SurfaceCreated, SurfaceDestroyed, Destroy, StopPlayer, RenderFrameStop,
           Ask, SetDataSource, PauseOrResume, vars, decoderVars, readerVars
    <3> QED
      BY <3>1, <2>6
  <2> QED
    BY <2>1, <2>2, <2>4, <2>5, <2>7, Zenon DEF Next, UIContinues, TaskContinues
<1> QED
  BY <1>1, Invariance, PTL DEF Spec, LostForEver
=============================================================================
