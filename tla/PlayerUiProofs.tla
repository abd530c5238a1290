--------------------------- MODULE PlayerUiProofs ---------------------------
(***************************************************************************)
(* Proofs about PlayerUi, for any number of videos, any places of the seek *)
(* bar and any number of acts of the user and the system.                  *)
(***************************************************************************)
EXTENDS PlayerUi, TimeReports, SequenceTheorems, TLAPS

NoLoad == \A i \in DOMAIN tasks : tasks[i].kind # "load"

\* The last load that is waiting is of the video that is shown, a stop has a
\* load behind it, and where no load is waiting the player has that video.
ShownInv ==
  Alive =>
    /\ \A i \in DOMAIN tasks :
         /\ tasks[i].kind = "load"
         /\ \A j \in DOMAIN tasks : j > i => tasks[j].kind # "load"
         => tasks[i].video = currentVideoPosition
    /\ \A i \in DOMAIN tasks : tasks[i].kind = "stop" =>
         \E j \in DOMAIN tasks : j > i /\ tasks[j].kind = "load"
    /\ NoLoad => source = IF failed THEN None ELSE currentVideoPosition

\* A result that sets isPlaying.
Answers(m) == m.kind \in {"paused", "resumed"}

\* The last answer that waits says what the player does.
AnswerAgrees ==
  \E i \in DOMAIN messages :
    /\ Answers(messages[i])
    /\ messages[i].kind = "paused" <=> paused
    /\ \A j \in DOMAIN messages : j > i => ~Answers(messages[j])

\* A pause or a resume is to be called, or will be when a load is reported.
WillAnswer ==
  \/ \E i \in DOMAIN tasks : tasks[i].kind \in {"pause", "resume"}
  \/ \E i \in DOMAIN messages : messages[i].kind = "loaded" /\ messages[i].ok

\* What is on its way, or else isPlaying itself, agrees with the player.
FlagInv ==
  Alive /\ ~failed /\ NoLoad =>
    \/ WillAnswer
    \/ AnswerAgrees
    \/ /\ \A i \in DOMAIN messages : ~Answers(messages[i])
       /\ isPlaying = ~paused

\* A button that is disabled has an answer on its way.
ButtonInv ==
  Alive /\ ~button =>
    \/ \E i \in DOMAIN tasks : tasks[i].kind \in {"pause", "resume"}
    \/ \E i \in DOMAIN messages : Answers(messages[i])

\* The last seek was computed from some place of the bar.
SoughtInv ==
  \/ sought.asked = None
  \/ \E progress \in Progress :
       sought.asked = progress * 15625 /\ sought.passed = PositionOf(progress)

-----------------------------------------------------------------------------
(* Sequences.                                                              *)

\* A queue that a task has left.
LEMMA RemoveIsSeq ==
  ASSUME NEW S, NEW s \in Seq(S), NEW i \in DOMAIN s
  PROVE  RemoveAt(s, i) \in Seq(S)
BY DEF RemoveAt

\* The others move up when the first task has left.
LEMMA HeadRemoved ==
  ASSUME NEW S, NEW s \in Seq(S), 1 \in DOMAIN s
  PROVE  /\ Len(RemoveAt(s, 1)) = Len(s) - 1
         /\ \A k \in 1..(Len(s) - 1) : RemoveAt(s, 1)[k] = s[k + 1]
<1>1. PICK n \in Nat \ {0} : n = Len(s)
  OBVIOUS
<1>2. SubSeq(s, 1, 0) = <<>> /\ SubSeq(s, 2, n) \in Seq(S)
  BY <1>1
<1>3. RemoveAt(s, 1) = SubSeq(s, 2, n)
  BY <1>1, <1>2 DEF RemoveAt
<1>4. /\ Len(SubSeq(s, 2, n)) = IF 2 <= n THEN n - 2 + 1 ELSE 0
      /\ \A i \in 1..(n - 2 + 1) : SubSeq(s, 2, n)[i] = s[2 + i - 1]
  <2>1. \A i \in 2..n : s[i] \in S
    BY <1>1
  <2> QED
    BY <2>1, SubSeqProperties
<1>5. (IF 2 <= n THEN n - 2 + 1 ELSE 0) = n - 1
  OBVIOUS
<1>6. ASSUME NEW k \in 1..(n - 1) PROVE SubSeq(s, 2, n)[k] = s[k + 1]
  <2>1. k \in 1..(n - 2 + 1) /\ 2 + k - 1 = k + 1
    OBVIOUS
  <2> QED
    BY <1>4, <2>1
<1> QED
  BY <1>1, <1>3, <1>4, <1>5, <1>6

\* What the operators do to the domain and the elements of a sequence.
Longer(s, r, e) ==
  \E n \in Nat : /\ DOMAIN s = 1..n /\ DOMAIN r = 1..(n + 1)
                 /\ r[n + 1] = e /\ \A k \in 1..n : r[k] = s[k]

Shorter(s, r) ==
  \E n \in Nat : /\ DOMAIN s = 1..(n + 1) /\ DOMAIN r = 1..n
                 /\ \A k \in 1..n : r[k] = s[k + 1]

\* A task or message is added at the end.
LEMMA AppendIsLonger ==
  ASSUME NEW S, NEW s \in Seq(S), NEW e \in S
  PROVE  Longer(s, s \o <<e>>, e) /\ Longer(s, Append(s, e), e)
<1>1. PICK n \in Nat : n = Len(s)
  OBVIOUS
<1>2. /\ DOMAIN s = 1..n /\ DOMAIN (s \o <<e>>) = 1..(n + 1) /\ (s \o <<e>>)[n + 1] = e
      /\ \A k \in 1..n : (s \o <<e>>)[k] = s[k]
  BY <1>1
<1>3. /\ DOMAIN Append(s, e) = 1..(n + 1) /\ Append(s, e)[n + 1] = e
      /\ \A k \in 1..n : Append(s, e)[k] = s[k]
  BY <1>1
<1> QED
  BY <1>2, <1>3 DEF Longer

\* The first task has left.
LEMMA RemoveIsShorter ==
  ASSUME NEW S, NEW s \in Seq(S), 1 \in DOMAIN s
  PROVE  Shorter(s, RemoveAt(s, 1))
<1>1. PICK n \in Nat : Len(s) = n + 1
  <2>1. Len(s) \in Nat \ {0}
    OBVIOUS
  <2> QED
    BY <2>1
<1>2. RemoveAt(s, 1) \in Seq(S) /\ Len(RemoveAt(s, 1)) = n
  BY <1>1, RemoveIsSeq, HeadRemoved
<1>3. DOMAIN s = 1..(n + 1) /\ DOMAIN RemoveAt(s, 1) = 1..n
  BY <1>1, <1>2
<1>4. \A k \in 1..n : RemoveAt(s, 1)[k] = s[k + 1]
  BY <1>1, HeadRemoved
<1> QED
  BY <1>3, <1>4 DEF Shorter

\* The first message has left.
LEMMA TailIsShorter ==
  ASSUME NEW S, NEW s \in Seq(S), s # <<>>
  PROVE  /\ Tail(s) \in Seq(S) /\ Head(s) \in S
         /\ Shorter(s, Tail(s)) /\ 1 \in DOMAIN s /\ Head(s) = s[1]
<1>1. PICK n \in Nat : Len(s) = n + 1
  <2>1. Len(s) \in Nat \ {0}
    OBVIOUS
  <2> QED
    BY <2>1
<1>2. Tail(s) \in Seq(S) /\ Len(Tail(s)) = n /\ Head(s) \in S /\ Head(s) = s[1]
  BY <1>1
<1>3. DOMAIN s = 1..(n + 1) /\ DOMAIN Tail(s) = 1..n
  BY <1>1, <1>2
<1>4. \A k \in 1..n : Tail(s)[k] = s[k + 1]
  BY <1>1
<1> QED
  BY <1>2, <1>3, <1>4 DEF Shorter

\* A task of each kind added.
LEMMA AddedTask ==
  ASSUME TypeOK, NEW k \in {"stop", "pause", "resume", "seek"}
  PROVE  /\ tasks \o <<>> = tasks
         /\ tasks \o <<Task(k)>> \in Seq(Tasks)
         /\ Longer(tasks, tasks \o <<Task(k)>>, Task(k))
<1>1. tasks \in Seq(Tasks) /\ Task(k) \in Tasks
  BY DEF TypeOK, Task, Tasks
<1> QED
  BY <1>1, AppendIsLonger

-----------------------------------------------------------------------------
(* The tasks, the results and the player keep their types, for tasks that   *)
(* run one by one and for a pool.                                           *)
THEOREM TypeCorrect == Spec => []TypeOK
<1>1. Init => TypeOK
  <2> SUFFICES ASSUME Init PROVE TypeOK
    OBVIOUS
  <2>1. Load(currentVideoPosition) \in Tasks
    BY DEF Init, Load, Tasks
  <2>2. tasks \in Seq(Tasks) /\ messages \in Seq(Messages)
    BY <2>1 DEF Init
  <2>3. acts \in 0..MaxActs /\ source \in Videos \cup {None} /\ currentVideoPosition \in Videos
    BY UiAssumption DEF Init
  <2>4. /\ activity \in {"shown", "covered", "hidden", "destroyed"} /\ paused \in BOOLEAN
        /\ isPlaying \in BOOLEAN /\ button \in BOOLEAN /\ failed \in BOOLEAN
    BY DEF Init
  <2> QED
    BY <2>2, <2>3, <2>4, Zenon DEF TypeOK
<1>2. TypeOK /\ [Next]_vars => TypeOK'
  <2> SUFFICES ASSUME TypeOK, [Next]_vars PROVE TypeOK'
    OBVIOUS
  <2>1. tasks \in Seq(Tasks) /\ messages \in Seq(Messages)
    BY DEF TypeOK
  <2> USE UiAssumption DEF native
  <2>2. CASE PlayOtherVideo
    <3>1. PICK v \in {NextPosition, PreviousPosition} :
            currentVideoPosition' = v /\ tasks' = tasks \o <<Task("stop"), Load(v)>>
      BY <2>2 DEF PlayOtherVideo, Execute, StopThenLoad
    <3>2. v \in Videos
      BY DEF TypeOK, NextPosition, PreviousPosition, Videos
    <3>3. Task("stop") \in Tasks /\ Load(v) \in Tasks
      BY <3>2 DEF Task, Load, Tasks
    <3>4. tasks' \in Seq(Tasks)
      BY <2>1, <3>1, <3>3
    <3>5. isPlaying' \in BOOLEAN /\ button' \in BOOLEAN
      BY <2>2, Zenon DEF TypeOK, PlayOtherVideo
    <3> QED
      BY <2>2, <3>1, <3>2, <3>4, <3>5 DEF PlayOtherVideo, Act, TypeOK
  <2>3. CASE resumePause
    <3>1. tasks' \in Seq(Tasks)
      BY <2>3, AddedTask DEF resumePause, Execute
    <3>5. isPlaying' \in BOOLEAN /\ button' \in BOOLEAN
      BY <2>3, Zenon DEF TypeOK, resumePause
    <3> QED
      BY <2>3, <3>1, <3>5 DEF TypeOK, resumePause, Act
  <2>4. CASE onProgressChanged
    <3>1. tasks' \in Seq(Tasks)
      BY <2>4, AddedTask DEF onProgressChanged, Execute
    <3> QED
      BY <2>4, <3>1 DEF TypeOK, onProgressChanged, Act
  <2>5. CASE onPause
    <3>1. tasks' \in Seq(Tasks)
      BY <2>1, <2>5, AddedTask DEF onPause, Execute
    <3>5. isPlaying' \in BOOLEAN /\ button' \in BOOLEAN
      BY <2>5, Zenon DEF TypeOK, onPause
    <3> QED
      BY <2>5, <3>1, <3>5 DEF TypeOK, onPause, Act
  <2>6. CASE onStop
    BY <2>6 DEF TypeOK, onStop, Act
  <2>7. CASE onResume
    BY <2>7 DEF TypeOK, onResume, Act
  <2>8. CASE onRestart
    <3>1. tasks' \in Seq(Tasks)
      BY <2>8, AddedTask DEF onRestart, Execute
    <3> QED
      BY <2>8, <3>1 DEF TypeOK, onRestart, Act
  <2>9. CASE onDestroy
    BY <2>9 DEF TypeOK, onDestroy, Act
  <2>10. CASE RunTask
    <3>1. PICK i \in DOMAIN tasks : Call(tasks[i]) /\ tasks' = RemoveAt(tasks, i)
      BY <2>10 DEF RunTask
    <3>2. tasks' \in Seq(Tasks) /\ tasks[i] \in Tasks
      BY <2>1, <3>1, RemoveIsSeq
    <3>3. source' \in Videos \cup {None} /\ paused' \in BOOLEAN /\ failed' \in BOOLEAN
      BY <3>1, <3>2 DEF Call, TypeOK, Tasks
    <3>4. ASSUME NEW kind \in {"loaded", "paused", "resumed"}, NEW ok \in BOOLEAN, Finish(kind, ok)
          PROVE  messages' \in Seq(Messages)
      <4>1. [kind |-> kind, ok |-> ok] \in Messages
        BY DEF Messages
      <4> QED
        BY <2>1, <3>4, <4>1 DEF Finish
    <3>5. messages' \in Seq(Messages)
      BY <2>1, <3>1, <3>4 DEF Call
    <3> QED
      BY <2>10, <3>2, <3>3, <3>5 DEF TypeOK, RunTask
  <2>11. CASE Deliver
    <3>1. messages' \in Seq(Messages) /\ Head(messages) \in Messages
      BY <2>1, <2>11, TailIsShorter DEF Deliver
    <3>2. Task("resume") \in Tasks
      BY DEF Task, Tasks
    <3>3. tasks' = tasks \/ tasks' = tasks \o <<>> \/ tasks' = tasks \o <<Task("resume")>>
      BY <2>11 DEF Deliver, onFFDataSourceLoaded, onFFResumeOrPause, Execute
    <3>4. tasks' \in Seq(Tasks)
      BY <2>1, <3>2, <3>3
    <3>5. isPlaying' \in BOOLEAN /\ button' \in BOOLEAN
      BY <2>11, <3>1 DEF Deliver, onFFDataSourceLoaded, onFFResumeOrPause, Becomes, Enabled,
                         TypeOK, Messages
    <3> QED
      BY <2>11, <3>1, <3>4, <3>5 DEF Deliver, TypeOK
  <2>12. CASE UNCHANGED vars
    BY <2>12 DEF vars, TypeOK
  <2> QED
    BY <2>2, <2>3, <2>4, <2>5, <2>6, <2>7, <2>8, <2>9, <2>10, <2>11, <2>12
    DEF Next, UserActs, SystemActs
<1> QED
  BY <1>1, <1>2, PTL DEF Spec

-----------------------------------------------------------------------------
(* What plays is what is shown.                                            *)

\* Pause, resume and seek do not change which video will play.
LEMMA AddingKeepsShown ==
  ASSUME ShownInv, NEW k \in {"pause", "resume", "seek"}, Longer(tasks, tasks', Task(k)),
         UNCHANGED <<currentVideoPosition, source, failed>>, Alive' => Alive
  PROVE  ShownInv'
<1>1. PICK n \in Nat : /\ DOMAIN tasks = 1..n /\ DOMAIN tasks' = 1..(n + 1)
                       /\ tasks'[n + 1] = Task(k) /\ \A i \in 1..n : tasks'[i] = tasks[i]
  BY DEF Longer
<1>2. tasks'[n + 1].kind \notin {"load", "stop"}
  BY <1>1 DEF Task
<1> SUFFICES ASSUME Alive' PROVE ShownInv'
  BY DEF ShownInv
<1> USE DEF ShownInv, NoLoad
<1>3. ASSUME NEW i \in DOMAIN tasks', tasks'[i].kind = "load",
             \A j \in DOMAIN tasks' : j > i => tasks'[j].kind # "load"
      PROVE  tasks'[i].video = currentVideoPosition'
  BY <1>1, <1>2, <1>3
<1>4. ASSUME NEW i \in DOMAIN tasks', tasks'[i].kind = "stop"
      PROVE  \E j \in DOMAIN tasks' : j > i /\ tasks'[j].kind = "load"
  BY <1>1, <1>2, <1>4
<1>5. ASSUME NoLoad' PROVE source' = IF failed' THEN None ELSE currentVideoPosition'
  BY <1>1, <1>5
<1> QED
  BY <1>3, <1>4, <1>5

\* The native call of the first task.
LEMMA RunningKeepsShown ==
  ASSUME TypeOK, ShownInv, Serial = TRUE, RunTask
  PROVE  ShownInv'
<1>1. 1 \in DOMAIN tasks /\ Call(tasks[1]) /\ tasks' = RemoveAt(tasks, 1)
  BY DEF RunTask
<1>2. Shorter(tasks, tasks')
  BY <1>1, RemoveIsShorter DEF TypeOK
<1>3. PICK n \in Nat : /\ DOMAIN tasks = 1..(n + 1) /\ DOMAIN tasks' = 1..n
                       /\ \A i \in 1..n : tasks'[i] = tasks[i + 1]
  BY <1>2 DEF Shorter
<1> SUFFICES ASSUME Alive' PROVE ShownInv'
  BY DEF ShownInv
<1>4. Alive /\ UNCHANGED currentVideoPosition
  BY DEF RunTask, Alive
<1> USE DEF ShownInv, NoLoad
<1>5. ASSUME NEW i \in DOMAIN tasks', tasks'[i].kind = "load",
             \A j \in DOMAIN tasks' : j > i => tasks'[j].kind # "load"
      PROVE  tasks'[i].video = currentVideoPosition'
  <2>1. i + 1 \in DOMAIN tasks /\ tasks[i + 1] = tasks'[i]
    BY <1>3
  <2>2. ASSUME NEW j \in DOMAIN tasks, j > i + 1 PROVE tasks[j].kind # "load"
    <3>1. j - 1 \in DOMAIN tasks' /\ j - 1 > i /\ tasks'[j - 1] = tasks[j]
      BY <1>3, <2>2
    <3> QED
      BY <1>5, <3>1
  <2> QED
    BY <1>4, <1>5, <2>1, <2>2
<1>6. ASSUME NEW i \in DOMAIN tasks', tasks'[i].kind = "stop"
      PROVE  \E j \in DOMAIN tasks' : j > i /\ tasks'[j].kind = "load"
  <2>1. i + 1 \in DOMAIN tasks /\ tasks[i + 1] = tasks'[i]
    BY <1>3
  <2>2. PICK j \in DOMAIN tasks : j > i + 1 /\ tasks[j].kind = "load"
    BY <1>4, <1>6, <2>1
  <2>3. j - 1 \in DOMAIN tasks' /\ j - 1 > i /\ tasks'[j - 1] = tasks[j]
    BY <1>3, <2>2
  <2> QED
    BY <2>2, <2>3
<1>7. ASSUME NoLoad' PROVE source' = IF failed' THEN None ELSE currentVideoPosition'
  <2>1. \A j \in DOMAIN tasks : j > 1 => tasks[j].kind # "load"
    <3> SUFFICES ASSUME NEW j \in DOMAIN tasks, j > 1 PROVE tasks[j].kind # "load"
      OBVIOUS
    <3>1. j - 1 \in DOMAIN tasks' /\ tasks'[j - 1] = tasks[j]
      BY <1>3
    <3> QED
      BY <1>7, <3>1
  <2>2. CASE tasks[1].kind = "load"
    <3>1. tasks[1].video = currentVideoPosition
      BY <1>1, <1>4, <2>1, <2>2
    <3>2. source' = IF failed' THEN None ELSE tasks[1].video
      BY <1>1, <2>2, Zenon DEF Call
    <3> QED
      BY <1>4, <3>1, <3>2
  <2>3. CASE tasks[1].kind # "load"
    <3>1. tasks[1].kind # "stop"
      BY <1>1, <1>4, <2>1
    <3>2. source = IF failed THEN None ELSE currentVideoPosition
      BY <1>3, <1>4, <2>1, <2>3
    <3>3. UNCHANGED <<source, failed>>
      BY <1>1, <2>3, <3>1 DEF Call, native
    <3> QED
      BY <1>4, <3>2, <3>3
  <2> QED
    BY <2>2, <2>3
<1> QED
  BY <1>5, <1>6, <1>7

\* Next and previous queue a stop and a load.
LEMMA OtherVideoKeepsShown ==
  ASSUME TypeOK, ShownInv, PlayOtherVideo
  PROVE  ShownInv'
<1>1. PICK v : currentVideoPosition' = v /\ tasks' = tasks \o <<Task("stop"), Load(v)>>
  BY DEF PlayOtherVideo, Execute, StopThenLoad
<1>2. PICK n \in Nat : n = Len(tasks) /\ DOMAIN tasks = 1..n
  BY DEF TypeOK
<1>3. /\ DOMAIN tasks' = 1..(n + 2) /\ \A i \in 1..n : tasks'[i] = tasks[i]
      /\ tasks'[n + 1] = Task("stop") /\ tasks'[n + 2] = Load(v)
  <2>1. tasks \in Seq(Tasks \cup {Task("stop"), Load(v)})
    BY DEF TypeOK
  <2>2. <<Task("stop"), Load(v)>> \in Seq(Tasks \cup {Task("stop"), Load(v)})
    OBVIOUS
  <2> QED
    BY <1>1, <1>2, <2>1, <2>2
<1>4. tasks'[n + 2].kind = "load" /\ tasks'[n + 2].video = v /\ tasks'[n + 1].kind = "stop"
  BY <1>3 DEF Load, Task
<1> USE DEF ShownInv, NoLoad
<1>5. ASSUME NEW i \in DOMAIN tasks', tasks'[i].kind = "load",
             \A j \in DOMAIN tasks' : j > i => tasks'[j].kind # "load"
      PROVE  tasks'[i].video = currentVideoPosition'
  <2>1. i = n + 2
    BY <1>3, <1>4, <1>5
  <2> QED
    BY <1>1, <1>4, <2>1
<1>6. ASSUME NEW i \in DOMAIN tasks', tasks'[i].kind = "stop"
      PROVE  \E j \in DOMAIN tasks' : j > i /\ tasks'[j].kind = "load"
  <2>1. i # n + 2
    BY <1>4, <1>6
  <2>2. n + 2 > i /\ n + 2 \in DOMAIN tasks'
    BY <1>3, <2>1
  <2> QED
    BY <1>4, <2>2
<1>7. ~NoLoad'
  BY <1>3, <1>4
<1> QED
  BY <1>5, <1>6, <1>7

\* What plays and what is shown, action by action.
LEMMA StepKeepsShown ==
  ASSUME Serial = TRUE
  PROVE  TypeOK /\ ShownInv /\ [Next]_vars => ShownInv'
<1> SUFFICES ASSUME TypeOK, ShownInv, [Next]_vars PROVE ShownInv'
  OBVIOUS
<1> USE DEF native
<1>1. ASSUME UNCHANGED <<tasks, currentVideoPosition, source, failed>>, Alive' => Alive
      PROVE  ShownInv'
  BY <1>1 DEF ShownInv, NoLoad
<1>2. CASE PlayOtherVideo
  BY <1>2, OtherVideoKeepsShown
<1>3. CASE resumePause
  BY <1>3, AddedTask, AddingKeepsShown DEF resumePause, Execute, Alive
<1>4. CASE onProgressChanged
  BY <1>4, AddedTask, AddingKeepsShown DEF onProgressChanged, Execute, Alive
<1>5. CASE onPause
  <2>1. tasks' = tasks \/ tasks' = tasks \o <<Task("pause")>>
    BY <1>5, AddedTask DEF onPause, Execute
  <2> QED
    BY <1>1, <1>5, <2>1, AddedTask, AddingKeepsShown DEF onPause, Alive
<1>6. CASE onStop \/ onResume
  BY <1>1, <1>6 DEF onStop, onResume, Alive
<1>7. CASE onRestart
  BY <1>7, AddedTask, AddingKeepsShown DEF onRestart, Execute, Alive
<1>8. CASE onDestroy
  BY <1>8 DEF onDestroy, ShownInv, Alive
<1>9. CASE RunTask
  BY <1>9, RunningKeepsShown
<1>10. CASE Deliver
  <2>1. tasks' = tasks \/ tasks' = tasks \o <<Task("resume")>>
    BY <1>10, AddedTask DEF Deliver, onFFDataSourceLoaded, onFFResumeOrPause, Execute
  <2> QED
    BY <1>1, <1>10, <2>1, AddedTask, AddingKeepsShown DEF Deliver, Alive
<1>11. CASE UNCHANGED vars
  BY <1>1, <1>11 DEF vars, Alive
<1> QED
  BY <1>2, <1>3, <1>4, <1>5, <1>6, <1>7, <1>8, <1>9, <1>10, <1>11 DEF Next, UserActs, SystemActs

(* When tasks run one by one, the player has the video that the screen      *)
(* shows once everything has settled, or none if it could not be loaded.    *)
THEOREM ShownVideoPlays ==
  ASSUME Serial = TRUE
  PROVE  Spec => []PlaysWhatIsShown
<1>1. Init => ShownInv
  <2> SUFFICES ASSUME Init PROVE ShownInv
    OBVIOUS
  <2>1. /\ DOMAIN tasks = {1}
        /\ tasks[1].kind = "load" /\ tasks[1].video = currentVideoPosition
    BY DEF Init, Load
  <2> QED
    BY <2>1 DEF ShownInv, NoLoad
<1>2. ShownInv => PlaysWhatIsShown
  BY DEF ShownInv, PlaysWhatIsShown, Quiet, NoLoad
<1> QED
  BY <1>1, <1>2, TypeCorrect, StepKeepsShown, PTL DEF Spec

-----------------------------------------------------------------------------
(* Seeks.                                                                  *)

\* The product of a short seek fits into its 32 bits.
LEMMA SmallProductsFit ==
  ASSUME NEW progress \in Nat, progress * 15625 <= LongestSeek * 15625
  PROVE  PositionOf(progress) = progress * 15625
<1>1. 2^25 = 33554432 /\ 2^26 = 67108864
  OBVIOUS
<1>2. progress * 15625 \in Nat /\ progress * 15625 < 33554432
  BY DEF LongestSeek
<1>3. ASSUME NEW x \in Nat, x < 33554432
      PROVE  ((x + 33554432) % 67108864) - 33554432 = x
  BY <1>3
<1> QED
  BY <1>1, <1>2, <1>3 DEF PositionOf, Wrapped

\* Every seek was asked for by the bar.
LEMMA SeeksComeFromTheBar == Spec => []SoughtInv
<1>1. Init => SoughtInv
  BY DEF Init, SoughtInv
<1>2. SoughtInv /\ [Next]_vars => SoughtInv'
  <2> SUFFICES ASSUME SoughtInv, [Next]_vars PROVE SoughtInv'
    OBVIOUS
  <2>1. CASE onProgressChanged
    BY <2>1 DEF onProgressChanged, SoughtInv
  <2>2. CASE UNCHANGED sought
    BY <2>2 DEF SoughtInv
  <2> QED
    BY <2>1, <2>2 DEF Next, vars, UserActs, SystemActs, PlayOtherVideo, resumePause, onPause,
      onStop, onResume, onRestart, onDestroy, RunTask, Deliver
<1> QED
  BY <1>1, <1>2, PTL DEF Spec

(* The seek of any place of the bar up to 2147 seconds is exact, although   *)
(* its product wraps at 32 bits.                                            *)
THEOREM ShortSeeksAreExact == Spec => []SeekIsExact
<1>1. SoughtInv => SeekIsExact
  BY SmallProductsFit, UiAssumption DEF SoughtInv, SeekIsExact
<1> QED
  BY <1>1, SeeksComeFromTheBar, PTL

\* The product of a long seek does not.
LEMMA LargeProductsWrap ==
  ASSUME NEW progress \in Nat, progress * 15625 > LongestSeek * 15625
  PROVE  PositionOf(progress) # progress * 15625
<1>1. 2^25 = 33554432 /\ 2^26 = 67108864
  OBVIOUS
<1>2. progress * 15625 \in Nat /\ progress >= 2148 /\ progress * 15625 >= 33554432
  BY DEF LongestSeek
<1>3. ASSUME NEW x \in Nat
      PROVE  ((x + 33554432) % 67108864) - 33554432 < 33554432
  OBVIOUS
<1> QED
  BY <1>1, <1>2, <1>3 DEF PositionOf, Wrapped

(* And no seek further than that is: the bound of SeekIsExact is the best.  *)
THEOREM LongSeeksAreWrong ==
  Spec => [](sought.asked # None /\ sought.asked > LongestSeek * 15625
               => sought.passed # sought.asked)
<1>1. SoughtInv => (sought.asked # None /\ sought.asked > LongestSeek * 15625
                      => sought.passed # sought.asked)
  BY LargeProductsWrap, UiAssumption DEF SoughtInv
<1> QED
  BY <1>1, SeeksComeFromTheBar, PTL

-----------------------------------------------------------------------------
(* isPlaying is the state of the player.                                   *)

\* Pause, resume and seek change the flag by their answer only.
LEMMA AddingKeepsFlag ==
  ASSUME FlagInv, NEW k \in {"pause", "resume", "seek"}, Longer(tasks, tasks', Task(k)),
         k = "seek" => UNCHANGED isPlaying, UNCHANGED <<messages, paused, failed>>, Alive' => Alive
  PROVE  FlagInv'
<1>1. PICK n \in Nat : /\ DOMAIN tasks = 1..n /\ DOMAIN tasks' = 1..(n + 1)
                       /\ tasks'[n + 1] = Task(k) /\ \A i \in 1..n : tasks'[i] = tasks[i]
  BY DEF Longer
<1>2. CASE k # "seek"
  <2>1. WillAnswer'
    BY <1>1, <1>2 DEF WillAnswer, Task
  <2> QED
    BY <2>1 DEF FlagInv
<1>3. CASE k = "seek"
  <2>1. WillAnswer => WillAnswer'
    BY <1>1 DEF WillAnswer
  <2>2. AnswerAgrees => AnswerAgrees'
    BY DEF AnswerAgrees, Answers
  <2>3. NoLoad' => NoLoad
    BY <1>1 DEF NoLoad
  <2> QED
    BY <1>3, <2>1, <2>2, <2>3 DEF FlagInv, Answers
<1> QED
  BY <1>2, <1>3

\* The native call of the first task changes the player and adds the answer.
LEMMA RunningKeepsFlag ==
  ASSUME TypeOK, ShownInv, ShownInv', FlagInv, Serial = TRUE, RunTask
  PROVE  FlagInv'
<1> SUFFICES ASSUME Alive', ~failed', NoLoad'
             PROVE  \/ WillAnswer' \/ AnswerAgrees'
                    \/ /\ \A i \in DOMAIN messages' : ~Answers(messages'[i])
                       /\ isPlaying' = ~paused'
  BY DEF FlagInv, Answers
<1>1. 1 \in DOMAIN tasks /\ Call(tasks[1]) /\ tasks' = RemoveAt(tasks, 1)
  BY DEF RunTask
<1>2. Shorter(tasks, tasks')
  BY <1>1, RemoveIsShorter DEF TypeOK
<1>3. PICK n \in Nat : /\ DOMAIN tasks = 1..(n + 1) /\ DOMAIN tasks' = 1..n
                       /\ \A i \in 1..n : tasks'[i] = tasks[i + 1]
  BY <1>2 DEF Shorter
<1>4. Alive /\ UNCHANGED isPlaying
  BY DEF RunTask, Alive
<1>5. \A j \in DOMAIN tasks : j > 1 => j - 1 \in DOMAIN tasks' /\ tasks'[j - 1] = tasks[j]
  BY <1>3
<1>6. CASE tasks[1].kind = "load"
  <2>1. messages' = Append(messages, [kind |-> "loaded", ok |-> TRUE])
    BY <1>1, <1>4, <1>6, Zenon DEF Call, Finish, Alive
  <2>2. [kind |-> "loaded", ok |-> TRUE] \in Messages /\ messages \in Seq(Messages)
    BY DEF Messages, TypeOK
  <2>3. Longer(messages, messages', [kind |-> "loaded", ok |-> TRUE])
    BY <2>1, <2>2, AppendIsLonger
  <2>4. WillAnswer'
    BY <2>3 DEF Longer, WillAnswer
  <2> QED
    BY <2>4
<1>7. CASE tasks[1].kind = "stop"
  <2>1. PICK j \in DOMAIN tasks : j > 1 /\ tasks[j].kind = "load"
    BY <1>1, <1>4, <1>7 DEF ShownInv
  <2> QED
    BY <1>5, <2>1 DEF NoLoad
<1>8. CASE tasks[1].kind \in {"pause", "resume"}
  <2>1. NoLoad /\ UNCHANGED <<source, failed>>
    BY <1>1, <1>3, <1>5, <1>8 DEF NoLoad, Call
  <2>2. source # None
    BY <1>4, <2>1, UiAssumption DEF ShownInv, TypeOK, Videos
  <2>3. PICK m \in Messages : /\ messages' = Append(messages, m)
                             /\ \/ m.kind = "paused" /\ paused' = TRUE
                                \/ m.kind = "resumed" /\ paused' = FALSE
    <3>1. CASE tasks[1].kind = "pause"
      <4>1. paused' = TRUE /\ messages' = Append(messages, [kind |-> "paused", ok |-> TRUE])
        BY <1>1, <1>4, <2>2, <3>1, Zenon DEF Call, Finish, Alive
      <4>2. /\ [kind |-> "paused", ok |-> TRUE] \in Messages
            /\ [kind |-> "paused", ok |-> TRUE].kind = "paused"
        BY DEF Messages
      <4> QED
        BY <4>1, <4>2, Zenon
    <3>2. CASE tasks[1].kind = "resume"
      <4>1. paused' = FALSE /\ messages' = Append(messages, [kind |-> "resumed", ok |-> TRUE])
        BY <1>1, <1>4, <2>2, <3>2, Zenon DEF Call, Finish, Alive
      <4>2. /\ [kind |-> "resumed", ok |-> TRUE] \in Messages
            /\ [kind |-> "resumed", ok |-> TRUE].kind = "resumed"
        BY DEF Messages
      <4> QED
        BY <4>1, <4>2, Zenon
    <3> QED
      BY <1>8, <3>1, <3>2
  <2>4. Longer(messages, messages', m)
    BY <2>3, AppendIsLonger DEF TypeOK
  <2>5. PICK k \in Nat : DOMAIN messages' = 1..(k + 1) /\ messages'[k + 1] = m
    BY <2>4 DEF Longer
  <2>6. \A j \in DOMAIN messages' : ~(j > k + 1)
    BY <2>5
  <2>7. Answers(messages'[k + 1]) /\ (messages'[k + 1].kind = "paused" <=> paused')
    BY <2>3, <2>5 DEF Answers
  <2>8. k + 1 \in DOMAIN messages'
    BY <2>5
  <2>9. AnswerAgrees'
    BY <2>6, <2>7, <2>8, Zenon DEF AnswerAgrees, Answers
  <2> QED
    BY <2>9
<1>9. CASE tasks[1].kind = "seek"
  <2>1. NoLoad /\ UNCHANGED <<paused, failed, messages>>
    BY <1>1, <1>3, <1>5, <1>9 DEF NoLoad, Call, native
  <2>2. WillAnswer => WillAnswer'
    <3>1. ASSUME NEW i \in DOMAIN tasks, tasks[i].kind \in {"pause", "resume"}
          PROVE  i - 1 \in DOMAIN tasks' /\ tasks'[i - 1] = tasks[i]
      BY <1>3, <1>5, <1>9, <3>1
    <3> QED
      BY <2>1, <3>1 DEF WillAnswer
  <2>3. AnswerAgrees => AnswerAgrees'
    BY <2>1 DEF AnswerAgrees, Answers
  <2> QED
    BY <1>4, <2>1, <2>2, <2>3 DEF FlagInv, Answers
<1>10. tasks[1].kind \in {"load", "stop", "pause", "resume", "seek"}
  <2>1. tasks[1] \in Tasks
    BY <1>1 DEF TypeOK
  <2> QED
    BY <2>1 DEF Tasks
<1> QED
  BY <1>6, <1>7, <1>8, <1>9, <1>10

\* The answer changes the flag.
LEMMA DeliveringKeepsFlag ==
  ASSUME TypeOK, FlagInv, Deliver
  PROVE  FlagInv'
<1>1. 1 \in DOMAIN messages /\ messages' = Tail(messages) /\ Head(messages) = messages[1]
  BY TailIsShorter DEF Deliver, TypeOK
<1>2. messages[1] \in Messages /\ Shorter(messages, messages')
  BY TailIsShorter DEF Deliver, TypeOK
<1>3. PICK n \in Nat : /\ DOMAIN messages = 1..(n + 1) /\ DOMAIN messages' = 1..n
                       /\ \A i \in 1..n : messages'[i] = messages[i + 1]
  BY <1>2 DEF Shorter
<1>4. \A j \in DOMAIN messages : j > 1 => j - 1 \in DOMAIN messages' /\ messages'[j - 1] = messages[j]
  BY <1>3
<1>5. Alive' = Alive /\ UNCHANGED <<paused, failed>>
  BY DEF Deliver, native, Alive
<1>6. CASE messages[1].kind = "loaded" /\ messages[1].ok
  <2>1. tasks' = tasks \o <<Task("resume")>>
    BY <1>1, <1>6 DEF Deliver, onFFDataSourceLoaded, Execute
  <2>2. Longer(tasks, tasks', Task("resume"))
    BY <2>1, AddedTask
  <2>3. WillAnswer'
    BY <2>2 DEF Longer, WillAnswer, Task
  <2> QED
    BY <2>3 DEF FlagInv
<1>7. CASE messages[1].kind = "loaded" /\ ~messages[1].ok
  <2>1. tasks' = tasks /\ isPlaying' = isPlaying
    BY <1>1, <1>7, AddedTask DEF Deliver, onFFDataSourceLoaded, Execute, TypeOK
  <2>2. ~Answers(messages[1])
    BY <1>7 DEF Answers
  <2>3. WillAnswer => WillAnswer'
    <3>1. ASSUME NEW i \in DOMAIN messages, messages[i].kind = "loaded", messages[i].ok
          PROVE  i - 1 \in DOMAIN messages' /\ messages'[i - 1] = messages[i]
      BY <1>3, <1>4, <1>7, <3>1
    <3> QED
      BY <2>1, <3>1 DEF WillAnswer
  <2>4. AnswerAgrees => AnswerAgrees'
    <3> SUFFICES ASSUME NEW i \in DOMAIN messages, Answers(messages[i]),
                        messages[i].kind = "paused" <=> paused,
                        \A j \in DOMAIN messages : j > i => ~Answers(messages[j])
                 PROVE  AnswerAgrees'
      BY DEF AnswerAgrees
    <3>1. i - 1 \in DOMAIN messages' /\ messages'[i - 1] = messages[i]
      BY <1>3, <1>4, <2>2
    <3>2. ASSUME NEW j \in DOMAIN messages', j > i - 1 PROVE ~Answers(messages'[j])
      <4>1. j + 1 \in DOMAIN messages /\ j + 1 > i /\ messages'[j] = messages[j + 1]
        BY <1>3, <3>2
      <4> QED
        BY <4>1
    <3> QED
      BY <1>5, <3>1, <3>2, Zenon DEF AnswerAgrees, Answers
  <2>5. NoLoad' = NoLoad
    BY <2>1 DEF NoLoad
  <2>6. (\A i \in DOMAIN messages : ~Answers(messages[i]))
          => \A i \in DOMAIN messages' : ~Answers(messages'[i])
    BY <1>3
  <2> QED
    BY <1>5, <2>1, <2>3, <2>4, <2>5, <2>6, Zenon DEF FlagInv, Answers
<1>8. CASE Answers(messages[1])
  <2>1. tasks' = tasks
    BY <1>1, <1>8 DEF Deliver, onFFResumeOrPause, Answers
  <2>2. isPlaying' = (messages[1].kind = "resumed")
    BY <1>1, <1>8, Zenon DEF Deliver, onFFResumeOrPause, Answers, Becomes
  <2>3. WillAnswer => WillAnswer'
    <3>1. ASSUME NEW i \in DOMAIN messages, messages[i].kind = "loaded", messages[i].ok
          PROVE  i - 1 \in DOMAIN messages' /\ messages'[i - 1] = messages[i]
      BY <1>3, <1>4, <1>8, <3>1 DEF Answers
    <3> QED
      BY <2>1, <3>1 DEF WillAnswer
  <2>4. ASSUME AnswerAgrees
        PROVE  \/ AnswerAgrees'
               \/ /\ \A i \in DOMAIN messages' : ~Answers(messages'[i])
                  /\ isPlaying' = ~paused'
    <3>1. PICK i \in DOMAIN messages :
            /\ Answers(messages[i])
            /\ messages[i].kind = "paused" <=> paused
            /\ \A j \in DOMAIN messages : j > i => ~Answers(messages[j])
      BY <2>4 DEF AnswerAgrees
    <3>2. ASSUME NEW j \in DOMAIN messages', j > i - 1 PROVE ~Answers(messages'[j])
      <4>1. j + 1 \in DOMAIN messages /\ j + 1 > i /\ messages'[j] = messages[j + 1]
        BY <1>3, <3>2
      <4> QED
        BY <3>1, <4>1
    <3>3. CASE i > 1
      <4>1. i - 1 \in DOMAIN messages' /\ messages'[i - 1] = messages[i]
        BY <1>4, <3>3
      <4> QED
        BY <1>5, <3>1, <3>2, <4>1, Zenon DEF AnswerAgrees, Answers
    <3>4. CASE i = 1
      <4>1. \A j \in DOMAIN messages' : ~Answers(messages'[j])
        BY <1>3, <3>2, <3>4
      <4>2. isPlaying' = (messages[1].kind # "paused")
        BY <1>8, <2>2 DEF Answers
      <4>3. isPlaying' = ~paused'
        BY <1>5, <3>1, <3>4, <4>2 DEF TypeOK
      <4> QED
        BY <4>1, <4>3
    <3> QED
      BY <1>3, <3>3, <3>4
  <2>5. NoLoad' = NoLoad
    BY <2>1 DEF NoLoad
  <2> QED
    BY <1>1, <1>5, <1>8, <2>3, <2>4, <2>5, Zenon DEF FlagInv, Answers
<1> QED
  BY <1>2, <1>6, <1>7, <1>8 DEF Messages, Answers

\* The flag and the player, action by action.
LEMMA StepKeepsFlag ==
  ASSUME Serial = TRUE
  PROVE  TypeOK /\ ShownInv /\ ShownInv' /\ FlagInv /\ [Next]_vars => FlagInv'
<1> SUFFICES ASSUME TypeOK, ShownInv, ShownInv', FlagInv, [Next]_vars PROVE FlagInv'
  OBVIOUS
<1> USE DEF native
<1>1. ASSUME UNCHANGED <<tasks, messages, isPlaying, paused, failed>>, Alive' => Alive
      PROVE  FlagInv'
  BY <1>1, Zenon DEF FlagInv, NoLoad, WillAnswer, AnswerAgrees, Answers
<1>2. CASE PlayOtherVideo
  <2>1. PICK v : tasks' = tasks \o <<Task("stop"), Load(v)>>
    BY <1>2 DEF PlayOtherVideo, Execute, StopThenLoad
  <2>2. PICK n \in Nat : n = Len(tasks)
    BY DEF TypeOK
  <2>3. n + 2 \in DOMAIN tasks' /\ tasks'[n + 2] = Load(v)
    <3>1. /\ tasks \in Seq(Tasks \cup {Task("stop"), Load(v)})
          /\ <<Task("stop"), Load(v)>> \in Seq(Tasks \cup {Task("stop"), Load(v)})
      BY DEF TypeOK
    <3> QED
      BY <2>1, <2>2, <3>1
  <2> QED
    BY <2>3 DEF FlagInv, NoLoad, Load
<1>3. CASE resumePause
  BY <1>3, AddedTask, AddingKeepsFlag DEF resumePause, Execute, Alive
<1>4. CASE onProgressChanged
  BY <1>4, AddedTask, AddingKeepsFlag DEF onProgressChanged, Execute, Alive
<1>5. CASE onPause
  <2>1. \/ tasks' = tasks /\ isPlaying' = isPlaying
        \/ tasks' = tasks \o <<Task("pause")>>
    BY <1>5, AddedTask DEF onPause, Execute, TypeOK
  <2>2. UNCHANGED <<messages, paused, failed>> /\ (Alive' => Alive)
    BY <1>5 DEF onPause, Alive
  <2> QED
    BY <1>1, <2>1, <2>2, AddedTask, AddingKeepsFlag
<1>6. CASE onStop \/ onResume
  BY <1>1, <1>6 DEF onStop, onResume, Alive
<1>7. CASE onRestart
  BY <1>7, AddedTask, AddingKeepsFlag DEF onRestart, Execute, Alive
<1>8. CASE onDestroy
  BY <1>8 DEF onDestroy, FlagInv, Alive
<1>9. CASE RunTask
  BY <1>9, RunningKeepsFlag
<1>10. CASE Deliver
  BY <1>10, DeliveringKeepsFlag
<1>11. CASE UNCHANGED vars
  BY <1>1, <1>11 DEF vars, Alive
<1> QED
  BY <1>2, <1>3, <1>4, <1>5, <1>6, <1>7, <1>8, <1>9, <1>10, <1>11 DEF Next, UserActs, SystemActs

(* When tasks run one by one, isPlaying says whether the player plays once  *)
(* everything has settled and the last load did not fail.                   *)
THEOREM FlagIsRight ==
  ASSUME Serial = TRUE
  PROVE  Spec => []FlagAgrees
<1>1. Init => ShownInv /\ FlagInv
  <2> SUFFICES ASSUME Init PROVE ShownInv /\ FlagInv
    OBVIOUS
  <2>1. /\ DOMAIN tasks = {1}
        /\ tasks[1].kind = "load" /\ tasks[1].video = currentVideoPosition
    BY DEF Init, Load
  <2> QED
    BY <2>1 DEF ShownInv, NoLoad, FlagInv
<1>2. TypeOK /\ ShownInv /\ FlagInv => FlagAgrees
  <2> SUFFICES ASSUME TypeOK, ShownInv, FlagInv, Alive, Quiet, ~failed
               PROVE  isPlaying = (source # None /\ ~paused)
    BY DEF FlagAgrees
  <2>1. DOMAIN tasks = {} /\ DOMAIN messages = {}
    BY DEF Quiet
  <2>2. NoLoad /\ ~WillAnswer /\ ~AnswerAgrees
    BY <2>1 DEF NoLoad, WillAnswer, AnswerAgrees
  <2>3. isPlaying = ~paused
    BY <2>2, Zenon DEF FlagInv
  <2>4. source # None
    BY <2>2, UiAssumption DEF ShownInv, TypeOK, Videos
  <2> QED
    BY <2>3, <2>4, Zenon
<1> QED
  BY <1>1, <1>2, TypeCorrect, StepKeepsShown, StepKeepsFlag, PTL DEF Spec

-----------------------------------------------------------------------------
(* The button.                                                             *)

\* Two queues put together.
LEMMA ConcatParts ==
  ASSUME NEW S, NEW s \in Seq(S), NEW t \in Seq(S),
         NEW m \in Nat, m = Len(s), NEW p \in Nat, p = Len(t)
  PROVE  /\ DOMAIN (s \o t) = 1..(m + p)
         /\ \A k \in 1..m : (s \o t)[k] = s[k]
         /\ \A k \in 1..p : (s \o t)[m + k] = t[k]
OBVIOUS

\* A task that leaves a pool leaves the others there.
LEMMA OthersRemain ==
  ASSUME NEW S, NEW s \in Seq(S), NEW i \in DOMAIN s, NEW j \in DOMAIN s, j # i
  PROVE  \E k \in DOMAIN RemoveAt(s, i) : RemoveAt(s, i)[k] = s[j]
<1>1. PICK n \in Nat : n = Len(s) /\ DOMAIN s = 1..n
  OBVIOUS
<1>2. i \in 1..n /\ j \in 1..n
  BY <1>1
<1>3. /\ SubSeq(s, 1, i - 1) \in Seq(S) /\ Len(SubSeq(s, 1, i - 1)) = i - 1
      /\ \A k \in 1..(i - 1) : SubSeq(s, 1, i - 1)[k] = s[k]
  <2>1. i - 1 \in Int /\ \A k \in 1..(i - 1) : s[k] \in S
    BY <1>1, <1>2
  <2>2. /\ SubSeq(s, 1, i - 1) \in Seq(S)
        /\ Len(SubSeq(s, 1, i - 1)) = IF 1 <= i - 1 THEN i - 1 - 1 + 1 ELSE 0
        /\ \A k \in 1..(i - 1 - 1 + 1) : SubSeq(s, 1, i - 1)[k] = s[1 + k - 1]
    BY <2>1, SubSeqProperties
  <2>3. (IF 1 <= i - 1 THEN i - 1 - 1 + 1 ELSE 0) = i - 1 /\ i - 1 - 1 + 1 = i - 1
    BY <1>2
  <2>4. \A k \in 1..(i - 1) : 1 + k - 1 = k
    OBVIOUS
  <2> QED
    BY <2>2, <2>3, <2>4
<1>4. /\ SubSeq(s, i + 1, n) \in Seq(S) /\ Len(SubSeq(s, i + 1, n)) = n - i
      /\ \A k \in 1..(n - i) : SubSeq(s, i + 1, n)[k] = s[i + k]
  <2>1. i + 1 \in Int /\ \A k \in (i + 1)..n : s[k] \in S
    BY <1>1, <1>2
  <2>2. /\ SubSeq(s, i + 1, n) \in Seq(S)
        /\ Len(SubSeq(s, i + 1, n)) = IF i + 1 <= n THEN n - (i + 1) + 1 ELSE 0
        /\ \A k \in 1..(n - (i + 1) + 1) : SubSeq(s, i + 1, n)[k] = s[i + 1 + k - 1]
    BY <2>1, SubSeqProperties
  <2>3. (IF i + 1 <= n THEN n - (i + 1) + 1 ELSE 0) = n - i /\ n - (i + 1) + 1 = n - i
    BY <1>2
  <2>4. \A k \in 1..(n - i) : i + 1 + k - 1 = i + k
    BY <1>2
  <2> QED
    BY <2>2, <2>3, <2>4
<1>5. RemoveAt(s, i) = SubSeq(s, 1, i - 1) \o SubSeq(s, i + 1, n)
  BY <1>1 DEF RemoveAt
<1>6. PICK u \in Seq(S), w \in Seq(S) : u = SubSeq(s, 1, i - 1) /\ w = SubSeq(s, i + 1, n)
  BY <1>3, <1>4
<1>7. PICK m \in Nat, p \in Nat : m = i - 1 /\ p = n - i
  BY <1>2
<1>8. m = Len(u) /\ p = Len(w)
  BY <1>3, <1>4, <1>6, <1>7
<1>9. /\ DOMAIN (u \o w) = 1..(m + p)
      /\ \A k \in 1..m : (u \o w)[k] = u[k]
      /\ \A k \in 1..p : (u \o w)[m + k] = w[k]
  BY <1>8, ConcatParts
<1>10. /\ RemoveAt(s, i) = u \o w
       /\ \A k \in 1..m : u[k] = s[k]
       /\ \A k \in 1..p : w[k] = s[i + k]
  BY <1>3, <1>4, <1>5, <1>6, <1>7
<1>11. CASE j < i
  <2>1. j \in 1..m /\ j \in 1..(m + p)
    BY <1>2, <1>7, <1>11
  <2> QED
    BY <1>9, <1>10, <2>1
<1>12. CASE j > i
  <2>1. j - i \in 1..p /\ i + (j - i) = j /\ m + (j - i) \in 1..(m + p)
    <3>1. i \in Nat /\ j \in Nat /\ j <= n
      BY <1>2
    <3>2. j - i \in 1..p
      BY <1>7, <1>12, <3>1
    <3>3. i + (j - i) = j
      BY <3>1
    <3>4. \A q \in 1..p : m + q \in 1..(m + p)
      OBVIOUS
    <3> QED
      BY <3>2, <3>3, <3>4
  <2>2. (u \o w)[m + (j - i)] = s[j]
    BY <1>9, <1>10, <2>1
  <2> QED
    BY <1>9, <1>10, <2>1, <2>2
<1> QED
  BY <1>2, <1>11, <1>12

\* The disabled button and the answer it waits for, action by action.
LEMMA StepKeepsButton == TypeOK /\ ButtonInv /\ [Next]_vars => ButtonInv'
<1> SUFFICES ASSUME TypeOK, ButtonInv, [Next]_vars, Alive', ~button'
             PROVE  \/ \E i \in DOMAIN tasks' : tasks'[i].kind \in {"pause", "resume"}
                    \/ \E i \in DOMAIN messages' : Answers(messages'[i])
  BY DEF ButtonInv, Answers
<1> USE DEF native
<1>1. ASSUME NEW k \in {"pause", "resume", "seek"}, tasks' = tasks \o <<Task(k)>>,
             k = "seek" => UNCHANGED button, UNCHANGED messages, Alive
      PROVE  \/ \E i \in DOMAIN tasks' : tasks'[i].kind \in {"pause", "resume"}
             \/ \E i \in DOMAIN messages' : Answers(messages'[i])
  <2>1. PICK n \in Nat : /\ DOMAIN tasks = 1..n /\ DOMAIN tasks' = 1..(n + 1)
                         /\ tasks'[n + 1] = Task(k) /\ \A i \in 1..n : tasks'[i] = tasks[i]
    BY <1>1, AddedTask DEF Longer
  <2>2. CASE k # "seek"
    BY <1>1, <2>1, <2>2 DEF Task
  <2>3. CASE k = "seek"
    BY <1>1, <2>1, <2>3 DEF ButtonInv
  <2> QED
    BY <2>2, <2>3
<1>2. CASE PlayOtherVideo
  <2>1. PICK v : tasks' = tasks \o <<Task("stop"), Load(v)>>
    BY <1>2 DEF PlayOtherVideo, Execute, StopThenLoad
  <2>2. PICK n \in Nat : n = Len(tasks) /\ DOMAIN tasks = 1..n
    BY DEF TypeOK
  <2>3. DOMAIN tasks' = 1..(n + 2) /\ \A i \in 1..n : tasks'[i] = tasks[i]
    <3>1. /\ tasks \in Seq(Tasks \cup {Task("stop"), Load(v)})
          /\ <<Task("stop"), Load(v)>> \in Seq(Tasks \cup {Task("stop"), Load(v)})
      BY DEF TypeOK
    <3> QED
      BY <2>1, <2>2, <3>1
  <2>4. Alive /\ UNCHANGED <<button, messages>>
    BY <1>2 DEF PlayOtherVideo, Alive
  <2> QED
    BY <2>2, <2>3, <2>4 DEF ButtonInv, Answers
<1>3. CASE resumePause
  BY <1>1, <1>3 DEF resumePause, Execute, Alive
<1>4. CASE onProgressChanged
  BY <1>1, <1>4 DEF onProgressChanged, Execute, Alive
<1>5. CASE onPause
  <2>1. tasks' = tasks \/ tasks' = tasks \o <<Task("pause")>>
    BY <1>5, AddedTask DEF onPause, Execute
  <2>2. UNCHANGED <<messages, button>> /\ Alive
    BY <1>5 DEF onPause, Alive
  <2> QED
    BY <1>1, <2>1, <2>2 DEF ButtonInv, Answers
<1>6. CASE onRestart
  BY <1>1, <1>6 DEF onRestart, Execute, Alive
<1>7. CASE onStop \/ onResume \/ UNCHANGED vars
  BY <1>7 DEF onStop, onResume, vars, Alive, ButtonInv, Answers
<1>8. CASE onDestroy
  BY <1>8 DEF onDestroy, Alive
<1>9. CASE RunTask
  <2>1. PICK i \in DOMAIN tasks : Call(tasks[i]) /\ tasks' = RemoveAt(tasks, i)
    BY <1>9 DEF RunTask
  <2>2. Alive /\ UNCHANGED button
    BY <1>9 DEF RunTask, Alive
  <2>3. ASSUME NEW m \in Messages, messages' = Append(messages, m)
        PROVE  /\ \A j \in DOMAIN messages : Answers(messages[j]) =>
                     \E k \in DOMAIN messages' : Answers(messages'[k])
               /\ Answers(m) => \E k \in DOMAIN messages' : Answers(messages'[k])
    <3>1. Longer(messages, messages', m)
      BY <2>3, AppendIsLonger DEF TypeOK
    <3> QED
      BY <3>1 DEF Longer
  <2>4. /\ UNCHANGED messages \/ \E m \in Messages : messages' = Append(messages, m)
        /\ tasks[i].kind \in {"pause", "resume"} =>
             \E m \in Messages : messages' = Append(messages, m) /\ Answers(m)
    <3>1. ASSUME NEW k \in {"loaded", "paused", "resumed"}, NEW ok \in BOOLEAN, Finish(k, ok)
          PROVE  \E m \in Messages : messages' = Append(messages, m) /\ m.kind = k
      BY <2>2, <3>1 DEF Finish, Alive, Messages
    <3> QED
      BY <2>1, <3>1 DEF Call, Answers
  <2>5. CASE \E j \in DOMAIN messages : Answers(messages[j])
    BY <2>3, <2>4, <2>5 DEF Answers
  <2>6. CASE \E j \in DOMAIN tasks : tasks[j].kind \in {"pause", "resume"}
    <3>1. PICK j \in DOMAIN tasks : tasks[j].kind \in {"pause", "resume"}
      BY <2>6
    <3>2. CASE j = i
      BY <2>3, <2>4, <3>1, <3>2
    <3>3. CASE j # i
      <4>1. \E k \in DOMAIN tasks' : tasks'[k] = tasks[j]
        BY <2>1, <3>3, OthersRemain DEF TypeOK
      <4> QED
        BY <3>1, <4>1
    <3> QED
      BY <3>2, <3>3
  <2> QED
    BY <2>2, <2>5, <2>6 DEF ButtonInv
<1>10. CASE Deliver
  <2>1. /\ 1 \in DOMAIN messages /\ messages' = Tail(messages) /\ Head(messages) = messages[1]
        /\ Shorter(messages, messages')
    BY <1>10, TailIsShorter DEF Deliver, TypeOK
  <2>2. PICK n \in Nat : /\ DOMAIN messages = 1..(n + 1) /\ DOMAIN messages' = 1..n
                         /\ \A k \in 1..n : messages'[k] = messages[k + 1]
    BY <2>1 DEF Shorter
  <2>3. messages[1].kind = "loaded" /\ UNCHANGED button
    BY <1>10, <2>1, Zenon DEF Deliver, onFFDataSourceLoaded, onFFResumeOrPause, Enabled
  <2>4. Alive
    BY <1>10 DEF Deliver, Alive
  <2>5. ASSUME NEW j \in DOMAIN messages, Answers(messages[j])
        PROVE  \E k \in DOMAIN messages' : Answers(messages'[k])
    <3>1. j # 1
      BY <2>3, <2>5 DEF Answers
    <3>2. j - 1 \in DOMAIN messages' /\ messages'[j - 1] = messages[j]
      BY <2>2, <3>1
    <3> QED
      BY <2>5, <3>2
  <2>6. UNCHANGED tasks \/ tasks' = tasks \o <<Task("resume")>>
    BY <1>10, AddedTask DEF Deliver, onFFDataSourceLoaded, onFFResumeOrPause, Execute
  <2>7. CASE UNCHANGED tasks
    BY <2>3, <2>4, <2>5, <2>7 DEF ButtonInv
  <2>8. CASE tasks' = tasks \o <<Task("resume")>>
    <3>1. Longer(tasks, tasks', Task("resume"))
      BY <2>8, AddedTask
    <3> QED
      BY <3>1 DEF Longer, Task
  <2> QED
    BY <2>6, <2>7, <2>8
<1> QED
  BY <1>2, <1>3, <1>4, <1>5, <1>6, <1>7, <1>8, <1>9, <1>10 DEF Next, UserActs, SystemActs

(* While the button is disabled the answer that enables it is on its way,   *)
(* with tasks in a queue or in a pool: no order of acts, tasks and results  *)
(* leaves the user with a button that is disabled for good.                 *)
THEOREM ButtonIsAwaited == Spec => []ButtonInv
<1>1. Init => ButtonInv
  BY DEF Init, ButtonInv
<1> QED
  BY <1>1, TypeCorrect, StepKeepsButton, PTL
  DEF Spec
-----------------------------------------------------------------------------
(* What the screen is told of the time (TimeReports, a system of its own    *)
(* beside this one): for any positions, threshold and number of runnables.  *)
(* A report that is overtaken may tear the arguments of a runnable, but a   *)
(* later runnable then reads the fields again.                              *)

\* Somebody will still make the UI thread read the fields.
WillBeRead ==
  posted > 0 \/ \E d \in Decoders : place[d] \in {"duration", "finished", "post"}

\* Otherwise what the runnable has read so far is what the fields hold.
ReadSoFar ==
  ~WillBeRead =>
    /\ heard.time = fields.time
    /\ ui # "duration" => heard.duration = fields.duration
    /\ ui = "idle" => heard.finished = fields.finished

(* The fields, the arguments and the places keep their types.               *)
THEOREM ReportsTypeCorrect == ReportsSpec => []ReportsTypeOK
<1>1. ReportsInit => ReportsTypeOK
  <2>1. Nothing \in Reports
    BY TimesAssumption DEF Nothing, Reports
  <2> SUFFICES ASSUME ReportsInit PROVE ReportsTypeOK
    OBVIOUS
  <2>2. place \in [Decoders -> {"decode", "time", "duration", "finished", "post"}]
    BY DEF ReportsInit
  <2>3. /\ report \in [Decoders -> Reports]
        /\ fields \in Reports /\ heard \in Reports
    BY <2>1, Zenon DEF ReportsInit
  <2>4. posted \in 0..MaxPosted /\ last_updated_time \in Times \cup {-1}
    BY TimesAssumption DEF ReportsInit
  <2>5. ui \in {"idle", "duration", "finished"} /\ ended \in BOOLEAN /\ closed \in BOOLEAN
    BY DEF ReportsInit
  <2> QED
    BY <2>2, <2>3, <2>4, <2>5, Zenon DEF ReportsTypeOK
<1>2. ReportsTypeOK /\ [ReportsNext]_reportVars => ReportsTypeOK'
  <2> SUFFICES ASSUME ReportsTypeOK, [ReportsNext]_reportVars PROVE ReportsTypeOK'
    OBVIOUS
  <2> USE DEF ReportsTypeOK, decoderVars, screenVars
  <2>1. ASSUME NEW d \in Decoders, UpdateTime(d) PROVE ReportsTypeOK'
    <3>1. PICK time \in Times, is_finished \in BOOLEAN :
            /\ ended' = (ended \/ is_finished)
            /\ last_updated_time' = IF Differs(time) THEN time ELSE last_updated_time
            /\ IF is_finished \/ Differs(time)
               THEN /\ place' = [place EXCEPT ![d] = "time"]
                    /\ report' = [report EXCEPT ![d] =
                         [time |-> time, duration |-> AtLeast(time),
                          finished |-> is_finished]]
               ELSE UNCHANGED <<place, report>>
      BY <2>1 DEF UpdateTime
    <3>2. last_updated_time' \in Times \cup {-1} /\ ended' \in BOOLEAN
      BY <3>1
    <3>3. AtLeast(time) \in Times
      BY TimesAssumption DEF AtLeast
    <3>4. report' \in [Decoders -> Reports]
      BY <3>1, <3>3 DEF Reports
    <3>5. place' \in [Decoders -> {"decode", "time", "duration", "finished", "post"}]
      BY <3>1
    <3> QED
      BY <2>1, <3>2, <3>4, <3>5 DEF UpdateTime
  <2>2. ASSUME NEW d \in Decoders, WriteTime(d) PROVE ReportsTypeOK'
    BY <2>2 DEF WriteTime, Reports
  <2>3. ASSUME NEW d \in Decoders, WriteDuration(d) PROVE ReportsTypeOK'
    BY <2>3 DEF WriteDuration, Reports
  <2>4. ASSUME NEW d \in Decoders, WriteFinished(d) PROVE ReportsTypeOK'
    BY <2>4 DEF WriteFinished, Reports
  <2>5. ASSUME NEW d \in Decoders, PostReport(d) PROVE ReportsTypeOK'
    BY <2>5, TimesAssumption DEF PostReport, Post
  <2>6. CASE ReadTime
    BY <2>6, TimesAssumption DEF ReadTime, Reports
  <2>7. CASE ReadDuration
    BY <2>7 DEF ReadDuration, Reports
  <2>8. CASE ReadFinished
    BY <2>8 DEF ReadFinished, Reports
  <2>9. CASE UNCHANGED reportVars
    BY <2>9 DEF reportVars
  <2> QED
    BY <2>1, <2>2, <2>3, <2>4, <2>5, <2>6, <2>7, <2>8, <2>9
     DEF ReportsNext, Decode, UiRuns
<1> QED
  BY <1>1, <1>2, PTL DEF ReportsSpec

\* The fields and what the runnable has read, action by action.
LEMMA StepKeepsReadSoFar ==
  ReportsTypeOK /\ ReportsTypeOK' /\ ReadSoFar /\ [ReportsNext]_reportVars
    => ReadSoFar'
<1> SUFFICES ASSUME ReportsTypeOK, ReportsTypeOK', ReadSoFar, [ReportsNext]_reportVars
         PROVE  ReadSoFar'
  OBVIOUS
<1> USE DEF ReadSoFar, WillBeRead, ReportsTypeOK, decoderVars, screenVars
<1>1. ASSUME NEW d \in Decoders, UpdateTime(d) PROVE ReadSoFar'
  <2>1. \A e \in Decoders :
          place'[e] = place[e] \/ (place'[e] = "time" /\ place[e] = "decode")
    BY <1>1 DEF UpdateTime
  <2> QED
    BY <2>1, <1>1 DEF UpdateTime
<1>2. ASSUME NEW d \in Decoders, WriteTime(d) PROVE ReadSoFar'
  BY <1>2 DEF WriteTime
<1>3. ASSUME NEW d \in Decoders, WriteDuration(d) PROVE ReadSoFar'
  BY <1>3 DEF WriteDuration
<1>4. ASSUME NEW d \in Decoders, WriteFinished(d) PROVE ReadSoFar'
  BY <1>4 DEF WriteFinished
<1>5. ASSUME NEW d \in Decoders, PostReport(d) PROVE ReadSoFar'
  BY <1>5 DEF PostReport, Post
<1>6. CASE ReadTime
  BY <1>6 DEF ReadTime, Reports
<1>7. CASE ReadDuration
  BY <1>7 DEF ReadDuration, Reports
<1>8. CASE ReadFinished
  BY <1>8 DEF ReadFinished, Reports
<1>9. CASE UNCHANGED reportVars
  BY <1>9 DEF reportVars
<1> QED
  BY <1>1, <1>2, <1>3, <1>4, <1>5, <1>6, <1>7, <1>8, <1>9
     DEF ReportsNext, Decode, UiRuns

(* Once no report and no runnable is on its way the screen has been told    *)
(* what the fields hold.                                                    *)
THEOREM ScreenIsTold == ReportsSpec => []FieldsReachScreen
<1>1. ReportsInit => ReadSoFar
  BY DEF ReportsInit, ReadSoFar
<1>2. ReportsTypeOK /\ ReadSoFar => FieldsReachScreen
  BY DEF ReportsTypeOK, ReadSoFar, WillBeRead, FieldsReachScreen, Settled, Reports
<1> QED
  BY <1>1, <1>2, ReportsTypeCorrect, StepKeepsReadSoFar, PTL DEF ReportsSpec
=============================================================================
