------------------------- MODULE PacketQueueProofs -------------------------
(***************************************************************************)
(* Theorems about PacketQueue for every ring size and every set of packets.*)
(***************************************************************************)
EXTENDS PacketQueue, Integers, SequenceTheorems, TLAPS

(* The successor of a slot is a slot. *)
LEMMA NextIsSlot ==
  ASSUME NEW i \in Slots
  PROVE  queue_get_next(i) \in Slots
BY PacketQueueAssumption DEF Slots, queue_get_next

(* Every variable of the queue keeps its type: in particular both indices   *)
(* stay inside the ring of queue.c.                                         *)
THEOREM QueueTypeCorrect == Spec => []TypeOK
<1>1. Init => TypeOK
  <2> SUFFICES ASSUME Init PROVE TypeOK
    OBVIOUS
  <2>1. 0 \in Slots
    BY PacketQueueAssumption DEF Slots
  <2>2. verdict \in [{"push", "pop"} -> Verdicts]
    BY DEF Init, Verdicts
  <2>3. QED
    BY <2>1, <2>2 DEF Init, TypeOK
<1>2. TypeOK /\ [Next]_vars => TypeOK'
  <2> SUFFICES ASSUME TypeOK, [Next]_vars PROVE TypeOK'
    OBVIOUS
  <2> USE PacketQueueAssumption, NextIsSlot DEF TypeOK
  <2>1. CASE PushSkip
    BY <2>1 DEF PushSkip, queue
  <2>2. CASE PushWait
    BY <2>2 DEF PushWait, FallAsleep, queue
  <2>3. CASE PushReserve
    BY <2>3 DEF PushReserve, Broadcast
  <2>4. CASE Fill
    BY <2>4 DEF Fill
  <2>5. CASE queue_push_finish
    BY <2>5 DEF queue_push_finish, Broadcast
  <2>6. CASE PopSkip
    BY <2>6 DEF PopSkip, queue
  <2>7. CASE PopWait
    BY <2>7 DEF PopWait, FallAsleep, queue
  <2>8. CASE PopTake \/ PopNonBlock
    <3>1. TakeHead
      BY <2>8 DEF PopTake, PopNonBlock
    <3>2. QED
      BY <3>1 DEF TakeHead
  <2>9. CASE queue_pop_roll_back
    BY <2>9 DEF queue_pop_roll_back, Broadcast
  <2>10. CASE queue_pop_finish
    BY <2>10 DEF queue_pop_finish, Broadcast
  <2>11. CASE ChangeVerdict
    BY <2>11 DEF ChangeVerdict, Broadcast, queue, Verdicts
  <2>12. CASE queue_free
    BY <2>12 DEF queue_free, queue
  <2>13. CASE queue_init
    <3>1. 0 \in Slots
      BY DEF Slots
    <3>2. QED BY <2>13, <3>1 DEF queue_init
  <2>14. CASE UNCHANGED vars
    BY <2>14 DEF vars, queue
  <2>15. QED
    BY <2>1, <2>2, <2>3, <2>4, <2>5, <2>6, <2>7, <2>8, <2>9, <2>10, <2>11,
       <2>12, <2>13, <2>14 DEF Next
<1>3. QED
  BY <1>1, <1>2, PTL DEF Spec

-----------------------------------------------------------------------------
(* Why the slots are kept apart: a slot being filled is not ready and a     *)
(* slot being read is; and nobody is inside a queue that was freed.         *)
SlotInv ==
  /\ producer = "filling" => ~ready[to_write]
  /\ consumer = "reading" => IsReadable
  /\ consumer = "reading" => tab[next_to_read] = held
  /\ ~allocated => producer = "idle" /\ consumer = "idle"

(* The window between the indices is never closed over the slot being read, *)
(* so the producer cannot be given that slot (push_start's full test).      *)
LEMMA SlotInvInductive == TypeOK /\ SlotInv /\ [Next]_vars => SlotInv'
<1> SUFFICES ASSUME TypeOK, SlotInv, [Next]_vars PROVE SlotInv'
  OBVIOUS
<1> USE DEF TypeOK, SlotInv
<1>1. CASE PushReserve
  <2>0. allocated /\ allocated' = allocated
    BY <1>1 DEF PushReserve, InPush
  <2>1. consumer = "reading" => next_to_read # next_to_write /\ ready[next_to_read]
    BY DEF IsReadable
  <2>2. ready'[to_write'] = FALSE
    BY <1>1 DEF PushReserve
  <2>3. consumer' = "reading" => IsReadable'
    BY <1>1, <2>1 DEF PushReserve, HasRoom, IsReadable
  <2>4. consumer' = "reading" => tab'[next_to_read'] = held'
    BY <1>1 DEF PushReserve
  <2>5. QED
    BY <2>0, <2>2, <2>3, <2>4
<1>2. CASE Fill
  BY <1>2 DEF Fill, IsReadable
<1>3. CASE queue_push_finish
  BY <1>3 DEF queue_push_finish, IsReadable
<1>4. CASE PopTake \/ PopNonBlock
  <2>1. TakeHead /\ IsReadable
    BY <1>4 DEF PopTake, PopNonBlock
  <2>2. QED
    BY <1>4, <2>1 DEF TakeHead, IsReadable, PopTake, PopNonBlock, InPop
<1>5. CASE queue_pop_roll_back \/ queue_pop_finish
  BY <1>5 DEF queue_pop_roll_back, queue_pop_finish
<1>6. CASE PushSkip \/ PushWait \/ PopSkip \/ PopWait \/ ChangeVerdict \/ queue_free
  BY <1>6 DEF PushSkip, PushWait, PopSkip, PopWait, ChangeVerdict, queue_free,
              InPush, InPop, queue, IsReadable
<1>7. CASE queue_init
  BY <1>7 DEF queue_init
<1>8. CASE UNCHANGED vars
  BY <1>8 DEF vars, queue, IsReadable
<1>9. QED
  BY <1>1, <1>2, <1>3, <1>4, <1>5, <1>6, <1>7, <1>8 DEF Next

LEMMA SlotInvHolds == Spec => []SlotInv
<1>1. Init => SlotInv
  BY DEF Init, SlotInv
<1>2. QED
  BY <1>1, QueueTypeCorrect, SlotInvInductive, PTL DEF Spec

(* The slot being filled is never the slot being read, and the packet being *)
(* decoded stays in its slot until queue_pop_finish, for every ring size.   *)
THEOREM SlotsStayExclusive == Spec => []SlotExclusive
<1>1. SlotInv => SlotExclusive
  BY DEF SlotInv, SlotExclusive, IsReadable
<1>2. QED
  BY <1>1, SlotInvHolds, PTL

-----------------------------------------------------------------------------
(* Nothing that could let a sleeping thread go on happens without a         *)
(* broadcast: the sleeper's condition is still false.                       *)
THEOREM SleepersWaitForSomething == Spec => []NoLostWakeup
<1>1. Init => NoLostWakeup
  BY DEF Init, NoLostWakeup
<1>2. TypeOK /\ SlotInv /\ NoLostWakeup /\ [Next]_vars => NoLostWakeup'
  <2> SUFFICES ASSUME TypeOK, SlotInv, NoLostWakeup, [Next]_vars PROVE NoLostWakeup'
    OBVIOUS
  <2> USE DEF NoLostWakeup, PushBlocked, PopBlocked, HasRoom, IsReadable
  <2>1. CASE PushReserve \/ queue_push_finish \/ queue_pop_roll_back
             \/ queue_pop_finish \/ ChangeVerdict
    BY <2>1 DEF PushReserve, queue_push_finish, queue_pop_roll_back,
                queue_pop_finish, ChangeVerdict, Broadcast
  <2>2. CASE PushSkip \/ PopSkip
    BY <2>2 DEF PushSkip, PopSkip, InPush, InPop, Awake, queue
  <2>3. CASE PushWait
    BY <2>3 DEF PushWait, FallAsleep, queue
  <2>4. CASE PopWait
    BY <2>4 DEF PopWait, FallAsleep, queue
  <2>5. CASE Fill
    BY <2>5 DEF Fill
  <2>6. CASE PopTake
    BY <2>6 DEF PopTake, InPop, Awake, TakeHead
  <2>7. CASE PopNonBlock
    BY <2>7 DEF PopNonBlock, TakeHead
  <2>8. CASE queue_free \/ queue_init
    <3>1. asleep = {}
      BY <2>8 DEF queue_free, queue_init, SlotInv, TypeOK
    <3>2. QED
      BY <2>8, <3>1 DEF queue_free, queue_init
  <2>9. CASE UNCHANGED vars
    BY <2>9 DEF vars, queue
  <2>10. QED
    BY <2>1, <2>2, <2>3, <2>4, <2>5, <2>6, <2>7, <2>8, <2>9 DEF Next
<1>3. QED
  BY <1>1, <1>2, QueueTypeCorrect, SlotInvHolds, PTL DEF Spec

-----------------------------------------------------------------------------
(* The window of the ring, without the modulus.                             *)

LEMMA ModOfShort ==
  ASSUME NEW n \in Nat \ {0}, NEW a \in 0 .. 2 * n - 1
  PROVE  a % n = IF a < n THEN a ELSE a - n
OBVIOUS

LEMMA NextIs ==
  ASSUME NEW i \in Slots
  PROVE  queue_get_next(i) = IF i = Size - 1 THEN 0 ELSE i + 1
<1>1. i + 1 \in 0 .. 2 * Size - 1 /\ Size \in Nat \ {0}
  BY PacketQueueAssumption DEF Slots
<1>2. (i + 1) % Size = IF i + 1 < Size THEN i + 1 ELSE i + 1 - Size
  <2> DEFINE a == i + 1
  <2> HIDE DEF a
  <2>1. a % Size = IF a < Size THEN a ELSE a - Size
    BY <1>1, ModOfShort DEF a
  <2> QED
    BY <1>1, <2>1, PacketQueueAssumption DEF a, Slots, TypeOK
<1> QED
  BY <1>2, PacketQueueAssumption DEF queue_get_next, Slots

\* Distance and position, for indices of this state or of the next one.
DistanceOf(w, r) == IF w >= r THEN w - r ELSE w + Size - r
PlaceOf(r, n)    == IF r + n < Size THEN r + n ELSE r + n - Size

LEMMA SpanIs ==
  ASSUME TypeOK
  PROVE  Span = DistanceOf(next_to_write, next_to_read)
<1>1. /\ next_to_write + Size - next_to_read \in 0 .. 2 * Size - 1
      /\ Size \in Nat \ {0}
  BY PacketQueueAssumption DEF TypeOK, Slots
<1> DEFINE d == next_to_write + Size - next_to_read
<1>2. d % Size = IF d < Size THEN d ELSE d - Size
  BY <1>1, ModOfShort
<1> QED
  BY <1>2, PacketQueueAssumption DEF Span, DistanceOf, TypeOK, Slots

LEMMA WindowSlotIs ==
  ASSUME TypeOK, NEW n \in 0 .. Size - 1
  PROVE  WindowSlot(n) = PlaceOf(next_to_read, n)
<1>1. next_to_read + n \in 0 .. 2 * Size - 1 /\ Size \in Nat \ {0}
  BY PacketQueueAssumption DEF TypeOK, Slots
<1>2. (next_to_read + n) % Size
        = IF next_to_read + n < Size THEN next_to_read + n ELSE next_to_read + n - Size
  <2> DEFINE a == next_to_read + n
  <2> HIDE DEF a
  <2>1. a % Size = IF a < Size THEN a ELSE a - Size
    <3>1. a \in 0 .. 2 * Size - 1
      BY <1>1 DEF a
    <3> QED
      BY <1>1, <3>1, ModOfShort
  <2> QED
    BY <1>1, <2>1, PacketQueueAssumption DEF a, Slots, TypeOK
<1> QED
  BY <1>2 DEF WindowSlot, PlaceOf

\* WindowReady in these terms.
WindowOf(w, r) == 0 .. DistanceOf(w, r) - 1

WindowInv ==
  /\ \A n \in WindowOf(next_to_write, next_to_read) :
       ready[PlaceOf(next_to_read, n)]
         = (producer # "filling" \/ PlaceOf(next_to_read, n) # to_write)
  /\ producer = "filling" =>
       /\ DistanceOf(next_to_write, next_to_read) > 0
       /\ to_write = PlaceOf(next_to_read, DistanceOf(next_to_write, next_to_read) - 1)
  /\ in_read = (consumer = "reading")
  /\ in_read => IsReadable
  /\ consumer # "reading" <=> held = NoPacket

LEMMA WindowInvIsWindowReady == TypeOK /\ WindowInv => WindowReady
<1> SUFFICES ASSUME TypeOK, WindowInv PROVE WindowReady
  OBVIOUS
<1>1. DistanceOf(next_to_write, next_to_read) \in 0 .. Size - 1
  BY PacketQueueAssumption DEF DistanceOf, TypeOK, Slots
<1>2. \A n \in 0 .. Span - 1 :
        n \in 0 .. Size - 1 /\ n \in WindowOf(next_to_write, next_to_read)
  BY <1>1, SpanIs, PacketQueueAssumption DEF WindowOf
<1>3. \A n \in 0 .. Span - 1 :
        ready[WindowSlot(n)] = (producer # "filling" \/ WindowSlot(n) # to_write)
  BY <1>2, WindowSlotIs DEF WindowInv
<1>4. producer = "filling" => Span > 0 /\ to_write = WindowSlot(Span - 1)
  BY <1>1, SpanIs, WindowSlotIs, PacketQueueAssumption DEF WindowInv
<1> QED
  BY <1>3, <1>4 DEF WindowReady, WindowInv

LEMMA WindowGrows ==
  ASSUME NEW w \in Slots, NEW r \in Slots, queue_get_next(w) # r
  PROVE  /\ DistanceOf(queue_get_next(w), r) = DistanceOf(w, r) + 1
         /\ PlaceOf(r, DistanceOf(w, r)) = w
         /\ DistanceOf(w, r) < Size - 1
         /\ \A n \in WindowOf(w, r) : PlaceOf(r, n) # w
BY NextIs, PacketQueueAssumption DEF DistanceOf, PlaceOf, WindowOf, Slots

LEMMA WindowShrinks ==
  ASSUME NEW w \in Slots, NEW r \in Slots, w # r
  PROVE  /\ DistanceOf(w, queue_get_next(r)) = DistanceOf(w, r) - 1
         /\ DistanceOf(w, r) \in 1 .. Size - 1
         /\ PlaceOf(r, 0) = r
         /\ \A n \in 0 .. DistanceOf(w, r) - 2 :
              PlaceOf(queue_get_next(r), n) = PlaceOf(r, n + 1)
BY NextIs, PacketQueueAssumption DEF DistanceOf, PlaceOf, Slots

LEMMA WindowInvInductive == TypeOK /\ SlotInv /\ WindowInv /\ [Next]_vars => WindowInv'
<1> SUFFICES ASSUME TypeOK, SlotInv, WindowInv, [Next]_vars PROVE WindowInv'
  OBVIOUS
<1> USE DEF TypeOK, WindowInv
<1>1. CASE PushReserve
  <2>1. /\ next_to_write' = queue_get_next(next_to_write) /\ queue_get_next(next_to_write) # next_to_read
        /\ next_to_read' = next_to_read /\ to_write' = next_to_write /\ producer # "filling"
        /\ producer' = "filling" /\ ready' = [ready EXCEPT ![next_to_write] = FALSE]
        /\ UNCHANGED <<in_read, consumer, held>>
    BY <1>1 DEF PushReserve, HasRoom, InPush
  <2>2. \A n \in WindowOf(next_to_write', next_to_read') :
          ready'[PlaceOf(next_to_read', n)]
            = (producer' # "filling" \/ PlaceOf(next_to_read', n) # to_write')
    <3> SUFFICES ASSUME NEW n \in WindowOf(next_to_write', next_to_read')
                 PROVE  ready'[PlaceOf(next_to_read', n)]
                          = (producer' # "filling" \/ PlaceOf(next_to_read', n) # to_write')
      OBVIOUS
    <3>0. /\ DistanceOf(next_to_write', next_to_read') = DistanceOf(next_to_write, next_to_read) + 1
          /\ DistanceOf(next_to_write, next_to_read) \in Nat
          /\ PlaceOf(next_to_read, DistanceOf(next_to_write, next_to_read)) = next_to_write
          /\ \A k \in WindowOf(next_to_write, next_to_read) :
               PlaceOf(next_to_read, k) # next_to_write
      <4>1. next_to_write \in Slots /\ next_to_read \in Slots
        OBVIOUS
      <4>2. DistanceOf(next_to_write, next_to_read) \in Nat
        BY PacketQueueAssumption DEF DistanceOf, Slots
      <4> QED
        BY <2>1, <4>1, <4>2, WindowGrows
    <3>1. \/ n \in WindowOf(next_to_write, next_to_read)
          \/ n = DistanceOf(next_to_write, next_to_read)
      BY <3>0 DEF WindowOf
    <3>2. CASE n \in WindowOf(next_to_write, next_to_read)
      <4>1. PlaceOf(next_to_read, n) # next_to_write /\ ready[PlaceOf(next_to_read, n)] = TRUE
        BY <2>1, <3>0, <3>2
      <4>2. PlaceOf(next_to_read, n) \in Slots
        BY <3>2, PacketQueueAssumption DEF WindowOf, DistanceOf, PlaceOf, Slots
      <4> QED
        BY <2>1, <4>1, <4>2
    <3>3. CASE n = DistanceOf(next_to_write, next_to_read)
      BY <2>1, <3>0, <3>3
    <3> QED
      BY <3>1, <3>2, <3>3
  <2>3. /\ DistanceOf(next_to_write', next_to_read') > 0
        /\ to_write' = PlaceOf(next_to_read', DistanceOf(next_to_write', next_to_read') - 1)
    BY <2>1, WindowGrows, PacketQueueAssumption DEF DistanceOf, Slots
  <2>4. in_read => IsReadable'
    BY <2>1 DEF IsReadable
  <2> QED
    BY <2>1, <2>2, <2>3, <2>4
<1>2. CASE queue_push_finish
  <2>1. /\ producer = "filling" /\ producer' = "idle"
        /\ ready' = [ready EXCEPT ![to_write] = TRUE]
        /\ UNCHANGED <<next_to_write, next_to_read, in_read, consumer, held>>
    BY <1>2 DEF queue_push_finish
  <2>2. \A n \in WindowOf(next_to_write, next_to_read) : PlaceOf(next_to_read, n) \in Slots
    BY PacketQueueAssumption DEF WindowOf, DistanceOf, PlaceOf, Slots
  <2>3. \A n \in WindowOf(next_to_write, next_to_read) : ready'[PlaceOf(next_to_read, n)] = TRUE
    BY <2>1, <2>2
  <2>4. in_read => IsReadable'
    BY <2>1 DEF IsReadable
  <2> QED
    BY <2>1, <2>3, <2>4
<1>3. CASE PopTake \/ PopNonBlock
  <2>1. IsReadable /\ consumer' = "reading" /\ held' = tab[next_to_read] /\ in_read' = TRUE
        /\ UNCHANGED <<next_to_write, next_to_read, ready, producer, to_write>>
    BY <1>3 DEF PopTake, PopNonBlock, TakeHead
  <2>2. held' # NoPacket
    BY <2>1, PacketQueueAssumption
  <2> QED
    BY <2>1, <2>2 DEF IsReadable
<1>4. CASE queue_pop_roll_back
  BY <1>4 DEF queue_pop_roll_back, IsReadable
<1>5. CASE queue_pop_finish
  <2>1. /\ IsReadable /\ in_read' = FALSE /\ consumer' = "idle" /\ held' = NoPacket
        /\ next_to_read' = queue_get_next(next_to_read) /\ next_to_read # next_to_write
        /\ UNCHANGED <<next_to_write, ready, producer, to_write>>
    BY <1>5 DEF queue_pop_finish, IsReadable
  <2> DEFINE d == DistanceOf(next_to_write, next_to_read)
  <2>2. /\ DistanceOf(next_to_write', next_to_read') = d - 1 /\ d \in 1 .. Size - 1
        /\ \A n \in 0 .. d - 2 : PlaceOf(next_to_read', n) = PlaceOf(next_to_read, n + 1)
    BY <2>1, WindowShrinks
  <2>3. \A n \in WindowOf(next_to_write', next_to_read') :
          n \in 0 .. d - 2 /\ n + 1 \in WindowOf(next_to_write, next_to_read)
    BY <2>2 DEF WindowOf
  <2>4. ASSUME producer = "filling"
        PROVE  d > 1 /\ to_write = PlaceOf(next_to_read', d - 2)
    <3>1. ~ready[to_write] /\ ready[next_to_read] /\ to_write # next_to_read
      BY <2>1, <2>4 DEF IsReadable, SlotInv
    <3>2. to_write = PlaceOf(next_to_read, d - 1) /\ PlaceOf(next_to_read, 0) = next_to_read
      BY <2>1, <2>4, WindowShrinks
    <3>3. d > 1
      BY <2>2, <3>1, <3>2
    <3>4. d - 2 \in 0 .. d - 2 /\ (d - 2) + 1 = d - 1
      BY <2>2, <3>3
    <3> QED
      BY <2>2, <3>2, <3>3, <3>4
  <2> HIDE DEF d
  <2>5. \A n \in WindowOf(next_to_write', next_to_read') :
          ready'[PlaceOf(next_to_read', n)]
            = (producer' # "filling" \/ PlaceOf(next_to_read', n) # to_write')
    BY <2>1, <2>2, <2>3
  <2>6. producer' = "filling" =>
          /\ DistanceOf(next_to_write', next_to_read') > 0
          /\ to_write' = PlaceOf(next_to_read', DistanceOf(next_to_write', next_to_read') - 1)
    <3>1. d \in Int /\ DistanceOf(next_to_write', next_to_read') - 1 = d - 2
      BY <2>2
    <3> QED
      BY <2>1, <2>2, <2>4, <3>1
  <2> QED
    BY <2>1, <2>5, <2>6
<1>6. CASE Fill \/ PushSkip \/ PushWait \/ PopSkip \/ PopWait \/ ChangeVerdict \/ queue_free
  <2>1. /\ UNCHANGED <<next_to_write, next_to_read, ready, in_read, held, to_write>>
        /\ producer' # "filling" <=> producer # "filling"
        /\ consumer' = "reading" <=> consumer = "reading"
    BY <1>6 DEF Fill, PushSkip, PushWait, PopSkip, PopWait, ChangeVerdict, queue_free,
       InPush, InPop, queue
  <2> QED
    BY <2>1 DEF IsReadable
<1>7. CASE queue_init
  <2>1. WindowOf(next_to_write', next_to_read') = {}
    BY <1>7 DEF queue_init, WindowOf, DistanceOf
  <2> QED
    BY <1>7, <2>1 DEF queue_init, SlotInv
<1>8. CASE UNCHANGED vars
  BY <1>8 DEF vars, queue, IsReadable
<1> QED
  BY <1>1, <1>2, <1>3, <1>4, <1>5, <1>6, <1>7, <1>8 DEF Next

LEMMA WindowInvHolds == Spec => []WindowInv
<1>1. Init => WindowInv
  <2> SUFFICES ASSUME Init PROVE WindowInv
    OBVIOUS
  <2>1. WindowOf(next_to_write, next_to_read) = {}
    BY DEF Init, WindowOf, DistanceOf
  <2> QED
    BY <2>1 DEF Init, WindowInv
<1> QED
  BY <1>1, QueueTypeCorrect, SlotInvHolds, WindowInvInductive, PTL DEF Spec

(* Between the indices every slot is ready, except the one being filled,    *)
(* which is the last: what malloc left in ready[] is never looked at.       *)
THEOREM WindowStaysReady == Spec => []WindowReady
BY WindowInvHolds, QueueTypeCorrect, WindowInvIsWindowReady, PTL

-----------------------------------------------------------------------------
(* The refinement.  The contents of the ring, as a sequence of k packets    *)
(* from slot r on.                                                          *)

Contents(t, r, k) == [n \in 1 .. k |-> t[PlaceOf(r, n - 1)]]

Count(w, r, p) == DistanceOf(w, r) - (IF p = "filling" THEN 1 ELSE 0)

BarFifo(t, w, r, p, h) ==
  [items |-> Contents(t, r, Count(w, r, p)), reserved |-> p = "filling", taken |-> h]

LEMMA ContentsIsSeq ==
  ASSUME NEW k \in Nat, NEW t, NEW r
  PROVE  /\ Len(Contents(t, r, k)) = k
         /\ DOMAIN Contents(t, r, k) = 1 .. k
         /\ \A n \in 1 .. k : Contents(t, r, k)[n] = t[PlaceOf(r, n - 1)]
BY DEF Contents

LEMMA CountIs ==
  ASSUME TypeOK, WindowInv
  PROVE  /\ Count(next_to_write, next_to_read, producer) \in 0 .. Size - 1
         /\ Published = Count(next_to_write, next_to_read, producer)
<1>1. DistanceOf(next_to_write, next_to_read) \in 0 .. Size - 1
  BY PacketQueueAssumption DEF DistanceOf, TypeOK, Slots
<1>2. producer = "filling" => DistanceOf(next_to_write, next_to_read) > 0
  BY DEF WindowInv
<1>3. Span = DistanceOf(next_to_write, next_to_read)
  BY SpanIs
<1> QED
  BY <1>1, <1>2, <1>3, PacketQueueAssumption DEF Count, Published

LEMMA ContentsAre ==
  ASSUME TypeOK, WindowInv
  PROVE  [n \in 1 .. Published |-> tab[WindowSlot(n - 1)]]
           = Contents(tab, next_to_read, Count(next_to_write, next_to_read, producer))
<1>1. \A n \in 1 .. Published : WindowSlot(n - 1) = PlaceOf(next_to_read, n - 1)
  BY CountIs, WindowSlotIs, PacketQueueAssumption
<1> QED
  BY <1>1, CountIs DEF Contents

\* The value that the refinement gives to fifo.
fifoBar == [items    |-> [n \in 1 .. Published |-> tab[WindowSlot(n - 1)]],
            reserved |-> producer = "filling",
            taken    |-> held]

LEMMA BarIs ==
  TypeOK /\ WindowInv => fifoBar = BarFifo(tab, next_to_write, next_to_read, producer, held)
BY ContentsAre DEF fifoBar, BarFifo

LEMMA BarIsNext ==
  (TypeOK /\ WindowInv => fifoBar = BarFifo(tab, next_to_write, next_to_read, producer, held))'
BY BarIs, PTL

LEMMA ContentsAgree ==
  ASSUME NEW t, NEW u, NEW r, NEW q, NEW k \in Nat,
         \A n \in 0 .. k - 1 : t[PlaceOf(r, n)] = u[PlaceOf(q, n)]
  PROVE  Contents(t, r, k) = Contents(u, q, k)
<1>1. \A n \in 1 .. k : n - 1 \in 0 .. k - 1
  OBVIOUS
<1> QED
  BY <1>1 DEF Contents

LEMMA ContentsAppend ==
  ASSUME NEW t, NEW r, NEW k \in Nat
  PROVE  Contents(t, r, k + 1) = Append(Contents(t, r, k), t[PlaceOf(r, k)])
<1> DEFINE s == Contents(t, r, k)  u == Contents(t, r, k + 1)  e == t[PlaceOf(r, k)]
<1>1. /\ DOMAIN s = 1 .. k /\ Len(s) = k /\ s = [n \in 1 .. k |-> t[PlaceOf(r, n - 1)]]
      /\ u = [n \in 1 .. k + 1 |-> t[PlaceOf(r, n - 1)]]
  BY ContentsIsSeq DEF Contents
<1>2. Append(s, e) = [n \in 1 .. k + 1 |-> IF n <= k THEN s[n] ELSE e]
  BY <1>1 DEF Append
<1>3. \A n \in 1 .. k + 1 :
        t[PlaceOf(r, n - 1)] = IF n <= k THEN s[n] ELSE e
  BY <1>1
<1> QED
  BY <1>1, <1>2, <1>3

LEMMA ContentsTail ==
  ASSUME NEW t, NEW r, NEW q, NEW k \in Nat \ {0},
         \A n \in 0 .. k - 2 : PlaceOf(q, n) = PlaceOf(r, n + 1)
  PROVE  /\ Contents(t, q, k - 1) = Tail(Contents(t, r, k))
         /\ Contents(t, r, k) # <<>>
         /\ Head(Contents(t, r, k)) = t[PlaceOf(r, 0)]
<1> DEFINE s == Contents(t, r, k)
<1>1. DOMAIN s = 1 .. k /\ Len(s) = k /\ \A n \in 1 .. k : s[n] = t[PlaceOf(r, n - 1)]
  BY ContentsIsSeq
<1>2. Tail(s) = [n \in 1 .. k - 1 |-> s[n + 1]]
  <2> DEFINE S == {s[n] : n \in 1 .. k}
  <2>1. s \in Seq(S) /\ s # <<>>
    <3>1. s = [n \in 1 .. k |-> s[n]]
      BY <1>1 DEF Contents
    <3>2. \A n \in 1 .. k : s[n] \in S
      OBVIOUS
    <3> HIDE DEF s, S
    <3>3. s \in [1 .. k -> S]
      BY <3>1, <3>2
    <3>4. s \in Seq(S)
      BY <3>3
    <3>5. s # <<>>
      BY <1>1
    <3> QED
      BY <3>4, <3>5
  <2>2. /\ Tail(s) \in Seq(S) /\ Len(Tail(s)) = k - 1
        /\ \A n \in 1 .. k - 1 : Tail(s)[n] = s[n + 1]
    BY <1>1, <2>1, HeadTailProperties
  <2> HIDE DEF s, S
  <2>3. Tail(s) \in [1 .. Len(Tail(s)) -> S]
    BY <2>2, LenProperties
  <2> QED
    BY <2>2, <2>3
<1>3. Contents(t, q, k - 1) = [n \in 1 .. k - 1 |-> t[PlaceOf(q, n - 1)]]
  BY DEF Contents
<1>4. \A n \in 1 .. k - 1 : t[PlaceOf(q, n - 1)] = s[n + 1]
  <2> SUFFICES ASSUME NEW n \in 1 .. k - 1 PROVE t[PlaceOf(q, n - 1)] = s[n + 1]
    OBVIOUS
  <2>1. n - 1 \in 0 .. k - 2 /\ (n - 1) + 1 = n /\ n + 1 \in 1 .. k /\ (n + 1) - 1 = n
    OBVIOUS
  <2>2. PlaceOf(q, n - 1) = PlaceOf(r, n)
    BY <2>1
  <2> QED
    BY <1>1, <2>1, <2>2
<1>5. s # <<>> /\ Head(s) = s[1] /\ s[1] = t[PlaceOf(r, 0)]
  BY <1>1
<1> QED
  BY <1>2, <1>3, <1>4, <1>5

LEMMA BarFields ==
  ASSUME NEW t, NEW w, NEW r, NEW pr, NEW h
  PROVE  /\ BarFifo(t, w, r, pr, h).items = Contents(t, r, Count(w, r, pr))
         /\ BarFifo(t, w, r, pr, h).reserved = (pr = "filling")
         /\ BarFifo(t, w, r, pr, h).taken = h
BY DEF BarFifo

\* fifoBar as the steps see it, before and after.
LEMMA Bars ==
  ASSUME TypeOK, WindowInv, TypeOK', WindowInv'
  PROVE  /\ fifoBar = BarFifo(tab, next_to_write, next_to_read, producer, held)
         /\ fifoBar' = BarFifo(tab', next_to_write', next_to_read', producer', held')
BY BarIs, BarIsNext

LEMMA PushReserveRefines ==
  ASSUME TypeOK, WindowInv, TypeOK', WindowInv', PushReserve
  PROVE  Fifo!ReserveStep
<1> DEFINE k == Count(next_to_write, next_to_read, producer)
           items == Contents(tab, next_to_read, k)
<1>1. /\ producer # "filling" /\ producer' = "filling"
      /\ next_to_write' = queue_get_next(next_to_write) /\ queue_get_next(next_to_write) # next_to_read
      /\ UNCHANGED <<next_to_read, tab, held>>
  BY DEF PushReserve, InPush, HasRoom
<1>2. /\ k = DistanceOf(next_to_write, next_to_read)
      /\ Count(next_to_write', next_to_read', producer') = k
      /\ k < Size - 1 /\ k \in Nat
  <2>1. k \in Nat
    BY CountIs
  <2>2. k = DistanceOf(next_to_write, next_to_read)
    BY <1>1, PacketQueueAssumption DEF Count, DistanceOf, TypeOK, Slots
  <2>3. DistanceOf(next_to_write', next_to_read') = k + 1 /\ k < Size - 1
    BY <1>1, <2>2, WindowGrows DEF TypeOK
  <2> QED
    BY <1>1, <2>1, <2>2, <2>3 DEF Count
<1>3. Len(items) = k
  BY <1>2, ContentsIsSeq
<1>4. fifoBar = [items |-> items, reserved |-> FALSE, taken |-> held]
  BY <1>1, Bars DEF BarFifo
<1>5. fifoBar' = [items |-> items, reserved |-> TRUE, taken |-> held]
  BY <1>1, <1>2, Bars DEF BarFifo
<1> HIDE DEF k, items
<1>6. ~fifoBar.reserved /\ fifoBar' = [fifoBar EXCEPT !.reserved = TRUE]
  <2>1. fifoBar.reserved = FALSE
    BY <1>4
  <2>2. [fifoBar EXCEPT !.reserved = TRUE] = [items |-> items, reserved |-> TRUE, taken |-> held]
    <3>1. \A b, c : fifoBar = [items |-> items, reserved |-> b, taken |-> held] =>
            [fifoBar EXCEPT !.reserved = c] = [items |-> items, reserved |-> c, taken |-> held]
      OBVIOUS
    <3> QED
      BY <1>4, <3>1, Zenon
  <2> QED
    BY <1>5, <2>1, <2>2, Zenon
<1>7. Len(fifoBar.items) + (IF fifoBar.reserved THEN 1 ELSE 0) < Size - 1
  BY <1>2, <1>3, <1>4
<1> QED
  BY <1>6, <1>7 DEF Fifo!ReserveStep, Fifo!CanReserve, Fifo!InUse, Fifo!Reserve, fifoBar

LEMMA FillStutters ==
  ASSUME TypeOK, WindowInv, TypeOK', WindowInv', Fill
  PROVE  fifoBar' = fifoBar
<1> DEFINE d == DistanceOf(next_to_write, next_to_read)
<1>1. /\ producer = "filling"
      /\ UNCHANGED <<next_to_write, next_to_read, producer, held>>
      /\ \E p \in Packets : tab' = [tab EXCEPT ![to_write] = p]
  BY DEF Fill
<1>2. d \in 1 .. Size - 1 /\ to_write = PlaceOf(next_to_read, d - 1)
  BY <1>1, PacketQueueAssumption DEF WindowInv, DistanceOf, TypeOK, Slots
<1>3. Count(next_to_write, next_to_read, producer) = d - 1 /\ d - 1 \in Nat
  BY <1>1, <1>2 DEF Count
<1>4. \A n \in 0 .. (d - 1) - 1 : PlaceOf(next_to_read, n) # to_write
  BY <1>2, PacketQueueAssumption DEF PlaceOf, TypeOK, Slots
<1>5. \A n \in 0 .. (d - 1) - 1 : tab'[PlaceOf(next_to_read, n)] = tab[PlaceOf(next_to_read, n)]
  <2>1. \A n \in 0 .. (d - 1) - 1 : PlaceOf(next_to_read, n) \in Slots
    BY <1>2, PacketQueueAssumption DEF PlaceOf, TypeOK, Slots
  <2> QED
    BY <1>1, <1>4, <2>1 DEF TypeOK
<1> HIDE DEF d
<1>6. Contents(tab', next_to_read, d - 1) = Contents(tab, next_to_read, d - 1)
  BY <1>3, <1>5, ContentsAgree
<1> QED
  BY <1>1, <1>3, <1>6, Bars DEF BarFifo

LEMMA PushFinishRefines ==
  ASSUME TypeOK, WindowInv, TypeOK', WindowInv', queue_push_finish
  PROVE  Fifo!PublishStep
<1> DEFINE d == DistanceOf(next_to_write, next_to_read)
           old == Contents(tab, next_to_read, d - 1)
<1>1. /\ producer = "filling" /\ producer' = "idle"
      /\ UNCHANGED <<next_to_write, next_to_read, tab, held>>
  BY DEF queue_push_finish
<1>2. d \in 1 .. Size - 1 /\ to_write = PlaceOf(next_to_read, d - 1)
  BY <1>1, PacketQueueAssumption DEF WindowInv, DistanceOf, TypeOK, Slots
<1>3. /\ Count(next_to_write, next_to_read, producer) = d - 1 /\ d - 1 \in Nat
      /\ Count(next_to_write', next_to_read', producer') = d /\ (d - 1) + 1 = d
  BY <1>1, <1>2 DEF Count
<1>4. Contents(tab, next_to_read, d) = Append(old, tab[to_write])
  <2> HIDE DEF d
  <2>1. Contents(tab, next_to_read, (d - 1) + 1)
          = Append(Contents(tab, next_to_read, d - 1), tab[PlaceOf(next_to_read, d - 1)])
    BY <1>3, ContentsAppend
  <2> QED
    BY <1>2, <1>3, <2>1
<1>5. fifoBar = [items |-> old, reserved |-> TRUE, taken |-> held]
  BY <1>1, <1>3, Bars DEF BarFifo
<1>6. fifoBar' = [items |-> Append(old, tab[to_write]), reserved |-> FALSE, taken |-> held]
  BY <1>1, <1>3, <1>4, Bars DEF BarFifo
<1>7. tab[to_write] \in Packets
  BY DEF TypeOK
<1> HIDE DEF d, old
<1>8. /\ fifoBar.reserved
      /\ fifoBar' = [fifoBar EXCEPT !.items = Append(fifoBar.items, tab[to_write]), !.reserved = FALSE]
  <2>1. fifoBar.reserved = TRUE /\ fifoBar.items = old
    BY <1>5
  <2> DEFINE new == Append(old, tab[to_write])
  <2> HIDE DEF new
  <2>2. [fifoBar EXCEPT !.items = new, !.reserved = FALSE]
          = [items |-> new, reserved |-> FALSE, taken |-> held]
    <3> DEFINE e == [fifoBar EXCEPT !.items = new]
    <3>1. \A b : fifoBar = [items |-> old, reserved |-> b, taken |-> held] =>
            e = [items |-> new, reserved |-> b, taken |-> held]
      OBVIOUS
    <3> HIDE DEF e
    <3>2. \A b, c : e = [items |-> new, reserved |-> b, taken |-> held] =>
            [e EXCEPT !.reserved = c] = [items |-> new, reserved |-> c, taken |-> held]
      OBVIOUS
    <3>3. [e EXCEPT !.reserved = FALSE] = [items |-> new, reserved |-> FALSE, taken |-> held]
      BY <1>5, <3>1, <3>2, Zenon
    <3> QED
      BY <3>3 DEF e
  <2>3. fifoBar' = [items |-> new, reserved |-> FALSE, taken |-> held]
    BY <1>6 DEF new
  <2>4. fifoBar' = [fifoBar EXCEPT !.items = new, !.reserved = FALSE]
    BY <2>2, <2>3, Zenon
  <2> QED
    BY <2>1, <2>4, Zenon DEF new
<1> QED
  BY <1>7, <1>8 DEF Fifo!PublishStep, Fifo!Publish, fifoBar

LEMMA TakeRefines ==
  ASSUME TypeOK, SlotInv, WindowInv, TypeOK', WindowInv', PopTake \/ PopNonBlock
  PROVE  Fifo!TakeStep
<1> DEFINE k == Count(next_to_write, next_to_read, producer)
           items == Contents(tab, next_to_read, k)
<1>1. /\ consumer # "reading" /\ IsReadable /\ held' = tab[next_to_read]
      /\ UNCHANGED <<next_to_write, next_to_read, producer, tab>>
  BY DEF PopTake, PopNonBlock, InPop, TakeHead
<1>2. held = NoPacket
  BY <1>1 DEF WindowInv
<1>3. k \in Nat \ {0}
  <2>1. /\ next_to_read # next_to_write /\ ready[next_to_read]
        /\ PlaceOf(next_to_read, 0) = next_to_read
        /\ DistanceOf(next_to_write, next_to_read) \in 1 .. Size - 1
    BY <1>1, PacketQueueAssumption DEF IsReadable, DistanceOf, PlaceOf, TypeOK, Slots
  <2>2. producer = "filling" => DistanceOf(next_to_write, next_to_read) # 1
    BY <2>1 DEF WindowInv, SlotInv
  <2> QED
    BY <2>1, <2>2 DEF Count
<1>4. /\ items # <<>>
      /\ Head(items) = tab[next_to_read]
  <2>1. \A n \in 0 .. k - 2 : PlaceOf(queue_get_next(next_to_read), n) = PlaceOf(next_to_read, n + 1)
    <3>1. next_to_read # next_to_write /\ next_to_read \in Slots /\ next_to_write \in Slots
      BY <1>1 DEF IsReadable, TypeOK
    <3>2. \A n \in 0 .. k - 2 : n \in 0 .. DistanceOf(next_to_write, next_to_read) - 2
      BY <1>3, <3>1, WindowShrinks DEF Count
    <3> QED
      BY <3>1, <3>2, WindowShrinks
  <2>2. PlaceOf(next_to_read, 0) = next_to_read
    BY PacketQueueAssumption DEF PlaceOf, TypeOK, Slots
  <2> HIDE DEF k
  <2>3. items # <<>> /\ Head(items) = tab[PlaceOf(next_to_read, 0)]
    BY <1>3, <2>1, ContentsTail
  <2> QED
    BY <2>2, <2>3
<1>5. fifoBar = [items |-> items, reserved |-> producer = "filling", taken |-> NoPacket]
  BY <1>2, Bars DEF BarFifo
<1>6. fifoBar' = [items |-> items, reserved |-> producer = "filling", taken |-> tab[next_to_read]]
  BY <1>1, Bars DEF BarFifo
<1> HIDE DEF k, items
<1>7. /\ fifoBar.taken = NoPacket /\ fifoBar.items # <<>>
      /\ fifoBar' = [fifoBar EXCEPT !.taken = Head(fifoBar.items)]
  BY <1>4, <1>5, <1>6
<1> QED
  BY <1>7 DEF Fifo!TakeStep, Fifo!CanTake, Fifo!Take, fifoBar

LEMMA ReleaseRefines ==
  ASSUME TypeOK, SlotInv, WindowInv, TypeOK', WindowInv', queue_pop_finish
  PROVE  Fifo!ReleaseStep
<1> DEFINE k == Count(next_to_write, next_to_read, producer)
           items == Contents(tab, next_to_read, k)
<1>1. /\ consumer = "reading" /\ IsReadable /\ held' = NoPacket
      /\ next_to_read' = queue_get_next(next_to_read)
      /\ UNCHANGED <<next_to_write, producer, tab>>
  BY DEF queue_pop_finish, WindowInv
<1>2. /\ held # NoPacket
      /\ next_to_read # next_to_write /\ next_to_read \in Slots /\ next_to_write \in Slots
      /\ ready[next_to_read]
  BY <1>1 DEF WindowInv, IsReadable, TypeOK
<1>3. /\ DistanceOf(next_to_write, next_to_read) \in 1 .. Size - 1
      /\ DistanceOf(next_to_write', next_to_read') = DistanceOf(next_to_write, next_to_read) - 1
      /\ PlaceOf(next_to_read, 0) = next_to_read
      /\ \A n \in 0 .. DistanceOf(next_to_write, next_to_read) - 2 :
           PlaceOf(next_to_read', n) = PlaceOf(next_to_read, n + 1)
  BY <1>1, <1>2, WindowShrinks
<1>4. /\ k \in Nat \ {0}
      /\ Count(next_to_write', next_to_read', producer') = k - 1
      /\ \A n \in 0 .. k - 2 : PlaceOf(next_to_read', n) = PlaceOf(next_to_read, n + 1)
  <2>1. producer = "filling" => DistanceOf(next_to_write, next_to_read) # 1
    BY <1>2, <1>3 DEF WindowInv, SlotInv
  <2> QED
    BY <1>1, <1>3, <2>1 DEF Count
<1>5. Contents(tab, next_to_read', k - 1) = Tail(items)
  <2> HIDE DEF k
  <2> QED
    BY <1>4, ContentsTail
<1>6. fifoBar = [items |-> items, reserved |-> producer = "filling", taken |-> held]
  BY Bars DEF BarFifo
<1>7. fifoBar' = [items |-> Tail(items), reserved |-> producer = "filling", taken |-> NoPacket]
  <2> HIDE DEF k, items
  <2> QED
    BY <1>1, <1>4, <1>5, Bars DEF BarFifo
<1> HIDE DEF k, items
<1>8. /\ fifoBar.taken # NoPacket
      /\ fifoBar' = [fifoBar EXCEPT !.items = Tail(fifoBar.items), !.taken = NoPacket]
  <2>1. fifoBar.taken = held /\ fifoBar.items = items
    BY <1>6
  <2>2. [fifoBar EXCEPT !.items = Tail(items), !.taken = NoPacket]
          = [items |-> Tail(items), reserved |-> producer = "filling", taken |-> NoPacket]
    <3> DEFINE rest == Tail(items)
               e == [fifoBar EXCEPT !.items = rest]
    <3> HIDE DEF rest
    <3>1. \A b : fifoBar = [items |-> items, reserved |-> b, taken |-> held] =>
            e = [items |-> rest, reserved |-> b, taken |-> held]
      OBVIOUS
    <3> HIDE DEF e
    <3>2. \A b : e = [items |-> rest, reserved |-> b, taken |-> held] =>
            [e EXCEPT !.taken = NoPacket]
              = [items |-> rest, reserved |-> b, taken |-> NoPacket]
      OBVIOUS
    <3>3. [e EXCEPT !.taken = NoPacket]
            = [items |-> rest, reserved |-> producer = "filling", taken |-> NoPacket]
      BY <1>6, <3>1, <3>2, Zenon
    <3> QED
      BY <3>3 DEF e, rest
  <2> QED
    BY <1>2, <1>7, <2>1, <2>2, Zenon
<1> QED
  BY <1>8 DEF Fifo!ReleaseStep, Fifo!Release, fifoBar

LEMMA PutBackRefines ==
  ASSUME TypeOK, WindowInv, TypeOK', WindowInv', queue_pop_roll_back
  PROVE  Fifo!PutBackStep
<1> DEFINE items == Contents(tab, next_to_read, Count(next_to_write, next_to_read, producer))
<1>1. /\ held # NoPacket /\ held' = NoPacket
      /\ UNCHANGED <<next_to_write, next_to_read, producer, tab>>
  BY DEF queue_pop_roll_back, WindowInv
<1>2. fifoBar = [items |-> items, reserved |-> producer = "filling", taken |-> held]
  BY Bars DEF BarFifo
<1>3. fifoBar' = [items |-> items, reserved |-> producer = "filling", taken |-> NoPacket]
  BY <1>1, Bars DEF BarFifo
<1> HIDE DEF items
<1>4. fifoBar.taken # NoPacket /\ fifoBar' = [fifoBar EXCEPT !.taken = NoPacket]
  BY <1>1, <1>2, <1>3
<1> QED
  BY <1>4 DEF Fifo!PutBackStep, Fifo!PutBack, fifoBar

LEMMA NewQueueIsEmpty ==
  ASSUME NEW t, NEW pr, pr # "filling"
  PROVE  BarFifo(t, 0, 0, pr, NoPacket) = Fifo!Empty
<1>1. Count(0, 0, pr) = 0
  <2>1. DistanceOf(0, 0) = 0
    BY DEF DistanceOf
  <2> QED
    BY <2>1 DEF Count
<1>2. Contents(t, 0, 0) = <<>>
  <2>1. Contents(t, 0, 0) = [n \in 1 .. 0 |-> t[PlaceOf(0, n - 1)]]
    BY DEF Contents
  <2> QED
    BY <2>1
<1>3. (pr = "filling") = FALSE
  OBVIOUS
<1> QED
  BY <1>1, <1>2, <1>3 DEF BarFifo, Fifo!Empty

LEMMA ResetRefines ==
  ASSUME TypeOK, SlotInv, WindowInv, TypeOK', WindowInv', queue_init
  PROVE  Fifo!ResetStep
<1>1. /\ producer = "idle" /\ consumer = "idle" /\ held = NoPacket
      /\ next_to_write' = 0 /\ next_to_read' = 0
      /\ UNCHANGED <<producer, held>>
  BY DEF queue_init, SlotInv, WindowInv
<1>2. ~fifoBar.reserved /\ fifoBar.taken = NoPacket
  <2> DEFINE bar == BarFifo(tab, next_to_write, next_to_read, producer, held)
  <2>1. bar.reserved = (producer = "filling") /\ bar.taken = held
    BY BarFields
  <2>2. fifoBar = bar
    BY Bars
  <2> HIDE DEF bar
  <2> QED
    BY <1>1, <2>1, <2>2
<1>3. fifoBar' = Fifo!Empty
  BY <1>1, Bars, NewQueueIsEmpty
<1> QED
  BY <1>2, <1>3 DEF Fifo!ResetStep, fifoBar

LEMMA StepRefines ==
  TypeOK /\ SlotInv /\ WindowInv /\ TypeOK' /\ WindowInv' /\ [Next]_vars
    => Fifo!Next \/ fifoBar' = fifoBar
<1> SUFFICES ASSUME TypeOK, SlotInv, WindowInv, TypeOK', WindowInv', [Next]_vars
             PROVE  Fifo!Next \/ fifoBar' = fifoBar
  OBVIOUS
<1>1. CASE PushReserve
  BY <1>1, PushReserveRefines DEF Fifo!Next
<1>2. CASE Fill
  BY <1>2, FillStutters
<1>3. CASE queue_push_finish
  BY <1>3, PushFinishRefines DEF Fifo!Next
<1>4. CASE PopTake \/ PopNonBlock
  BY <1>4, TakeRefines DEF Fifo!Next
<1>5. CASE queue_pop_roll_back
  BY <1>5, PutBackRefines DEF Fifo!Next
<1>6. CASE queue_pop_finish
  BY <1>6, ReleaseRefines DEF Fifo!Next
<1>7. CASE queue_init
  BY <1>7, ResetRefines DEF Fifo!Next
<1>8. CASE PushSkip \/ PushWait \/ PopSkip \/ PopWait \/ ChangeVerdict \/ queue_free \/ UNCHANGED vars
  <2>1. /\ UNCHANGED <<next_to_write, next_to_read, tab, held>>
        /\ (producer' = "filling") = (producer = "filling")
    BY <1>8 DEF PushSkip, PushWait, PopSkip, PopWait, ChangeVerdict, queue_free, vars, queue,
       InPush, InPop
  <2>2. Count(next_to_write', next_to_read', producer')
          = Count(next_to_write, next_to_read, producer)
    BY <2>1 DEF Count
  <2> QED
    BY <2>1, <2>2, Bars DEF BarFifo
<1> QED
  BY <1>1, <1>2, <1>3, <1>4, <1>5, <1>6, <1>7, <1>8 DEF Next

(* The ring of queue.c implements the bounded FIFO, for every ring size:    *)
(* what is taken out is what was put in, in that order and once, whatever   *)
(* the two threads and the owner do between their critical sections.        *)
THEOREM RingIsFifo == Spec => ImplementsFifo
<1>1. Init => Fifo!Init
  <2> SUFFICES ASSUME Init PROVE Fifo!Init
    OBVIOUS
  <2>1. TypeOK /\ WindowInv
    <3>1. 0 \in Slots
      BY PacketQueueAssumption DEF Slots
    <3>2. verdict \in [{"push", "pop"} -> Verdicts]
      BY DEF Init, Verdicts
    <3>3. TypeOK
      BY <3>1, <3>2 DEF Init, TypeOK
    <3>4. WindowOf(next_to_write, next_to_read) = {}
      BY DEF Init, WindowOf, DistanceOf
    <3> QED
      BY <3>3, <3>4 DEF Init, WindowInv
  <2>2. fifoBar = BarFifo(tab, 0, 0, "idle", NoPacket)
    BY <2>1, BarIs DEF Init
  <2>3. fifoBar = Fifo!Empty
    BY <2>2, NewQueueIsEmpty
  <2> QED
    BY <2>3 DEF Fifo!Init, fifoBar
<1>2. TypeOK /\ SlotInv /\ WindowInv /\ TypeOK' /\ WindowInv' /\ [Next]_vars
        => [Fifo!Next]_fifoBar
  BY StepRefines
<1> QED
  BY <1>1, <1>2, QueueTypeCorrect, SlotInvHolds, WindowInvHolds, PTL
  DEF Spec, ImplementsFifo, Fifo!Spec, fifoBar
=============================================================================
