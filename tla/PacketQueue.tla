---------------------------- MODULE PacketQueue ----------------------------
(***************************************************************************)
(* The ring buffer of jni/queue.c between the thread that reads packets    *)
(* from the file and the thread that decodes them.                         *)
(*                                                                         *)
(* Every queue function runs with the player's queue mutex held, so one    *)
(* iteration of the loop in queue_push_start / queue_pop_start is one      *)
(* atomic step that either succeeds or falls asleep in pthread_cond_wait.  *)
(* A broadcast empties the set of sleepers; a sleeper has to be woken      *)
(* before it looks at the queue again, which is what makes a forgotten     *)
(* broadcast visible.  Filling a slot, and reading one, happens between    *)
(* two of these steps, without the mutex.                                  *)
(*                                                                         *)
(* Some definitions are preceded by a variant with an easily made mistake  *)
(* (HasRoomUnlessRead, ...); no action uses them.                          *)
(***************************************************************************)
EXTENDS Naturals, Sequences

CONSTANTS
  Packets,   \* what the producer copies into a slot
  NoPacket,  \* the consumer holds nothing
  Size       \* slots of the ring (50 in player_alloc_queues)

ASSUME PacketQueueAssumption ==
  /\ Size \in Nat /\ Size > 1
  /\ NoPacket \notin Packets

Slots == 0 .. Size - 1

Verdicts == {"SKIP", "WAIT", "TEST"}   \* QueueCheckFuncRet

VARIABLES
  next_to_write, next_to_read, ready, in_read, tab,  \* struct _Queue
  producer,   \* "idle", "pushing" (in the push loop), "filling"
  to_write,   \* the slot queue_push_start gave to the producer
  filled,     \* whether the producer has written the slot yet
  consumer,   \* "idle", "popping" (in the pop loop), "reading"
  held,       \* the packet the consumer found in its slot
  asleep,     \* the threads inside pthread_cond_wait
  verdict,    \* what the check function of each thread would return now
  allocated

queue == <<next_to_write, next_to_read, ready, in_read, tab>>
vars  == <<queue, producer, to_write, filled, consumer, held, asleep,
           verdict, allocated>>

queue_get_next(value) == (value + 1) % Size

\* ready comes from malloc: any value.  The slots' packets are allocated but
\* nothing has been read into them, so any packet stands for their contents.
Init ==
  /\ next_to_write = 0 /\ next_to_read = 0 /\ in_read = FALSE
  /\ ready \in [Slots -> BOOLEAN]
  /\ tab \in [Slots -> Packets]
  /\ producer = "idle" /\ to_write = 0 /\ filled = FALSE
  /\ consumer = "idle" /\ held = NoPacket
  /\ asleep = {} /\ verdict = [t \in {"push", "pop"} |-> "TEST"]
  /\ allocated = TRUE

Awake(t)     == t \notin asleep
Broadcast    == asleep' = {}
FallAsleep(t) == asleep' = asleep \cup {t}

HasRoomUnlessRead == queue_get_next(next_to_write) # next_to_read \/ ~in_read
HasRoom   == queue_get_next(next_to_write) # next_to_read
IsReadableUnfilled == next_to_read # next_to_write
IsReadable == next_to_read # next_to_write /\ ready[next_to_read]

-----------------------------------------------------------------------------
(* The producer.                                                           *)

\* One iteration of the loop of queue_push_start_already_locked.
InPush == allocated /\ producer \in {"idle", "pushing"} /\ Awake("push")

PushBlocked == verdict["push"] = "WAIT" \/ (verdict["push"] = "TEST" /\ ~HasRoom)

PushSkip ==
  /\ InPush /\ producer = "pushing" /\ verdict["push"] = "SKIP"
  /\ producer' = "idle"
  /\ UNCHANGED <<queue, to_write, filled, consumer, held, asleep, verdict, allocated>>

PushWait ==
  /\ InPush /\ PushBlocked
  /\ producer' = "pushing" /\ FallAsleep("push")
  /\ UNCHANGED <<queue, to_write, filled, consumer, held, verdict, allocated>>

PushReserveStillReady ==
  /\ InPush /\ verdict["push"] = "TEST" /\ HasRoom
  /\ to_write' = next_to_write
  /\ next_to_write' = queue_get_next(next_to_write)
  /\ producer' = "filling" /\ filled' = FALSE
  /\ Broadcast
  /\ UNCHANGED <<next_to_read, ready, in_read, tab, consumer, held, verdict, allocated>>

PushReserve ==
  /\ InPush /\ verdict["push"] = "TEST" /\ HasRoom
  /\ to_write' = next_to_write
  /\ ready' = [ready EXCEPT ![next_to_write] = FALSE]
  /\ next_to_write' = queue_get_next(next_to_write)
  /\ producer' = "filling" /\ filled' = FALSE
  /\ Broadcast
  /\ UNCHANGED <<next_to_read, in_read, tab, consumer, held, verdict, allocated>>

\* The caller copies a packet into the slot, without the mutex.
Fill ==
  /\ producer = "filling" /\ ~filled
  /\ \E p \in Packets : tab' = [tab EXCEPT ![to_write] = p]
  /\ filled' = TRUE
  /\ UNCHANGED <<next_to_write, next_to_read, ready, in_read, producer,
                 to_write, consumer, held, asleep, verdict, allocated>>

PushFinishSilently ==
  /\ producer = "filling" /\ filled
  /\ ready' = [ready EXCEPT ![to_write] = TRUE]
  /\ producer' = "idle" /\ filled' = FALSE
  /\ UNCHANGED <<next_to_write, next_to_read, in_read, tab, to_write,
                 consumer, held, asleep, verdict, allocated>>

queue_push_finish ==
  /\ producer = "filling" /\ filled
  /\ ready' = [ready EXCEPT ![to_write] = TRUE]
  /\ producer' = "idle" /\ filled' = FALSE
  /\ Broadcast
  /\ UNCHANGED <<next_to_write, next_to_read, in_read, tab, to_write,
                 consumer, held, verdict, allocated>>

-----------------------------------------------------------------------------
(* The consumer.                                                           *)

InPop == allocated /\ consumer \in {"idle", "popping"} /\ Awake("pop")

PopBlocked == verdict["pop"] = "WAIT" \/ (verdict["pop"] = "TEST" /\ ~IsReadable)

PopSkip ==
  /\ InPop /\ consumer = "popping" /\ verdict["pop"] = "SKIP"
  /\ consumer' = "idle"
  /\ UNCHANGED <<queue, producer, to_write, filled, held, asleep, verdict, allocated>>

PopWait ==
  /\ InPop /\ PopBlocked
  /\ consumer' = "popping" /\ FallAsleep("pop")
  /\ UNCHANGED <<queue, producer, to_write, filled, held, verdict, allocated>>

TakeHead ==
  /\ in_read' = TRUE
  /\ consumer' = "reading" /\ held' = tab[next_to_read]
  /\ UNCHANGED <<next_to_write, next_to_read, ready, tab, producer, to_write,
                 filled, asleep, verdict, allocated>>

PopTake == InPop /\ verdict["pop"] = "TEST" /\ IsReadable /\ TakeHead

\* queue_pop_start_already_locked_non_block: no check function and no wait.
PopNonBlock == allocated /\ consumer = "idle" /\ IsReadable /\ TakeHead

queue_pop_roll_back ==
  /\ consumer = "reading"
  /\ in_read' = FALSE
  /\ consumer' = "idle" /\ held' = NoPacket
  /\ Broadcast
  /\ UNCHANGED <<next_to_write, next_to_read, ready, tab, producer, to_write,
                 filled, verdict, allocated>>

PopFinishSilently ==
  /\ consumer = "reading"
  /\ in_read' = FALSE
  /\ next_to_read' = queue_get_next(next_to_read)
  /\ consumer' = "idle" /\ held' = NoPacket
  /\ UNCHANGED <<next_to_write, ready, tab, producer, to_write, filled,
                 asleep, verdict, allocated>>

queue_pop_finish ==
  /\ consumer = "reading"
  /\ in_read' = FALSE
  /\ next_to_read' = queue_get_next(next_to_read)
  /\ consumer' = "idle" /\ held' = NoPacket
  /\ Broadcast
  /\ UNCHANGED <<next_to_write, ready, tab, producer, to_write, filled,
                 verdict, allocated>>

-----------------------------------------------------------------------------
(* The owner.                                                              *)

\* Whoever changes what a check function reads broadcasts before it unlocks.
ChangeVerdict ==
  /\ allocated
  /\ \E t \in {"push", "pop"}, v \in Verdicts :
       v # verdict[t] /\ verdict' = [verdict EXCEPT ![t] = v]
  /\ Broadcast
  /\ UNCHANGED <<queue, producer, to_write, filled, consumer, held, allocated>>

\* queue_free waits for the slot in use; the player has joined both threads.
queue_free ==
  /\ allocated /\ ~in_read
  /\ producer = "idle" /\ consumer = "idle"
  /\ allocated' = FALSE
  /\ UNCHANGED <<queue, producer, to_write, filled, consumer, held, asleep, verdict>>

queue_init ==
  /\ ~allocated
  /\ next_to_write' = 0 /\ next_to_read' = 0 /\ in_read' = FALSE
  /\ ready' \in [Slots -> BOOLEAN]
  /\ tab' \in [Slots -> Packets]
  /\ allocated' = TRUE
  /\ UNCHANGED <<producer, to_write, filled, consumer, held, asleep, verdict>>

Next ==
  \/ PushSkip \/ PushWait \/ PushReserve \/ Fill \/ queue_push_finish
  \/ PopSkip \/ PopWait \/ PopTake \/ PopNonBlock
  \/ queue_pop_roll_back \/ queue_pop_finish
  \/ ChangeVerdict \/ queue_free \/ queue_init

Spec == Init /\ [][Next]_vars

\* Each thread keeps running and the consumer does not roll back for ever.
Fairness ==
  /\ WF_vars(PushReserve \/ PushWait) /\ WF_vars(Fill) /\ WF_vars(queue_push_finish)
  /\ WF_vars(PopTake \/ PopWait) /\ SF_vars(queue_pop_finish)

FairSpec == Spec /\ Fairness

-----------------------------------------------------------------------------
(* Properties.                                                             *)

TypeOK ==
  /\ next_to_write \in Slots /\ next_to_read \in Slots
  /\ ready \in [Slots -> BOOLEAN] /\ in_read \in BOOLEAN
  /\ tab \in [Slots -> Packets]
  /\ producer \in {"idle", "pushing", "filling"} /\ to_write \in Slots
  /\ filled \in BOOLEAN
  /\ consumer \in {"idle", "popping", "reading"}
  /\ held \in Packets \cup {NoPacket}
  /\ asleep \subseteq {"push", "pop"}
  /\ verdict \in [{"push", "pop"} -> Verdicts]
  /\ allocated \in BOOLEAN

\* How many slots lie between the read and the write index.
Span == (next_to_write + Size - next_to_read) % Size

\* Slot n of the window that starts at the head; WindowSlot(0) is the head.
WindowSlot(n) == (next_to_read + n) % Size

(* Both threads work in their slots without the mutex, so the slot being    *)
(* filled must never be the one being read, and what the reader found in    *)
(* its slot when queue_pop_start returned must stay there until it is done. *)
SlotExclusive ==
  /\ producer = "filling" /\ consumer = "reading" => to_write # next_to_read
  /\ consumer = "reading" => tab[next_to_read] = held

(* Every slot of the window is ready except the one being filled, which is  *)
(* the last; an empty window is never being read.  This is what makes the   *)
(* uninitialised ready[] of queue_init harmless.                            *)
WindowReady ==
  /\ \A n \in 0 .. Span - 1 :
       ready[WindowSlot(n)] = (producer # "filling" \/ WindowSlot(n) # to_write)
  /\ producer = "filling" => Span > 0 /\ to_write = WindowSlot(Span - 1)
  /\ in_read = (consumer = "reading")
  /\ in_read => IsReadable

(* A thread asleep in pthread_cond_wait has a reason to be: no change that  *)
(* would let it go on was made without a broadcast.                         *)
NoLostWakeup ==
  /\ "push" \in asleep => producer = "pushing" /\ PushBlocked
  /\ "pop" \in asleep => consumer = "popping" /\ PopBlocked

-----------------------------------------------------------------------------
(* The ring implements a bounded FIFO: the packets between the indices, in  *)
(* order, without the slot still being filled.  One slot of the ring always *)
(* stays free, so its capacity is Size - 1.                                 *)
Published == Span - (IF producer = "filling" THEN 1 ELSE 0)

Fifo == INSTANCE BoundedFifo WITH
  Capacity <- Size - 1,
  fifo <- [items    |-> [n \in 1 .. Published |-> tab[WindowSlot(n - 1)]],
           reserved |-> producer = "filling",
           taken    |-> held]

(* The queue delivers what was pushed, in the order it was pushed, once.    *)
ImplementsFifo == Fifo!Spec

(* As long as neither thread is told to give up, packets keep flowing: no   *)
(* full queue and no empty one blocks both for ever.                        *)
KeepsFlowing ==
  <>[](allocated /\ verdict = [t \in {"push", "pop"} |-> "TEST"])
    => []<><<queue_pop_finish>>_vars
=============================================================================
