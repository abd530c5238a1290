---------------------------- MODULE BoundedFifo ----------------------------
(***************************************************************************)
(* What a packet queue promises to the one thread that fills it and to the *)
(* one thread that empties it.  PacketQueue shows that the ring of queue.c *)
(* implements this module, and PlayerPipeline uses the same FIFO values    *)
(* for the packet queues of the player.                                    *)
(***************************************************************************)
EXTENDS Fifo

CONSTANT Packets   \* what a slot can hold

VARIABLE fifo

Init == fifo = Empty

ReserveStep == ~fifo.reserved /\ CanReserve(fifo) /\ fifo' = Reserve(fifo)

PublishStep == fifo.reserved /\ \E p \in Packets : fifo' = Publish(fifo, p)

TakeStep    == fifo.taken = NoPacket /\ CanTake(fifo) /\ fifo' = Take(fifo)

PutBackStep == fifo.taken # NoPacket /\ fifo' = PutBack(fifo)

ReleaseStep == fifo.taken # NoPacket /\ fifo' = Release(fifo)

\* The owner frees the queue once nobody uses it; a new one starts empty.
ResetStep   == ~fifo.reserved /\ fifo.taken = NoPacket /\ fifo' = Empty

Next ==
  \/ ReserveStep \/ PublishStep
  \/ TakeStep \/ PutBackStep \/ ReleaseStep
  \/ ResetStep

Spec == Init /\ [][Next]_fifo
=============================================================================
