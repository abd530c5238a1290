-------------------------------- MODULE Fifo --------------------------------
(***************************************************************************)
(* The value of a bounded first-in first-out buffer between one producer   *)
(* and one consumer.  A place is reserved before it is filled and the head *)
(* is taken before it is released, because both the copy into a slot and   *)
(* the decoding out of it happen while the mutex is not held.              *)
(***************************************************************************)
EXTENDS Naturals, Sequences

CONSTANTS
  NoPacket,  \* nobody holds the head
  Capacity   \* how many slots can be in use at once

Empty == [items |-> <<>>, reserved |-> FALSE, taken |-> NoPacket]

\* Places in use: published packets, plus the one being filled.  The packet
\* being read keeps its place until it is released.
InUse(f) == Len(f.items) + (IF f.reserved THEN 1 ELSE 0)

CanReserve(f) == InUse(f) < Capacity

Reserve(f)    == [f EXCEPT !.reserved = TRUE]

Publish(f, p) == [f EXCEPT !.items = Append(@, p), !.reserved = FALSE]

CanTake(f)    == f.items # <<>>

Take(f)       == [f EXCEPT !.taken = Head(f.items)]

PutBack(f)    == [f EXCEPT !.taken = NoPacket]

Release(f)    == [f EXCEPT !.items = Tail(@), !.taken = NoPacket]

\* A Drain that stops after the first packet (not used).
DrainOne(f)   == IF f.items = <<>> THEN f ELSE Release(f)

\* Takes and releases everything published; a place still being filled stays.
Drain(f)      == [f EXCEPT !.items = <<>>, !.taken = NoPacket]
=============================================================================
