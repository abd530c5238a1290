--------------------------- MODULE MCPacketQueue ---------------------------
(* A ring of three slots, so that it fills, empties and wraps around.       *)
EXTENDS PacketQueue

CONSTANTS p1, p2, None

MCPackets == {p1, p2}
=============================================================================
