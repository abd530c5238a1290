CONSTANTS
  p1 = p1
  p2 = p2
  None = None
  Packets <- MCPackets
  NoPacket <- None
  Size = 3
SPECIFICATION FairSpec
INVARIANTS SlotExclusive WindowReady NoLostWakeup
PROPERTIES ImplementsFifo KeepsFlowing
