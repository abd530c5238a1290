CONSTANTS
  v = v
  a = a
  c1 = c1
  c2 = c2
  Streams <- MCStreams
  Video = v
  Callers <- TwoCallers
  Reader = Reader
  Other = Other
  Nobody = Nobody
  NoPacket = NoPacket
  Faults = {}
  Capacity = 2
SPECIFICATION Spec
INVARIANTS NothingStaleAfterSeek NeverMixesPositions ThreadsHaveQueues OneOperation EndIsLast
PROPERTY CodecFlushedAlone
SYMMETRY CallersAreAlike
