CONSTANTS
  v = v
  a = a
  c1 = c1
  c2 = c2
  Streams <- MCStreams
  Video = v
  Callers <- OneCaller
  Reader = Reader
  Other = Other
  Nobody = Nobody
  NoPacket = NoPacket
  Faults = {"decode"}
  Capacity = 1
SPECIFICATION FairSpec
PROPERTY OperationsFinish
CHECK_DEADLOCK FALSE
