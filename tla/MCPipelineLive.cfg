CONSTANTS
  v = v
  a = a
  c1 = c1
  c2 = c2
  Streams <- MCStreams
  Video = v
  Callers <- TwoCallers
  Reader = Reader
  Other = Other
  Nobody = Nobody
  NoPacket = NoPacket
  Faults = {}
  Capacity = 1
SPECIFICATION FairSpec
PROPERTIES OperationsFinish EndIsReported
