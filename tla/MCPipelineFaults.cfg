CONSTANTS
  v = v
  a = a
  c1 = c1
  c2 = c2
  Streams <- MCStreams
  Video = v
  Callers <- OneCaller
  Reader = Reader
  Other = Other
  Nobody = Nobody
  NoPacket = NoPacket
  Faults = {"seek", "decode", "dup", "create", "attach", "unset"}
  Capacity = 1
SPECIFICATION Spec
INVARIANTS IInv SleepersAreBlocked
CHECK_DEADLOCK FALSE
