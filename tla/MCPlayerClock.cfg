CONSTANTS
  v = v
  a = a
  Streams <- MCStreams
  FrameTimes <- MCFrameTimes
  Targets <- MCTargets
  Late = 3
  MinSleep = 1
  MaxTime = 6
SPECIFICATION Spec
INVARIANTS SeekLands
PROPERTIES PositionIsContinuous OldFramesLeaveClock
