SPECIFICATION Spec
CONSTANTS
  BufferSize = 1
  FastFactor = 2
  FullEvery = 2
  FullSize = 2
  DeltaSize = 1
  MaxBytes = 8
  Seconds = {2}
  Ops = {"rewind", "seconds", "load", "speed", "reload"}
  MaxInputs = 7
  MaxTotal = 12
INVARIANTS
  TypeOK
  Decodable
  FramePerfect
  MemoryCovered
PROPERTIES
  RewindsOneFrame
  StopsAtShown
CHECK_DEADLOCK FALSE
