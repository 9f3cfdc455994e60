SPECIFICATION Spec
CONSTANTS
  BufferSize = 1
  FastFactor = 11
  FullEvery = 2
  FullSize = 2
  DeltaSize = 1
  MaxBytes = 40
  Seconds = {}
  Ops = {"rewind", "speed"}
  MaxInputs = 13
  MaxTotal = 8
INVARIANT FramePerfect
CHECK_DEADLOCK FALSE
