SPECIFICATION Spec
CONSTANTS
  BufferSize = 2
  FastFactor = 2
  FullEvery = 3
  FullSize = 2
  DeltaSize = 1
  MaxBytes = 6
  Seconds = {1, 2}
  Ops = {"rewind"}
  MaxInputs = 10
  MaxTotal = 40
INVARIANT LaterReplayLeadsHere
CHECK_DEADLOCK FALSE
