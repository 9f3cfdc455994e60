SPECIFICATION Spec
CONSTANTS
  BufferSize = 2
  FastFactor = 2
  FullEvery = 3
  FullSize = 2
  DeltaSize = 1
  MaxBytes = 40
  Seconds = {1, 2}
  Ops = {"rewind"}
  MaxInputs = 4
  MaxTotal = 40
INVARIANT ReplayLeadsHere
CHECK_DEADLOCK FALSE
