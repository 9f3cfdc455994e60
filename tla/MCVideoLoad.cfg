SPECIFICATION Spec
CONSTANTS
  Ops = {"load", "speed"}
  MaxFrames = 3
  MaxOps = 2
INVARIANT LoadedFrameShown
CHECK_DEADLOCK FALSE
