SPECIFICATION FairSpec
CONSTANTS
  Ops = {"load", "record", "power", "rewind", "speed"}
  MaxFrames = 5
  MaxOps = 3
INVARIANTS
  WholeFrames
  RewindGapless
PROPERTIES
  CallsEnd
CHECK_DEADLOCK FALSE
