SPECIFICATION Spec
CONSTANTS
  Keys = {"none", "a"}
  BootKeys = {"none"}
  Ops = {"reset", "power", "record", "recordState", "play", "stop", "loadRom", "loadState"}
  Failures = FALSE
  MaxPolls = 3
  MaxRows = 2
  MaxOps = 4
INVARIANT
  PlaysThroughPowerCycle
CHECK_DEADLOCK FALSE
