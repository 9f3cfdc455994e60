SPECIFICATION FairSpec
CONSTANTS
  Keys = {"none", "a"}
  BootKeys = {"none"}
  Ops = {"reset", "power", "record", "recordState", "play", "stop", "loadRom", "loadState"}
  Failures = TRUE
  MaxPolls = 3
  MaxRows = 2
  MaxOps = 4
INVARIANTS
  TypeOK
  RecordsAll
  PlaysBack
  SettingsRestored
PROPERTIES
  MovieEnds
CHECK_DEADLOCK FALSE
