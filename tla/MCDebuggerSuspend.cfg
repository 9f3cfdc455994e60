SPECIFICATION FairSpec
CONSTANTS
  ui = ui
  other = other
  Users <- MCUsers
  FrameSize = 1
  Calls <- MCCalls
  MaxCalls = 2
PROPERTY SuspensionEnds
CHECK_DEADLOCK FALSE
