SPECIFICATION FairSpec
CONSTANTS
  ui = ui
  other = other
  Users <- MCUsers
  FrameSize = 2
  Calls <- MCCalls
  MaxCalls = 3
INVARIANTS
  RequestsCounted
  OneInstructionOverrun
PROPERTIES
  LockGranted
  ToolsLetIn
CHECK_DEADLOCK FALSE
