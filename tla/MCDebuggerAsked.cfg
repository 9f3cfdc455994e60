SPECIFICATION Spec
CONSTANTS
  ui = ui
  other = other
  Users <- MCUsers
  FrameSize = 1
  Calls <- MCToolCalls
  MaxCalls = 1
PROPERTY CodeBreakAsked
CHECK_DEADLOCK FALSE
