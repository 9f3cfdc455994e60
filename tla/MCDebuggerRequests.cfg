SPECIFICATION FairSpec
CONSTANTS
  u1 = u1
  u2 = u2
  Users <- MCUsers
  Calls <- MCCalls
  Overlap = FALSE
  MaxCalls = 3
INVARIANTS
  TypeOK
  RequestsKeepDebugger
  CountsReturn
PROPERTIES
  DebuggerChangedParked
  CallsEnd
CHECK_DEADLOCK FALSE
