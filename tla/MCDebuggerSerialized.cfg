SPECIFICATION Spec
CONSTANTS
  u1 = u1
  u2 = u2
  Users <- MCUsers
  Calls <- MCStateCalls
  Overlap = FALSE
  MaxCalls = 3
INVARIANT LocksSerialized
CHECK_DEADLOCK FALSE
