SPECIFICATION FairSpec
CONSTANTS
  u1 = u1
  u2 = u2
  Users <- MCUsers
  Calls <- MCWrapCalls
  Overlap = FALSE
  MaxCalls = 3
INVARIANT NotWrapped
CHECK_DEADLOCK FALSE
