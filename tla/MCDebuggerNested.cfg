SPECIFICATION FairSpec
CONSTANTS
  u1 = u1
  u2 = u2
  Users <- MCUsers
  Calls <- MCNestedCalls
  Overlap = FALSE
  MaxCalls = 3
PROPERTY RequestsFinish
CHECK_DEADLOCK FALSE
