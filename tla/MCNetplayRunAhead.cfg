SPECIFICATION Spec
CONSTANTS
  Games = {g1}
  NumPorts = 1
  FirstQueue = 1
  QueueLimit = 2
  RunAhead = TRUE
  MaxPolls = 4
  MaxChanges = 0
INVARIANT InSync
CHECK_DEADLOCK FALSE
